------------------------------ MODULE MCStepFile ------------------------------
(* Instances of StepFile: exchange files with duplicates, unknown and         *)
(* incomplete records, and working sessions.                                  *)
EXTENDS StepFile

Val(refs, missing) == [refs |-> refs, missing |-> missing]

Rec(letter, id, form, head, rest) ==
    [letter |-> letter, id |-> id, form |-> form, head |-> head, rest |-> rest]

Full == Val({}, {})
Plain(letter, id, form) == Rec(letter, id, form, Full, Full)
Simple(id, refs) == Rec(NoLetter, id, "simple", Val(refs, {}), Full)

AFile(keyword, heading, records) ==
    [keyword |-> keyword, header |-> heading, headerSeverity |-> SEVERITY_NULL,
     hasData |-> TRUE, records |-> records]

Exchange(records) == AFile("ISO-10303-21", Required, records)
Session(records)  == AFile("STEP_WORKING_SESSION", Required, records)

Cycle      == Exchange(<<Simple(1, {2}), Simple(2, {1})>>)
Forward    == AFile("ISO-10303-21", <<"FILE_NAME", "UNKNOWN", "OTHER", "!USER", "FILE_SCHEMA">>,
                    <<Simple(1, {3}), Rec(NoLetter, 3, "complex", Val({}, {"text"}), Full)>>)
Duplicates == AFile("ISO-10303-21", Required \o <<"OTHER">>,
                    <<Simple(1, {}), Plain(NoLetter, 1, "user"), Simple(1, {1})>>)
Rejected   == Exchange(<<Simple(3, {4}), Plain(NoLetter, 4, "unknown"),
                         Plain(NoLetter, 5, "noequal"), Plain(NoLetter, 5, "user"),
                         Simple(6, {3})>>)
Restated   == Exchange(<<Plain(NoLetter, 7, "user"),
                         Rec(NoLetter, 7, "simple", Val({7}, {"other"}), Full)>>)
Filler     == Exchange(<<Rec(NoLetter, 1, "simple", Val({2}, {"text"}), Full),
                         Rec(NoLetter, 2, "complex", Val({1}, {}), Val({1}, {"number"}))>>)
Misfit     == Exchange(<<Rec(NoLetter, 1, "simple", Val({}, {"number"}), Full)>>)
Parted     == Exchange(<<Rec(NoLetter, 1, "complex", Val({2}, {}), Val({1, 9}, {})), Simple(2, {})>>)
Lacks      == Exchange(<<Rec(NoLetter, 1, "simple", Val({}, {"other"}), Full)>>)
Lettered   == Session(<<Rec("N", 1, "complex", Val({2}, {}), Full),
                        Rec("I", 2, "simple", Val({1}, {}), Full)>>)
Letterless == Session(<<Plain("D", 1, "simple"), Plain(NoLetter, 2, "simple")>>)
NoData     == [Cycle EXCEPT !.hasData = FALSE]
BadHeader  == [Cycle EXCEPT !.headerSeverity = SEVERITY_INPUT_ERROR]

FileSet == {Cycle, Forward, Duplicates, Rejected, Restated, Filler, Misfit, Parted, Lacks,
            Lettered, Letterless, NoData, BadHeader, NoFile}

(* What the proof about the header supposes of the files holds of these.      *)
ASSUME HeadersAssumption == \A f \in FileSet : RepeatedLate(f.header)
===============================================================================
