----------------------------- MODULE MCLazyInstMgr -----------------------------
(* Small indexes for LazyInstMgr: the reference graphs over three instances *)
(* whose references all lead one way, graphs with cycles, graphs with       *)
(* inverse attributes, and records the manager cannot load.                 *)
EXTENDS LazyInstMgr

NoInverse == [i \in Ids |-> {}]
AllGood   == [i \in Ids |-> "good"]
Idx(e, f, v) == [entry |-> e, fwd |-> f, inverseAttrs |-> v]

Upward   == {<<a, b, <<>> >> : a \in {<<>>, <<2>>, <<3>>, <<2, 3>>, <<3, 2>>},
                                b \in {<<>>, <<3>>}}
Downward == {<< <<>>, b, c>> : b \in {<<>>, <<1>>},
                               c \in {<<>>, <<1>>, <<2>>, <<1, 2>>, <<2, 1>>}}

(* one record that cannot be loaded, referred to by the others *)
Damaged == {[AllGood EXCEPT ![i] = e] : i \in {2, 3}, e \in Entries \ {"good"}}

AcyclicIndexes == {Idx(AllGood, f, NoInverse) : f \in Upward \cup Downward}
DamagedIndexes == {Idx(e, << <<2, 3>>, IF e[2] = "absent" THEN <<>> ELSE <<3>>, <<>> >>,
                       NoInverse) : e \in Damaged}
BatchIndexes == AcyclicIndexes \cup DamagedIndexes

(* Every reference graph without self-references, in ascending order, and   *)
(* inverse attributes over the type of all instances or of one of them. *)
AllGraphs == {<<a, b, c>> : a \in {<<>>, <<2>>, <<3>>, <<2, 3>>},
                             b \in {<<>>, <<1>>, <<3>>, <<1, 3>>},
                             c \in {<<>>, <<1>>, <<2>>, <<1, 2>>}}
Inverses  == {[i \in Ids |-> {Ids}], << {{2}, {3}}, {{3}}, {} >>}
InverseIndexes == {Idx(AllGood, f, v) : f \in AllGraphs, v \in Inverses}
(* 1 has an inverse attribute; one of its two referrers is no usable record.*)
BadReferrer == {Idx(<<"good", e, "good">>, << <<>>, <<1>>, <<1>> >>,
                    << {{2, 3}}, {}, {} >>) : e \in {"many", "unregistered"}}

MixedIndexes ==
    {Idx(AllGood, f, v) :
        f \in {<< <<2>>, <<>>, <<2, 1>> >>, << <<2>>, <<3>>, <<1>> >>,
               << <<3>>, <<1, 3>>, <<>> >>},
        v \in {NoInverse, [i \in Ids |-> {Ids \ {i}}]}}
    \cup {Idx(e, << <<2, 3>>, <<3>>, <<>> >>, NoInverse) :
             e \in {[AllGood EXCEPT ![2] = "alien"], [AllGood EXCEPT ![3] = "many"]}}
    \cup BadReferrer

Roots == {{}, {1}, {2}, {3}, {1, 3}}
==============================================================================
