---------------------------- MODULE PropertyMap ----------------------------
(***************************************************************************)
(* What the store of one property promises, without vids and arrays: a     *)
(* partial map from topics to values.  For a property that combines (a     *)
(* set-valued identity such as SAM::SubjectIndicators) topics whose values *)
(* have an element in common share one value, the union; for any other     *)
(* property a topic keeps the one value it was first given.                *)
(***************************************************************************)
CONSTANTS Topic, Value, NoValue

VARIABLES prop,  \* the property: sidp, combines, topical
          val    \* val[t]: the value topic t has for the property

mapVars == <<prop, val>>

MapInit == val = [t \in Topic |-> NoValue]

Valued(t) == val[t] # NoValue

\* Topics whose value meets the set v are given the union of it all, as is
\* every topic in ts.
Unite(v, ts) ==
    LET met == {u \in Topic : Valued(u) /\ val[u] \cap v # {}}
    IN [u \in Topic |-> IF u \in ts \/ u \in met
                        THEN v \cup UNION {val[w] : w \in met} ELSE val[u]]

MapPut(t, v) ==
    /\ val' = IF prop.combines
              THEN Unite(IF Valued(t) THEN val[t] \cup v ELSE v, {t})
              ELSE IF Valued(t) THEN val ELSE [val EXCEPT ![t] = v]
    /\ UNCHANGED prop

\* Of the topics that share a value exactly one goes on having it.
MapNormalize ==
    /\ prop.sidp
    /\ \E keep \in SUBSET {t \in Topic : Valued(t)} :
         /\ \A t \in Topic : Valued(t) =>
              \E u \in keep : val[u] = val[t]
         /\ \A t, u \in keep : val[t] = val[u] => t = u
         /\ val' = [t \in Topic |-> IF t \in keep THEN val[t] ELSE NoValue]
    /\ UNCHANGED prop

\* disap gives its value up to stays; where both have one, either the two are
\* combined, or that of disap is lost (a value that contains topics), or
\* nothing happens and the caller is told of the contradiction.
MapReplace(stays, disap) ==
    /\ Valued(disap)
    /\ IF ~Valued(stays)
       THEN val' = [val EXCEPT ![stays] = val[disap], ![disap] = NoValue]
       ELSE IF val[stays] = val[disap] \/ prop.topical
       THEN val' = [val EXCEPT ![disap] = NoValue]
       ELSE /\ prop.combines
            /\ val' = [Unite(val[stays] \cup val[disap], {stays})
                         EXCEPT ![disap] = NoValue]
    /\ UNCHANGED prop

MapReplaceValue(old, new) ==
    /\ prop.topical
    /\ val' = [t \in Topic |-> IF val[t] = old THEN new ELSE val[t]]
    /\ UNCHANGED prop

MapNext ==
    \/ \E t \in Topic, v \in Value : MapPut(t, v)
    \/ MapNormalize
    \/ \E stays, disap \in Topic : stays # disap /\ MapReplace(stays, disap)
    \/ \E old, new \in Value : MapReplaceValue(old, new)

MapSpec == MapInit /\ [][MapNext]_mapVars

=============================================================================
