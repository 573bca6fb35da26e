---------------------------- MODULE RecencyList ----------------------------
(* What a level of the LRU-2 store promises: a bounded recency list.         *)
EXTENDS Recency

CONSTANTS Keys, Values, Expiries, Cap

VARIABLE list

Put(k, v, exp) == list' = PutNode(list, k, v, exp, Cap)
Get(k) == list' = Touch(list, k)
Del(k) == list' = Kill(list, k)

ListInit == list = <<>>
ListNext ==
    \E k \in Keys :
        \/ \E v \in Values, exp \in Expiries : Put(k, v, exp)
        \/ Get(k)
        \/ Del(k)

ListSpec == ListInit /\ [][ListNext]_list
=============================================================================
