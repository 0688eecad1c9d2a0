------------------------------- MODULE MCSystem -------------------------------
(* A chain with three logs and a table with three orders, two of one maker.  *)
EXTENDS System

CONSTANTS o1, o2, o3, m1, m2, s1, s2, c1, c2

MCHash == {o1, o2, o3}
MCMaker == {m1, m2}
MCSalt == {s1, s2}
MCCollection == {c1, c2}

Rec(m, s, c, e) == [maker |-> m, salt |-> s, collection |-> c, endTime |-> e]

MCOrder ==
    [h \in MCHash |->
        CASE h = o1 -> Rec(m1, s1, c1, 0)
          [] h = o2 -> Rec(m1, s2, c2, 1)
          [] h = o3 -> Rec(m2, s1, c2, 0)]

RawEvent(name, topics, words) == [topic0 |-> name, topics |-> topics, words |-> words]

FillOne == RawEvent("OrderFulfilled", <<o1, s1, m1>>, <<>>)
CancelTwo == RawEvent("OrderCancelled", <<m1, s2>>, <<>>)
Increment == RawEvent("CounterIncremented", <<m1>>, <<1>>)
ShortIncrement == RawEvent("CounterIncremented", <<m1>>, <<>>)
Block == RawEvent("CollectionUpdated", <<c2>>, <<0, 1>>)
Allow == RawEvent("CollectionUpdated", <<c2>>, <<1, 0>>)

MCHistories ==
    {<<FillOne, Allow, Increment>>, <<Block, ShortIncrement, CancelTwo>>}

SharedAndNext == <<1, 1, 2>>
PollAndReorg == {"reorg"}
=============================================================================
