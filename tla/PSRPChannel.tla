---------------------------- MODULE PSRPChannel ----------------------------
(***************************************************************************)
(* What the fragment layer of a Runspace Pool promises to the layer above  *)
(* it: for every target (the pool itself or one of its pipelines) the      *)
(* messages queued by prepare_message() come out of the peer's             *)
(* next_event() whole, once each and in the order they were queued.        *)
(* Nothing is said of the order between two targets.                       *)
(***************************************************************************)
EXTENDS Naturals, Sequences

CONSTANTS Targets, Values

VARIABLES
    sent,       \* for each target, the messages queued for it, in order
    received    \* for each target, the messages handed to the peer's caller

channelVars == <<sent, received>>

Empty == [t \in Targets |-> <<>>]

Init ==
    /\ sent = Empty
    /\ received = Empty

Send(t, m) ==
    /\ sent' = [sent EXCEPT ![t] = Append(@, m)]
    /\ UNCHANGED received

Receive(t) ==
    /\ Len(received[t]) < Len(sent[t])
    /\ received' = [received EXCEPT ![t] = Append(@, sent[t][Len(@) + 1])]
    /\ UNCHANGED sent

Next == \E t \in Targets : (\E m \in Values : Send(t, m)) \/ Receive(t)

Spec == Init /\ [][Next]_channelVars
=============================================================================
