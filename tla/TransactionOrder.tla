-------------------------- MODULE TransactionOrder --------------------------
(***************************************************************************)
(* What WebRenderAPI::SendTransaction promises its callers: an API's       *)
(* transactions reach WebRender in the order in which they were given to   *)
(* it.  One that uses remote textures may be held until each of them is    *)
(* settled, and holds back those behind it; no other ever waits.           *)
(***************************************************************************)
EXTENDS Sequences

CONSTANTS Apis,      \* the APIs, with a stream of transactions each
          Txns,      \* the transactions
          Textures   \* the remote textures they may use

VARIABLES held,      \* of each API, the transactions that wait,
          needs,     \* of each transaction, the textures it uses
          sent,      \* of each API, the transactions sent
          settled    \* the textures that need not be waited for

vars == <<held, needs, sent, settled>>

Init == /\ held = [a \in Apis |-> <<>>] /\ sent = [a \in Apis |-> <<>>]
        /\ needs = [t \in Txns |-> {}]
        /\ settled = {}

Settle == /\ settled \subseteq settled' /\ settled' \subseteq Textures
          /\ UNCHANGED <<held, needs, sent>>

Hold(a, t, T) ==
  /\ held' = [held EXCEPT ![a] = Append(@, t)]
  /\ needs' = [needs EXCEPT ![t] = T]
  /\ UNCHANGED <<sent, settled>>

SendNow(a, t) ==
  /\ held[a] = <<>>
  /\ sent' = [sent EXCEPT ![a] = Append(@, t)]
  /\ needs' = [needs EXCEPT ![t] = {}]
  /\ UNCHANGED <<held, settled>>

SendHeld(a) ==
  /\ held[a] # <<>>
  /\ needs[Head(held[a])] \subseteq settled
  /\ sent' = [sent EXCEPT ![a] = Append(@, Head(held[a]))]
  /\ held' = [held EXCEPT ![a] = Tail(@)]
  /\ UNCHANGED <<needs, settled>>

Next == \/ Settle
        \/ \E a \in Apis : \/ SendHeld(a)
                           \/ \E t \in Txns : \/ SendNow(a, t)
                                              \/ \E T \in SUBSET Textures :
                                                   Hold(a, t, T)

Spec == Init /\ [][Next]_vars
=============================================================================
