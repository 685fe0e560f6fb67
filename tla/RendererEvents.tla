--------------------------- MODULE RendererEvents ---------------------------
(***************************************************************************)
(* What RenderThread promises to those who send it events: each window has *)
(* an inbox from which the events are handled one by one, in the order in  *)
(* which they were sent, and none is lost; an event that somebody waits    *)
(* for is answered when it is handled and not before.  The event that      *)
(* removes the renderer is the last one the window is sent and closes it.  *)
(***************************************************************************)
EXTENDS Sequences

CONSTANTS Windows,  \* the windows, each used once
          Events,   \* what may be sent
          Awaited,  \* the events whose sender waits for the answer
          Removal   \* the event that closes a window, one of these

VARIABLES open, inbox, answered

vars == <<open, inbox, answered>>

Init == open = {} /\ inbox = [w \in Windows |-> <<>>] /\ answered = FALSE

Open(w) ==
  /\ w \notin open /\ inbox[w] = <<>>
  /\ open' = open \cup {w}
  /\ UNCHANGED <<inbox, answered>>

Send(w, e) ==
  /\ w \in open
  /\ inbox[w] # <<>> => inbox[w][Len(inbox[w])] # Removal
  /\ inbox' = [inbox EXCEPT ![w] = Append(@, e)]
  /\ UNCHANGED <<open, answered>>

Handle(w) ==
  /\ inbox[w] # <<>> /\ Head(inbox[w]) # Removal
  /\ inbox' = [inbox EXCEPT ![w] = Tail(@)]
  /\ answered' = (answered \/ Head(inbox[w]) \in Awaited)
  /\ UNCHANGED open

Close(w) ==
  /\ w \in open
  /\ inbox[w] = <<Removal>>
  /\ inbox' = [inbox EXCEPT ![w] = <<>>]
  /\ open' = open \ {w}
  /\ answered' = TRUE

(* The one who waited goes on.                                              *)
Return == answered /\ answered' = FALSE /\ UNCHANGED <<open, inbox>>

Next == \/ \E w \in Windows : \/ Open(w) \/ Handle(w) \/ Close(w)
                              \/ \E e \in Events : Send(w, e)
        \/ Return

Spec == Init /\ [][Next]_vars

FairSpec == Spec /\ \A w \in Windows : WF_vars(Handle(w) \/ Close(w))
=============================================================================
