----------------------------- MODULE SubStream -----------------------------
(***************************************************************************)
(* What a subscription promises its client, whatever the transport.        *)
(*                                                                         *)
(* A client asks for a stream under a key.  The server either refuses or   *)
(* opens it, once; an open stream carries events in the order they were    *)
(* produced, never twice; then it ends, once.  One error may stand for the *)
(* end or follow it.  Otherwise nothing more arrives under the key until   *)
(* the client asks again.  An event that cannot be encoded is skipped, so  *)
(* numbers may have gaps.                                                  *)
(***************************************************************************)
EXTENDS Naturals

CONSTANTS
  Keys,       \* what identifies a stream to its client
  MaxEvents   \* bound: events in one stream

VARIABLES
  view,       \* "idle", "pending", "open", "ended", "failed" or "left", per key
  got         \* number of the last event received, per key

streamVars == <<view, got>>

\* A stream that is over: it ended, it was answered with an error, or the
\* client went away.
Over == {"ended", "failed", "left"}

StreamInit ==
  /\ view = [k \in Keys |-> "idle"]
  /\ got = [k \in Keys |-> 0]

Ask(k) ==
  /\ view[k] \in {"idle"} \cup Over
  /\ view' = [view EXCEPT ![k] = "pending"]
  /\ got' = [got EXCEPT ![k] = 0]

Becomes(k, from, to) ==
  /\ view[k] \in from
  /\ view' = [view EXCEPT ![k] = to]
  /\ UNCHANGED got

Refuse(k) == Becomes(k, {"pending"}, "failed")

Open(k) == Becomes(k, {"pending"}, "open")

Deliver(k) ==
  /\ view[k] = "open"
  /\ \E n \in got[k] + 1 .. MaxEvents : got' = [got EXCEPT ![k] = n]
  /\ UNCHANGED view

End(k) == Becomes(k, {"open"}, "ended")

\* An error in place of the end, when a reconnection is refused, or after it,
\* when the server panicked over the stream.
Fail(k) == Becomes(k, {"open", "ended"}, "failed")

\* The client gives the stream up by itself.
Leave(k) == Becomes(k, {"pending", "open"}, "left")

StreamNext ==
  \E k \in Keys :
    \/ Ask(k) \/ Refuse(k) \/ Open(k) \/ Deliver(k)
    \/ End(k) \/ Fail(k) \/ Leave(k)

StreamSpec == StreamInit /\ [][StreamNext]_streamVars
=============================================================================
