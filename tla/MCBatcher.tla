------------------------------ MODULE MCBatcher -----------------------------
(***************************************************************************)
(* Instances of Batcher for TLC.                                           *)
(***************************************************************************)
EXTENDS Ingest

\* The events a run allows, each at most so often.
Allow(backoff, oom, shutdown, error, renew, reconnectFails) ==
  [e \in Events |->
    CASE e = "backoff" -> backoff
      [] e = "oom" -> oom
      [] e = "shutdown" -> shutdown
      [] e = "error" -> error
      [] e = "renew" -> renew
      [] e = "reconnectFails" -> reconnectFails]

NoEvents == Allow(0, 0, 0, 0, 0, 0)
AllButErrors == Allow(1, 1, 1, 0, 1, 0)
ErrorAndShutdown == Allow(1, 0, 1, 1, 0, 6)
Renewal == Allow(1, 0, 0, 0, 1, 0)
Shutdown == Allow(1, 0, 1, 0, 0, 0)
Error == Allow(0, 0, 0, 1, 0, 0)

\* Objects only, small, each with its own uuid.
Objects == <<"obj", "obj", "obj", "obj", "obj">>
Uuids == <<"u1", "u2", "u3", "u4", "u5">>
Small == [e \in Entries |-> 1]

\* Objects and references whose sizes fill a request before its count does,
\* the third and fourth together and the fifth alone beyond the limit, by what
\* is not counted; the last object fits no request.
Mixed == <<"ref", "obj", "ref", "obj", "obj", "obj">>
MixedKeys == <<"b1", "u1", "b2", "u2", "u3", "u4">>
MixedSizes == <<1, 3, 3, 4, 8, 10>>

\* Objects, two of one uuid, and two references of one property of an object.
Few == <<"obj", "ref", "obj", "obj", "ref", "ref">>
SharedKeys == <<"u1", "b1", "u2", "u1", "b2", "b1">>
=============================================================================
