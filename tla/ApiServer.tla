----------------------------- MODULE ApiServer -----------------------------
(***************************************************************************)
(* What the reconcilers rely on when they talk to the Kubernetes API       *)
(* server through controller-runtime's client.Client, for ONE object name. *)
(*                                                                         *)
(* The object's life is the sequence of its versions: a write appends one, *)
(* the position of a version in the sequence is its resourceVersion.  An   *)
(* informer is a position in the sequence, so its cache may show any       *)
(* version that was ever current but never goes back.  Update and          *)
(* Status().Update carry the resourceVersion they were read at and are     *)
(* refused (409 Conflict, 404 NotFound) when it is no longer the latest.   *)
(*                                                                         *)
(* The server is not part of the repository: these operators are external, *)
(* modelled from how internal/controller uses the client.                  *)
(***************************************************************************)
EXTENDS Naturals, Sequences

\* The version the server holds now.
Latest(h) == h[Len(h)]

\* Optimistic concurrency: a write that was read at version rv is accepted.
IsLatest(h, rv) == rv = Len(h)

\* The versions after an accepted write of o; a write that changes nothing
\* makes no new version and wakes no watcher.
Written(h, o) == IF o = Latest(h) THEN h ELSE Append(h, o)

(***************************************************************************)
(* Where no property speaks of old versions, a module keeps the versions   *)
(* from the one that the cache shows, and an informer that moves on drops  *)
(* the first.                                                              *)
(***************************************************************************)

\* What a read from the cache returns.
Shown(h) == h[1]

\* The cache shows the latest version: a write of what it shows is accepted.
UpToDate(h) == IsLatest(h, 1)
=============================================================================
