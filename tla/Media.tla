-------------------------------- MODULE Media --------------------------------
(***************************************************************************)
(* Uploads: a client asks for a place in the object store, puts its file   *)
(* there by itself, and tells the service, which looks at the object and   *)
(* makes the media READY or FAILED (src/modules/media/service.rs).  A job  *)
(* of the worker removes what nobody completed for a day                   *)
(* (src/bin/worker.rs).                                                    *)
(*                                                                         *)
(* The service reads the row, then the object, twice, then writes the row  *)
(* by id alone: between any two of these steps another completion, the     *)
(* client's next PUT or the job can come in.  A file is what the checks    *)
(* tell apart: of the declared size and kind, or not.  The store is        *)
(* external; its addresses, which expire, and the cache of addresses are   *)
(* left out.                                                               *)
(***************************************************************************)
EXTENDS Integers, FiniteSetsExt

CONSTANTS
    Owners,          \* users who upload
    Files,           \* rows of media
    Uploads,         \* requests complete_upload that may be in flight
    NoOwner, NoFile

ASSUME MediaAssumption == NoOwner \notin Owners /\ NoFile \notin Files

VARIABLES
    media,           \* media: status, owner, and whether a day has passed
    object,          \* what the object store holds for a row
    up,              \* completions in flight
    orphans,         \* rows the cleanup job has selected and not yet handled
    settled          \* files made READY, object and all, while nobody else was at them

mediaVars == <<media, object, up, orphans, settled>>

MediaState == {"NONE", "UPLOADING", "READY", "FAILED"}
Object     == {"none", "good", "wrongSize", "wrongKind"}
Completion == [at : {"idle", "head", "magic", "ready", "failed"}, file : Files \cup {NoFile}]
NoUpload   == [at |-> "idle", file |-> NoFile]

MediaTypeOK ==
    /\ media   \in [Files -> [status : MediaState, owner : Owners \cup {NoOwner}, old : BOOLEAN]]
    /\ object  \in [Files -> Object]
    /\ up      \in [Uploads -> Completion]
    /\ orphans \subseteq Files
    /\ settled \subseteq Files

MediaInit ==
    /\ media   = [f \in Files |-> [status |-> "NONE", owner |-> NoOwner, old |-> FALSE]]
    /\ object  = [f \in Files |-> "none"]
    /\ up      = [p \in Uploads |-> NoUpload]
    /\ orphans = {}
    /\ settled = {}

Upload(p, step, f) == up' = [up EXCEPT ![p] = [at |-> step, file |-> f]]
Uploaded(p)        == up' = [up EXCEPT ![p] = NoUpload]
SetMedia(f, s)     == media' = [media EXCEPT ![f].status = s]

\* Others who have read f as UPLOADING and are not done with it.
AtFile(p, f) == f \in orphans \/ \E q \in Uploads \ {p} : up[q].file = f

-----------------------------------------------------------------------------
(* The client *)

\* Too big or too long a file, or one of another type, is refused before.
create_upload(u, f) ==
    /\ media[f].status = "NONE"
    /\ media' = [media EXCEPT ![f] = [status |-> "UPLOADING", owner |-> u, old |-> FALSE]]
    /\ UNCHANGED <<object, up, orphans, settled>>

\* The address to put the file at is good for a quarter of an hour, whatever
\* has become of the row.
PutObject(f, o) ==
    /\ media[f].status # "NONE"
    /\ ~media[f].old
    /\ object' = [object EXCEPT ![f] = o]
    /\ UNCHANGED <<media, up, orphans, settled>>

-----------------------------------------------------------------------------
(* complete_upload *)

\* Fault: a file that is READY or FAILED can be completed again.
BeginCompleteAgain(p, u, f) ==
    /\ up[p] = NoUpload
    /\ media[f].owner = u
    /\ Upload(p, "head", f)
    /\ UNCHANGED <<media, object, orphans, settled>>

BeginComplete(p, u, f) ==
    /\ up[p] = NoUpload
    /\ media[f].owner = u /\ media[f].status = "UPLOADING"
    /\ Upload(p, "head", f)
    /\ UNCHANGED <<media, object, orphans, settled>>

HeadObject(p) ==
    /\ up[p].at = "head"
    /\ LET f == up[p].file IN
         CASE object[f] = "none"      -> Uploaded(p)
           [] object[f] = "wrongSize" -> Upload(p, "failed", f)
           [] OTHER                   -> Upload(p, "magic", f)
    /\ UNCHANGED <<media, object, orphans, settled>>

\* The job may have deleted the object since.
FirstBytes(p) ==
    /\ up[p].at = "magic"
    /\ LET f == up[p].file IN
         CASE object[f] = "none"      -> Uploaded(p)
           [] object[f] = "wrongKind" -> Upload(p, "failed", f)
           [] OTHER                   -> Upload(p, "ready", f)
    /\ UNCHANGED <<media, object, orphans, settled>>

MarkReady(p) ==
    /\ up[p].at = "ready"
    /\ LET f == up[p].file IN
         /\ SetMedia(f, "READY")
         /\ settled' = IF AtFile(p, f) \/ object[f] = "none" THEN settled ELSE settled \cup {f}
    /\ Uploaded(p)
    /\ UNCHANGED <<object, orphans>>

MarkFailed(p) ==
    /\ up[p].at = "failed"
    /\ SetMedia(up[p].file, "FAILED")
    /\ Uploaded(p)
    /\ UNCHANGED <<object, orphans, settled>>

\* The store or the database fails at one of these steps, or the server dies:
\* the row stays as it is.
CompleteFails(p) ==
    /\ up[p] # NoUpload
    /\ Uploaded(p)
    /\ UNCHANGED <<media, object, orphans, settled>>

-----------------------------------------------------------------------------
(* media.cleanup_orphan *)

DayPasses(f) ==
    /\ media[f].status # "NONE" /\ ~media[f].old
    /\ media' = [media EXCEPT ![f].old = TRUE]
    /\ UNCHANGED <<object, up, orphans, settled>>

SelectOrphans ==
    /\ orphans = {}
    /\ orphans' = {f \in Files : media[f].status = "UPLOADING" /\ media[f].old}
    /\ orphans' # {}
    /\ UNCHANGED <<media, object, up, settled>>

DeleteObject(f) ==
    /\ f \in orphans
    /\ object[f] # "none"
    /\ object' = [object EXCEPT ![f] = "none"]
    /\ UNCHANGED <<media, up, orphans, settled>>

\* Without a store, or when the store refuses, the object stays.
FailOrphan(f) ==
    /\ f \in orphans
    /\ SetMedia(f, "FAILED")
    /\ orphans' = orphans \ {f}
    /\ UNCHANGED <<object, up, settled>>

\* The worker dies between two rows.
CleanupDies ==
    /\ orphans # {}
    /\ orphans' = {}
    /\ UNCHANGED <<media, object, up, settled>>

MediaNext ==
    \/ \E f \in Files :
          \/ \E o \in Object \ {"none"} : PutObject(f, o)
          \/ DayPasses(f) \/ DeleteObject(f) \/ FailOrphan(f)
    \/ \E p \in Uploads : HeadObject(p) \/ FirstBytes(p) \/ MarkReady(p) \/ MarkFailed(p)
                         \/ CompleteFails(p)
    \/ SelectOrphans \/ CleanupDies

-----------------------------------------------------------------------------
(* Properties *)

\* A file that became READY with its object there, and with no other completion
\* and no cleanup under way that had read it as UPLOADING, stays READY and in
\* the store, although every UPDATE of the table, and the cleanup's deletion,
\* go by id alone.
ReadyIsKept ==
    \A f \in settled : media[f].status = "READY" /\ object[f] # "none"

\* A settled file is kept, and nobody who could write it is under way.
MediaKnows ==
    /\ ReadyIsKept
    /\ \A p \in Uploads : up[p].at # "idle" => up[p].file \in Files
    /\ \A f \in settled : f \notin orphans /\ \A p \in Uploads : up[p].file # f

-----------------------------------------------------------------------------
(* A statement of the source the code does not live up to *)

\* "media berstatus {status} — tidak bisa complete" (service.rs:137): what is
\* READY or FAILED cannot be completed.  The row a completion has read may be
\* finished by others before it writes.
FinishedIsFinal ==
    [][\A f \in Files : media[f].status \in {"READY", "FAILED"} =>
          media'[f].status = media[f].status]_mediaVars
=============================================================================
