---------------------------- MODULE SessionStore ----------------------------
(***************************************************************************)
(* One conversation in core.PersistentSessionStore: its history in memory, *)
(* the row it is saved in, and the flusher that copies the one to the      *)
(* other behind the writers' backs.                                        *)
(*                                                                         *)
(* A write changes the in-memory session and then marks the key; a flush   *)
(* between the two writes the change early and then once more, so they are *)
(* one step here.  A flush takes the mark and then copies the history: two *)
(* steps.  There is one flusher, so the copy and the statement that writes *)
(* it are one.  The system prompt is never saved and is not part of the    *)
(* history here.                                                           *)
(***************************************************************************)
EXTENDS Naturals, Sequences, FiniteSets, SequencesExt

CONSTANTS Friend,      \* requests of people the bot trusts
          Suspect,     \* requests of one speaker who may be screened
          ToolUser     \* the requests whose answer uses a tool

ASSUME RequestAssumption == /\ IsFiniteSet(Friend \cup Suspect)
                            /\ Friend \cap Suspect = {}
                            /\ ToolUser \subseteq Friend \cup Suspect

Request == Friend \cup Suspect
Message == [of : Request, role : {"user", "tool", "assistant"}]

VARIABLES history,     \* the session's messages in memory
          dirty,       \* the key is marked as changed
          disk,        \* the row of the sessions table
          flushing     \* where the flusher is

storeVars == <<history, dirty, disk, flushing>>

StoreInit == /\ history = <<>> /\ disk = <<>>
             /\ dirty = FALSE
             /\ flushing = "idle"

-----------------------------------------------------------------------------
(* Faults of the code that the properties of Conversation must notice. *)

\* Clear is the embedded session's: nobody marks the key.
ClearUnmarked ==
    /\ history' = <<>>
    /\ UNCHANGED <<dirty, disk, flushing>>

-----------------------------------------------------------------------------
AddMessage(m) ==
    /\ history' = Append(history, m)
    /\ dirty' = TRUE
    /\ UNCHANGED <<disk, flushing>>

Clear ==
    /\ history' = <<>>
    /\ dirty' = TRUE
    /\ UNCHANGED <<disk, flushing>>

FlushTake ==
    /\ flushing \in {"idle", "failed"}
    /\ dirty
    /\ dirty' = FALSE
    /\ flushing' = "taken"
    /\ UNCHANGED <<history, disk>>

FlushWrite ==
    /\ flushing = "taken"
    /\ disk' = history
    /\ flushing' = "idle"
    /\ UNCHANGED <<history, dirty>>

\* The statement fails: it is logged, and the mark stays taken.
FlushFails ==
    /\ flushing = "taken"
    /\ flushing' = "failed"
    /\ UNCHANGED <<history, dirty, disk>>

\* The process ends and another one restores the row.
Restore ==
    /\ history' = disk
    /\ dirty' = FALSE
    /\ flushing' = "idle"
    /\ UNCHANGED disk
=============================================================================
