----------------------------- MODULE FileOutput -----------------------------
(***************************************************************************)
(* One output file of a command: written to a temporary file in the        *)
(* destination's directory, synced, moved into place, and the directory    *)
(* synced (OutputTransaction, write_all_new).                              *)
(*                                                                         *)
(* Another process may create the destination meanwhile, every system call *)
(* may fail, the process may be killed and the host may lose power after   *)
(* any of them.  What the directory shows after a power loss is the last   *)
(* synced name or any later one; unsynced bytes may be lost.               *)
(***************************************************************************)

VARIABLES
    policy,   \* OverwritePolicy
    path,     \* what the destination names
    onDisk,   \* what it may name after a power loss
    file,     \* where the output transaction is
    content,  \* how much of the artifact the temporary file holds
    synced    \* whether that is on stable storage

fileVars == <<policy, path, onDisk, file, content, synced>>
contentVars == <<content, synced>>

\* "whole" and "torn" are the artifact of this command.
Names == {"nothing", "old", "rival", "directory", "link", "whole", "torn"}

FileTypeOK ==
    /\ policy \in {"Deny", "Allow", "Exclusive"}
    /\ path \in Names
    /\ onDisk \subseteq Names /\ onDisk # {}
    /\ file \in {"closed", "open", "written", "synced", "renamed",
                 "committed", "failed"}
    /\ content \in {"none", "part", "full"}
    /\ synced \in BOOLEAN

FileInit(policies) ==
    /\ policy \in policies
    /\ path \in {"nothing", "old", "directory", "link"}
    /\ onDisk = {path}
    /\ file = "closed"
    /\ content = "none"
    /\ synced = FALSE

\* A rival process wins a free name.
RivalCreates ==
    /\ path = "nothing"
    /\ path' = "rival"
    /\ onDisk' = onDisk \cup {"rival"}
    /\ UNCHANGED <<policy, file, contentVars>>

\* The transaction is dropped, and the temporary file with it.
DropFile ==
    /\ file' = "failed"
    /\ UNCHANGED <<policy, path, onDisk, contentVars>>

\* begin_write_with_policy: what is there already decides.
BeginWrite ==
    /\ file = "closed"
    /\ \/ /\ path \in IF policy = "Allow" THEN {"nothing", "old", "rival"}
                     ELSE {"nothing"}
          /\ file' = "open"
          /\ UNCHANGED <<policy, path, onDisk, contentVars>>
       \/ DropFile

WriteAll ==
    /\ file = "open"
    /\ \/ /\ file' = "written" /\ content' = "full"
          /\ UNCHANGED <<policy, path, onDisk, synced>>
       \/ /\ file' = "failed" /\ content' = "part"
          /\ UNCHANGED <<policy, path, onDisk, synced>>

\* A bug: The bytes are flushed to the kernel but not synced.
FlushOnly ==
    /\ file = "written" /\ file' = "synced"
    /\ UNCHANGED <<policy, path, onDisk, contentVars>>

SyncAll ==
    /\ file = "written"
    /\ \/ /\ file' = "synced" /\ synced' = TRUE
          /\ UNCHANGED <<policy, path, onDisk, content>>
       \/ DropFile

Artifact == IF content = "full" THEN "whole" ELSE "torn"

\* persist and persist_noclobber: a rename that replaces what is there, a
\* link included, or one that fails if anything is.
MayRename == path = "nothing" \/ (policy = "Allow" /\ path # "directory")

Persist ==
    /\ file = "synced"
    /\ \/ /\ MayRename
          /\ file' = "renamed"
          /\ path' = Artifact
          /\ onDisk' = onDisk \cup {Artifact}
          /\ UNCHANGED <<policy, contentVars>>
       \/ DropFile

\* A bug: The directory is not synced after the rename.
TrustRename ==
    /\ file = "renamed" /\ file' = "committed"
    /\ UNCHANGED <<policy, path, onDisk, contentVars>>

SyncDirectory ==
    /\ file = "renamed"
    /\ \/ /\ file' = "committed"
          /\ onDisk' = {path}
          /\ UNCHANGED <<policy, path, contentVars>>
       \/ DropFile

FileStep == BeginWrite \/ WriteAll \/ SyncAll \/ Persist \/ SyncDirectory

\* The host loses power.  Bytes that were not synced may be gone.
PowerLoss ==
    /\ \E name \in onDisk :
          path' \in IF name = "whole" /\ ~synced THEN {"whole", "torn"}
                    ELSE {name}
    /\ onDisk' = {path'}
    /\ UNCHANGED <<policy, file, contentVars>>

=============================================================================
