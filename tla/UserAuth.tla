------------------------------ MODULE UserAuth ------------------------------
(***************************************************************************)
(* The authorization file of a user, ~/.Xauthority, as xdm/auth.c changes  *)
(* it for the sessions of that user: under XauLockAuth's lock a new file   *)
(* is written beside it, the old one is removed and the new one linked in  *)
(* its place.  Writers are the client of one session, which enters its     *)
(* authorization, that session's process, which removes it again, and the  *)
(* other sessions of the user, which do the same with theirs.  Any of them *)
(* may fail or die between any two steps.                                  *)
(*                                                                         *)
(* Module Session says when its two writers take these steps.  A writer    *)
(* that lives holds the lock for less than the 10 seconds after which      *)
(* others break it.                                                        *)
(***************************************************************************)
CONSTANTS
  Own,       \* the entry of the session
  Others,    \* those of other sessions of the user
  NoFile     \* stands for a file that is not there

ASSUME UserAuthAssumption ==
  Own \notin Others /\ NoFile \notin SUBSET (Others \cup {Own})

VARIABLES
  home,      \* the entries of ~/.Xauthority
  new,       \* those of ~/.Xauthority-n, which openFiles makes; none if it is not there
  lock,      \* who made the lock's files, "free" if there are none
  step,      \* what that writer has done, "out" if it is not, or no more, at work
  old,       \* the old file, while it has it open
  added,     \* the entry it puts in, when it is in SetUserAuthorization
  where,     \* where the client's XAUTHORITY leads, until it is told to end: "home",
             \* "backup", "new", "none"; "lost" instead of "home" once that file is torn
  others,    \* history: other sessions whose entries were entered, and not torn since
  tidied     \* history: RemoveUserAuthorization has put its file in place

authVars == <<home, new, lock, step, old, added, where, others, tidied>>

Files == {NoFile} \cup SUBSET (Others \cup {Own})
Entries(file) == IF file = NoFile THEN {} ELSE file

AuthTypes ==
  /\ home \in Files /\ new \in SUBSET (Others \cup {Own}) /\ old \in Files
  /\ lock \in {"free", "client", "session", "other"}
  /\ step \in {"out", "locked", "opened", "written", "removed", "linked"}
  /\ added \in SUBSET (Others \cup {Own})
  /\ where \in {"none", "home", "backup", "new", "lost"}
  /\ others \in SUBSET Others /\ tidied \in BOOLEAN

AuthInit ==
  /\ home = NoFile /\ new = {} /\ lock = "free" /\ step = "out" /\ old = NoFile /\ added = {}
  /\ where = "none" /\ others = {} /\ tidied = FALSE

\* When the file is torn the entries of the sessions that go on are lost with it: they
\* are promised no more.
Promised(torn) == IF torn THEN {} ELSE others
Led(torn) == IF torn /\ where = "home" THEN "lost" ELSE where

-----------------------------------------------------------------------------
(* One writer's steps.  The client only enters an entry, its session only  *)
(* removes one, "other" stands for the writers of all other sessions.      *)

\* mutant: a lock that is taken is no obstacle
Lock_any(w) ==
  /\ lock' = w /\ step' = "locked"
  /\ old' = NoFile /\ added' = {}
  /\ UNCHANGED <<home, new, where, others, tidied>>

\* XauLockAuth: the lock is free, or of a writer that has been gone for 10 seconds
Lock(w) ==
  /\ lock = "free" \/ step = "out"
  /\ lock' = w /\ step' = "locked"
  /\ UNCHANGED <<home, new, old, added, where, others, tidied>>

\* openFiles.  SetUserAuthorization wants the old file as well, the other function goes
\* on without one it cannot read, and so tears it.
OpenFiles(w) ==
  /\ step = "locked" /\ step' = "opened"
  /\ new' = {} /\ old' \in {home, NoFile} /\ (w = "client" => old' # NoFile)
  /\ others' = Promised(old' # home) /\ where' = Led(old' # home)
  /\ UNCHANGED <<home, lock, added, tidied>>

\* mutant: the way out forgets the lock
Unlocked_kept == UNCHANGED lock

\* XauUnlockAuth
Unlocked == lock' = "free"

\* the new file cannot be made, or SetUserAuthorization has no old one
OpenFails ==
  /\ step = "locked" /\ step' = "out"
  /\ new' \in {new, {}} /\ Unlocked
  /\ UNCHANGED <<home, old, added, others, tidied>>

\* mutant: the entries of the old file are not copied
Merged_alone(e, entries) == {e}

\* a session's own entries first, then those of the old file with other addresses
Merged(e, entries) == {e} \cup entries

\* mutant: with doWrite off the addresses are not noted either
Remaining_all(e, entries) == entries

Remaining(e, entries) == entries \ {e}

\* an entry of the sessions w writes for
EntryOf(w) == IF w = "other" THEN Others ELSE {Own}

\* The new file is written.  An entry that is about to be removed is missed by nobody.
WriteFile(w) ==
  /\ step = "opened" /\ step' = "written"
  /\ \E e \in EntryOf(w) :
       \/ /\ w # "session" /\ old # NoFile
          /\ new' = Merged(e, Entries(old)) /\ added' = {e} /\ UNCHANGED others
       \/ /\ w # "client"
          /\ new' = Remaining(e, Entries(old)) /\ others' = others \ {e} /\ UNCHANGED added
  /\ old' = NoFile
  /\ UNCHANGED <<home, lock, where, tidied>>

\* unlink(name), which may fail
Unlink ==
  /\ step = "written" /\ step' = "removed"
  /\ home' \in {NoFile, home}
  /\ UNCHANGED <<new, lock, old, added, where, others, tidied>>

\* link(new_name, name) and unlink(new_name).  If it fails SetUserAuthorization leads
\* its client to the new file.
Link(w) ==
  /\ step = "removed" /\ step' = "linked"
  /\ \/ /\ home = NoFile /\ home' = new /\ new' = {}
        /\ where' = IF w = "client" THEN "home" ELSE where
        /\ others' = others \cup (added \ {Own})
        /\ tidied' = (tidied \/ w = "session")
     \/ /\ others' = Promised(home = NoFile)
        /\ where' = IF w = "client" THEN "new" ELSE Led(home = NoFile)
        /\ UNCHANGED <<home, new, tidied>>
  /\ added' = {}
  /\ UNCHANGED <<lock, old>>

Unlock ==
  /\ step = "linked" /\ step' = "out" /\ Unlocked
  /\ UNCHANGED <<home, new, old, added, where, others, tidied>>

\* the steps of w between lock and unlock
Writes(w) == lock = w /\ (OpenFiles(w) \/ WriteFile(w) \/ Unlink \/ Link(w))

\* SetUserAuthorization in userAuthDir, on a file that is the session's alone
Backup == where' \in {"backup", "none"}

\* w dies, or jumps out of these steps; what it locked stays locked
Interrupted(w) ==
  LET torn == lock = w /\ step = "removed" /\ home = NoFile IN
  /\ others' = Promised(torn)
  /\ where' = IF w = "client" THEN "none" ELSE Led(torn)
  /\ IF lock = w THEN step' = "out" /\ old' = NoFile /\ added' = {}
     ELSE UNCHANGED <<step, old, added>>
  /\ UNCHANGED <<home, new, lock, tidied>>

\* another session in either of the two functions
OtherWriter ==
  \/ Lock("other")
  \/ Writes("other")
  \/ lock = "other" /\ OpenFails /\ UNCHANGED where
  \/ lock = "other" /\ Unlock
  \/ Interrupted("other")

\* a RemoveUserAuthorization of one that has entered nothing: the lock keeps all others
\* out of it, so it is one step, whether its link comes or not
RemovesNothing ==
  \/ UNCHANGED authVars
  \/ /\ step = "out" /\ Unlocked
     /\ \/ home' = Remaining(Own, Entries(home)) /\ new' = {} /\ UNCHANGED <<where, others>>
        \/ /\ home' = NoFile /\ new' = Remaining(Own, Entries(home))
           /\ others' = Promised(TRUE) /\ where' = Led(TRUE)
     /\ UNCHANGED <<step, old, added, tidied>>
=============================================================================
