----------------------------- MODULE FileClaims -----------------------------
(***************************************************************************)
(* The claims on data.db files that keep two registrations of one process  *)
(* from opening the same file, while others rename, link, replace and      *)
(* remove files and directories under them.  Translated from claim_file,   *)
(* open_resources and the drop of Resources in src/registry.rs.            *)
(*                                                                         *)
(* Every system call on the way is a step of its own.  A file is what      *)
(* same_file::Handle identifies; the open handle in a claim keeps its      *)
(* identity from being used again.                                         *)
(***************************************************************************)
EXTENDS Integers, FiniteSets

CONSTANTS
    Registrations,  \* databases, of one registry or of several in the process
    Paths,          \* canonical paths of data.db files
    Files,          \* identities of files
    MaxMoves,       \* bound: changes made to the file system by others
    None

ASSUME MovesAreCounted == MaxMoves \in Nat
ASSUME NoneIsNothing == None \notin Files \cup Paths

VARIABLES
    link,    \* the file behind each canonical path, if any
    where,   \* what the path of each registration is resolved to
    moves,   \* changes made by others
    lock,    \* who holds the mutex of FILE_CLAIMS
    claims,  \* FILE_CLAIMS: those whose weak reference it holds
    step,    \* of open_resources and of the drop of Resources
    handle,  \* the file a registration has claimed
    path,    \* the path it has claimed
    file,    \* the file its database works on
    swaps    \* history variable: changes made while a database was opened

files == <<link, where, moves>>
claim == <<handle, path>>
vars == <<files, lock, claims, step, claim, file, swaps>>

Steps == {"closed", "canonicalize", "open", "verify", "installed", "release"}
Opening(r) == step[r] \in {"canonicalize", "open", "verify"}

\* A claim lives from claim_file to the drop of Resources.
Live(r) == step[r] \in {"open", "verify", "installed", "release"}

Go(r, s) == step' = [step EXCEPT ![r] = s]
\* A file that does not exist yet.
Unused == {f \in Files : /\ \A p \in Paths : link[p] # f
                         /\ \A r \in Registrations : handle[r] # f /\ file[r] # f}

-----------------------------------------------------------------------------
(* Others. *)

Noticed == swaps' = [r \in Registrations |-> IF Opening(r) THEN swaps[r] + 1
                                                            ELSE swaps[r]]

\* A file is removed, replaced, or given another name.
Relink(p, f) ==
    /\ moves < MaxMoves
    /\ link[p] # f
    /\ link' = [link EXCEPT ![p] = f]
    /\ moves' = moves + 1
    /\ Noticed
    /\ UNCHANGED <<where, lock, claims, step, claim, file>>

\* A directory is moved: the path leads elsewhere.
Redirect(r, p) ==
    /\ moves < MaxMoves
    /\ where[r] # p
    /\ where' = [where EXCEPT ![r] = p]
    /\ moves' = moves + 1
    /\ Noticed
    /\ UNCHANGED <<link, lock, claims, step, claim, file>>

-----------------------------------------------------------------------------
(* claim_file, under the mutex of FILE_CLAIMS. *)

\* Dead claims are dropped from the list; the file is created, if that is
\* allowed and there is none, and opened.
ClaimOpen(r, allowCreate) ==
    /\ step[r] = "closed"
    /\ lock = None
    /\ lock' = r
    /\ claims' = {s \in claims : Live(s)}
    /\ \/ link[where[r]] # None /\ handle' = [handle EXCEPT ![r] = link[where[r]]]
                                /\ UNCHANGED link
       \/ /\ link[where[r]] = None
          /\ allowCreate
          /\ \E f \in Unused : /\ link' = [link EXCEPT ![where[r]] = f]
                               /\ handle' = [handle EXCEPT ![r] = f]
    /\ Go(r, "canonicalize")
    /\ UNCHANGED <<where, moves, path, file, swaps>>

\* Defect: only the paths are compared.
SamePath(s, p, f) == path[s] = p
\* An owned file is recognised by its path or by its identity.
Owns(s, p, f) == path[s] = p \/ handle[s] = f

Owned(p, f) == \E s \in claims : Live(s) /\ Owns(s, p, f)

ClaimGranted(r) ==
    /\ step[r] = "canonicalize"
    /\ ~Owned(where[r], handle[r])
    /\ path' = [path EXCEPT ![r] = where[r]]
    /\ claims' = claims \cup {r}
    /\ lock' = None
    /\ Go(r, "open")
    /\ UNCHANGED <<files, handle, file, swaps>>

\* The registration has nothing left.
Forget(r) ==
    /\ handle' = [handle EXCEPT ![r] = None]
    /\ path' = [path EXCEPT ![r] = None]
    /\ file' = [file EXCEPT ![r] = None]
    /\ swaps' = [swaps EXCEPT ![r] = 0]
    /\ Go(r, "closed")

\* The file is owned by another registration, or cannot be resolved.
ClaimRefused(r) ==
    /\ step[r] = "canonicalize"
    /\ lock' = None
    /\ Forget(r)
    /\ UNCHANGED <<files, claims>>

-----------------------------------------------------------------------------
(* open_resources, with the claim. *)

\* turso_driver::open opens the claimed path again, and creates a file that has
\* disappeared meanwhile.
OpenDatabase(r) ==
    /\ step[r] = "open"
    /\ \/ link[path[r]] # None /\ file' = [file EXCEPT ![r] = link[path[r]]]
                               /\ UNCHANGED link
       \/ /\ link[path[r]] = None
          /\ \E f \in Unused : /\ link' = [link EXCEPT ![path[r]] = f]
                               /\ file' = [file EXCEPT ![r] = f]
    /\ Go(r, "verify")
    /\ UNCHANGED <<where, moves, lock, claims, claim, swaps>>

\* The path still leads to the claimed file.
Verified(r) == link[path[r]] = handle[r]

Install(r) ==
    /\ step[r] = "verify"
    /\ Verified(r)
    /\ Go(r, "installed")
    /\ UNCHANGED <<files, lock, claims, claim, file, swaps>>

\* The database cannot be opened, or another file is there now: the database
\* is dropped, then the claim.
OpenFails(r) ==
    /\ step[r] \in {"open", "verify"}
    /\ file' = [file EXCEPT ![r] = None]
    /\ Go(r, "release")
    /\ UNCHANGED <<files, lock, claims, claim, swaps>>

\* The drop of Resources: first the executor with the database ...
DropDatabase(r) ==
    /\ step[r] = "installed"
    /\ file' = [file EXCEPT ![r] = None]
    /\ Go(r, "release")
    /\ UNCHANGED <<files, lock, claims, claim, swaps>>

\* ... then the claim. Its weak reference stays in the list.
DropClaim(r) ==
    /\ step[r] = "release"
    /\ Forget(r)
    /\ UNCHANGED <<files, lock, claims>>

-----------------------------------------------------------------------------

Init ==
    /\ link \in [Paths -> Files \cup {None}]
    /\ where \in [Registrations -> Paths]
    /\ moves = 0
    /\ lock = None
    /\ claims = {}
    /\ step = [r \in Registrations |-> "closed"]
    /\ handle = [r \in Registrations |-> None]
    /\ path = [r \in Registrations |-> None]
    /\ file = [r \in Registrations |-> None]
    /\ swaps = [r \in Registrations |-> 0]

Next ==
    \/ \E p \in Paths, f \in Files \cup {None} : Relink(p, f)
    \/ \E r \in Registrations, p \in Paths : Redirect(r, p)
    \/ \E r \in Registrations :
          \/ \E allowCreate \in BOOLEAN : ClaimOpen(r, allowCreate)
          \/ ClaimGranted(r) \/ ClaimRefused(r) \/ OpenDatabase(r) \/ Install(r)
          \/ OpenFails(r) \/ DropDatabase(r) \/ DropClaim(r)

Spec == Init /\ [][Next]_vars

-----------------------------------------------------------------------------

\* The type invariant.
TypeOK ==
    /\ link \in [Paths -> Files \cup {None}]
    /\ where \in [Registrations -> Paths]
    /\ moves \in 0..MaxMoves
    /\ lock \in Registrations \cup {None}
    /\ claims \subseteq Registrations
    /\ step \in [Registrations -> Steps]
    /\ handle \in [Registrations -> Files \cup {None}]
    /\ path \in [Registrations -> Paths \cup {None}]
    /\ file \in [Registrations -> Files \cup {None}]
    /\ swaps \in [Registrations -> 0..MaxMoves]

\* Two databases that are in use never work on the same file, nor on files of
\* the same path, whose journals would have the same name. Only a path that is
\* swapped and swapped back while it is opened escapes claim_file and the
\* second look of open_resources.
OneOwnerPerFile ==
    \A r, s \in Registrations :
        r # s /\ step[r] = "installed" /\ step[s] = "installed"
              /\ swaps[r] <= 1 /\ swaps[s] <= 1 =>
            file[r] # file[s] /\ path[r] # path[s]
=============================================================================
