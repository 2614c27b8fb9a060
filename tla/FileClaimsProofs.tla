-------------------------- MODULE FileClaimsProofs --------------------------
(***************************************************************************)
(* Two databases never work on one file, for any number of registrations,  *)
(* paths, files and changes made by others.                                *)
(***************************************************************************)
EXTENDS FileClaims, TLAPS

USE DEF files, claim

-----------------------------------------------------------------------------
(* The inductive invariant. *)

\* What a registration has at each step.
Stepped ==
    \A r \in Registrations :
        /\ step[r] = "closed" => swaps[r] = 0
        /\ step[r] # "closed" => handle[r] \in Files
        /\ Live(r) => path[r] \in Paths
        /\ swaps[r] <= moves

\* claim_file: a living claim is in the list, and shares neither its path nor
\* its file with another one.
Exclusive ==
    /\ \A r \in Registrations : Live(r) => r \in claims
    /\ \A r, s \in Registrations : r # s /\ Live(r) /\ Live(s) =>
          path[r] # path[s] /\ handle[r] # handle[s]

\* While nothing was changed, the path leads to the claimed file; after one
\* change, a database on another file cannot be verified.
Traced ==
    \A r \in Registrations :
        /\ step[r] = "canonicalize" /\ swaps[r] = 0 => link[where[r]] = handle[r]
        /\ step[r] = "open" /\ swaps[r] = 0 => link[path[r]] = handle[r]
        /\ step[r] = "verify" /\ swaps[r] <= 1 /\ file[r] # handle[r] =>
              swaps[r] = 1 /\ link[path[r]] # handle[r]
        /\ step[r] = "installed" /\ swaps[r] <= 1 => file[r] = handle[r]

Inv == TypeOK /\ Stepped /\ Exclusive /\ Traced

LEMMA InitInv == Init => Inv
BY MovesAreCounted DEF Init, Inv, TypeOK, Stepped, Exclusive, Traced, Live, Steps

-----------------------------------------------------------------------------
(* Others. *)

\* Each change is counted for every registration that is being opened.
LEMMA NoticedSwaps ==
    ASSUME Inv, Noticed, moves < MaxMoves, moves' = moves + 1
    PROVE  /\ moves' \in 0..MaxMoves
           /\ swaps' \in [Registrations -> 0..MaxMoves]
           /\ \A r \in Registrations :
                 /\ swaps[r] \in Nat /\ swaps'[r] <= moves'
                 /\ swaps'[r] = IF Opening(r) THEN swaps[r] + 1 ELSE swaps[r]
<1>1. moves \in 0..MaxMoves /\ moves' \in 0..MaxMoves
  BY MovesAreCounted DEF Inv, TypeOK
<1>2. \A r \in Registrations : swaps[r] \in 0..moves
  BY <1>1, MovesAreCounted DEF Inv, TypeOK, Stepped
<1>3. \A r \in Registrations :
         swaps'[r] = IF Opening(r) THEN swaps[r] + 1 ELSE swaps[r]
  BY DEF Noticed
<1>4. \A r \in Registrations : swaps'[r] \in 0..moves'
  BY <1>1, <1>2, <1>3
<1>5. swaps' \in [Registrations -> 0..MaxMoves]
  BY <1>1, <1>4, MovesAreCounted DEF Noticed
<1> QED
  BY <1>1, <1>2, <1>3, <1>4, <1>5

\* A change by others costs a verification, or is counted twice.
LEMMA OthersInv ==
    ASSUME Inv,
           \/ \E p \in Paths, f \in Files \cup {None} : Relink(p, f)
           \/ \E r \in Registrations, p \in Paths : Redirect(r, p)
    PROVE  Inv'
<1>1. /\ UNCHANGED <<lock, claims, step, claim, file>>
      /\ link' \in [Paths -> Files \cup {None}]
      /\ where' \in [Registrations -> Paths]
      /\ Noticed /\ moves < MaxMoves /\ moves' = moves + 1
  BY DEF Relink, Redirect, Inv, TypeOK
<1>2. /\ moves' \in 0..MaxMoves
      /\ swaps' \in [Registrations -> 0..MaxMoves]
      /\ \A r \in Registrations :
            /\ swaps[r] \in Nat /\ swaps'[r] <= moves'
            /\ swaps'[r] = IF Opening(r) THEN swaps[r] + 1 ELSE swaps[r]
  BY <1>1, NoticedSwaps
<1>3. TypeOK'
  BY <1>1, <1>2 DEF Inv, TypeOK
<1>4. Stepped' /\ Exclusive'
  BY <1>1, <1>2 DEF Inv, Stepped, Exclusive, Live, Opening
<1>5. Traced'
  <2> SUFFICES ASSUME NEW r \in Registrations
               PROVE  /\ step[r] = "canonicalize" => swaps'[r] # 0
                      /\ step[r] = "open" => swaps'[r] # 0
                      /\ step[r] = "verify" /\ swaps'[r] <= 1 => file[r] = handle[r]
                      /\ step[r] = "installed" /\ swaps'[r] <= 1 => file[r] = handle[r]
    BY <1>1 DEF Traced
  <2>1. swaps[r] \in Nat /\ swaps'[r] = IF Opening(r) THEN swaps[r] + 1 ELSE swaps[r]
    BY <1>2
  <2> QED
    BY <2>1 DEF Opening, Inv, Traced
<1> QED
  BY <1>3, <1>4, <1>5 DEF Inv

-----------------------------------------------------------------------------
(* claim_file and open_resources. *)

\* A file that is created is nobody's claimed file, and appears only where there
\* was none.
LEMMA CreatedElsewhere ==
    ASSUME Inv, NEW p \in Paths, NEW f \in Unused, link[p] = None,
           link' = [link EXCEPT ![p] = f], UNCHANGED <<where, path, swaps>>,
           NEW r \in Registrations, step[r] # "closed", handle'[r] = handle[r]
    PROVE  /\ link[where[r]] = handle[r] => link'[where[r]] = handle[r]
           /\ Live(r) => /\ link[path[r]] = handle[r] => link'[path[r]] = handle[r]
                         /\ link[path[r]] # handle[r] => link'[path[r]] # handle[r]
<1>1. handle[r] \in Files /\ handle[r] # None /\ f # handle[r] /\ where[r] \in Paths
  BY NoneIsNothing DEF Inv, TypeOK, Stepped, Unused
<1>2. Live(r) => path[r] \in Paths
  BY DEF Inv, Stepped
<1> QED
  BY <1>1, <1>2 DEF Inv, TypeOK

LEMMA ClaimOpenInv ==
    ASSUME Inv, NEW r \in Registrations, NEW allowCreate \in BOOLEAN,
           ClaimOpen(r, allowCreate)
    PROVE  Inv'
<1>1. /\ UNCHANGED <<where, moves, path, file, swaps>>
      /\ step[r] = "closed" /\ step' = [step EXCEPT ![r] = "canonicalize"]
      /\ lock' = r /\ claims' = {s \in claims : Live(s)}
  BY DEF ClaimOpen, Go
<1>2. PICK f \in Files : /\ handle' = [handle EXCEPT ![r] = f]
                         /\ link'[where[r]] = f
                         /\ \/ UNCHANGED link
                            \/ /\ link[where[r]] = None /\ f \in Unused
                               /\ link' = [link EXCEPT ![where[r]] = f]
  <2>1. where[r] \in Paths
    BY DEF Inv, TypeOK
  <2>2. CASE link[where[r]] # None /\ handle' = [handle EXCEPT ![r] = link[where[r]]]
             /\ UNCHANGED link
    BY <2>1, <2>2 DEF Inv, TypeOK
  <2>3. CASE /\ link[where[r]] = None
             /\ \E f \in Unused : /\ link' = [link EXCEPT ![where[r]] = f]
                                  /\ handle' = [handle EXCEPT ![r] = f]
    BY <2>1, <2>3 DEF Inv, TypeOK, Unused
  <2> QED
    BY <2>2, <2>3 DEF ClaimOpen
<1>3. TypeOK'
  BY <1>1, <1>2 DEF Inv, TypeOK, Steps
<1>4. Stepped' /\ Exclusive'
  BY <1>1, <1>2 DEF Inv, TypeOK, Stepped, Exclusive, Live
<1>5. Traced'
  <2>1. ASSUME NEW s \in Registrations, s # r, step[s] # "closed"
        PROVE  /\ link[where[s]] = handle[s] => link'[where[s]] = handle[s]
               /\ Live(s) => /\ link[path[s]] = handle[s] => link'[path[s]] = handle[s]
                             /\ link[path[s]] # handle[s] => link'[path[s]] # handle[s]
    <3>1. handle'[s] = handle[s] /\ where[r] \in Paths
      BY <1>2, <2>1 DEF Inv, TypeOK
    <3> QED
      BY <1>1, <1>2, <2>1, <3>1, CreatedElsewhere
  <2>2. handle'[r] = link'[where'[r]]
    BY <1>1, <1>2 DEF Inv, TypeOK
  <2> QED
    BY <1>1, <1>2, <2>1, <2>2 DEF Inv, TypeOK, Traced, Live
<1> QED
  BY <1>3, <1>4, <1>5 DEF Inv

\* The list holds every living claim, so a path or file that is found in none of
\* them is nobody's.
LEMMA ClaimGrantedInv == ASSUME Inv, NEW r \in Registrations, ClaimGranted(r) PROVE Inv'
<1>1. /\ UNCHANGED <<files, handle, file, swaps>>
      /\ step[r] = "canonicalize" /\ step' = [step EXCEPT ![r] = "open"]
      /\ path' = [path EXCEPT ![r] = where[r]]
      /\ claims' = claims \cup {r} /\ lock' = None
  BY DEF ClaimGranted, Go
<1>2. \A s \in Registrations : s # r /\ Live(s) =>
         path[s] # where[r] /\ handle[s] # handle[r]
  BY DEF ClaimGranted, Owned, Owns, Inv, Exclusive
<1>3. TypeOK'
  BY <1>1 DEF Inv, TypeOK, Steps
<1>4. Stepped'
  BY <1>1 DEF Inv, TypeOK, Stepped, Live
<1>5. Exclusive'
  BY <1>1, <1>2 DEF Inv, TypeOK, Exclusive, Live
<1>6. Traced'
  BY <1>1 DEF Inv, TypeOK, Traced
<1> QED
  BY <1>3, <1>4, <1>5, <1>6 DEF Inv

\* A registration that has nothing left disturbs no other one.
LEMMA ForgetInv ==
    ASSUME Inv, NEW r \in Registrations, ClaimRefused(r) \/ DropClaim(r)
    PROVE  Inv'
<1>1. /\ UNCHANGED <<files, claims>>
      /\ lock' \in {lock, None}
      /\ handle' = [handle EXCEPT ![r] = None]
      /\ path' = [path EXCEPT ![r] = None]
      /\ file' = [file EXCEPT ![r] = None]
      /\ swaps' = [swaps EXCEPT ![r] = 0]
      /\ step' = [step EXCEPT ![r] = "closed"]
  BY DEF ClaimRefused, DropClaim, Forget, Go
<1>2. TypeOK'
  BY <1>1, MovesAreCounted DEF Inv, TypeOK, Steps
<1>3. Stepped'
  BY <1>1 DEF Inv, TypeOK, Stepped, Live
<1>4. Exclusive' /\ Traced'
  BY <1>1 DEF Inv, TypeOK, Exclusive, Traced, Live
<1> QED
  BY <1>2, <1>3, <1>4 DEF Inv

\* The database is opened through the path; before any change that is the
\* claimed file, afterwards whatever is or appears there.
LEMMA OpenDatabaseInv == ASSUME Inv, NEW r \in Registrations, OpenDatabase(r) PROVE Inv'
<1>1. /\ UNCHANGED <<where, moves, lock, claims, claim, swaps>>
      /\ step[r] = "open" /\ step' = [step EXCEPT ![r] = "verify"]
      /\ path[r] \in Paths /\ handle[r] \in Files /\ handle[r] # None
  BY NoneIsNothing DEF OpenDatabase, Go, Inv, Stepped, Live
<1>2. PICK f \in Files : /\ file' = [file EXCEPT ![r] = f]
                         /\ link'[path[r]] = f
                         /\ \/ link[path[r]] = f /\ UNCHANGED link
                            \/ /\ link[path[r]] = None /\ f \in Unused
                               /\ link' = [link EXCEPT ![path[r]] = f]
  <2>1. CASE link[path[r]] # None /\ file' = [file EXCEPT ![r] = link[path[r]]]
             /\ UNCHANGED link
    BY <1>1, <2>1 DEF Inv, TypeOK
  <2>2. CASE /\ link[path[r]] = None
             /\ \E f \in Unused : /\ link' = [link EXCEPT ![path[r]] = f]
                                  /\ file' = [file EXCEPT ![r] = f]
    BY <1>1, <2>2 DEF Inv, TypeOK, Unused
  <2> QED
    BY <2>1, <2>2 DEF OpenDatabase
<1>3. TypeOK'
  BY <1>1, <1>2 DEF Inv, TypeOK, Steps
<1>4. Stepped' /\ Exclusive'
  BY <1>1, <1>2 DEF Inv, TypeOK, Stepped, Exclusive, Live
<1>5. Traced'
  <2>1. ASSUME NEW s \in Registrations, s # r, step[s] # "closed"
        PROVE  /\ link[where[s]] = handle[s] => link'[where[s]] = handle[s]
               /\ Live(s) => /\ link[path[s]] = handle[s] => link'[path[s]] = handle[s]
                             /\ link[path[s]] # handle[s] => link'[path[s]] # handle[s]
    BY <1>1, <1>2, <2>1, CreatedElsewhere
  <2>2. swaps[r] = 0 => file'[r] = handle[r]
    BY <1>1, <1>2 DEF Inv, TypeOK, Traced
  <2>3. file'[r] = link'[path[r]] /\ swaps[r] \in Nat
    BY <1>1, <1>2 DEF Inv, TypeOK
  <2> QED
    BY <1>1, <1>2, <2>1, <2>2, <2>3 DEF Inv, TypeOK, Traced, Live
<1> QED
  BY <1>3, <1>4, <1>5 DEF Inv

\* A verified database after at most one change is on the claimed file.
LEMMA InstallInv == ASSUME Inv, NEW r \in Registrations, Install(r) PROVE Inv'
<1>1. /\ UNCHANGED <<files, lock, claims, claim, file, swaps>>
      /\ step[r] = "verify" /\ step' = [step EXCEPT ![r] = "installed"]
      /\ link[path[r]] = handle[r]
  BY DEF Install, Verified, Go
<1> QED
  BY <1>1 DEF Inv, TypeOK, Stepped, Exclusive, Traced, Live, Steps

\* The database is dropped before the claim.
LEMMA DropInv ==
    ASSUME Inv, NEW r \in Registrations, OpenFails(r) \/ DropDatabase(r)
    PROVE  Inv'
<1>1. /\ UNCHANGED <<files, lock, claims, claim, swaps>>
      /\ step[r] \in {"open", "verify", "installed"}
      /\ step' = [step EXCEPT ![r] = "release"]
      /\ file' = [file EXCEPT ![r] = None]
  BY DEF OpenFails, DropDatabase, Go
<1> QED
  BY <1>1 DEF Inv, TypeOK, Stepped, Exclusive, Traced, Live, Steps

-----------------------------------------------------------------------------

\* The invariant holds in every reachable state.
THEOREM Invariance == Spec => []Inv
<1>1. Inv /\ [Next]_vars => Inv'
  <2>1. Inv /\ UNCHANGED vars => Inv'
    BY DEF vars, Inv, TypeOK, Stepped, Exclusive, Traced, Live
  <2> QED
    BY <2>1, OthersInv, ClaimOpenInv, ClaimGrantedInv, ForgetInv, OpenDatabaseInv,
       InstallInv, DropInv DEF Next
<1> QED
  BY <1>1, InitInv, PTL DEF Spec

\* Two databases in use never work on one file, unless a path was swapped and
\* swapped back while one of them was opened.
THEOREM OneOwner == Spec => []OneOwnerPerFile
<1>1. Inv => OneOwnerPerFile
  BY DEF Inv, Exclusive, Traced, Live, OneOwnerPerFile
<1> QED
  BY <1>1, Invariance, PTL

\* Whatever others do to the files, the claims of claim_file that are alive never
\* share a path or a file.
THEOREM ClaimsExclude == Spec => []Exclusive
<1>1. Inv => Exclusive
  BY DEF Inv
<1> QED
  BY <1>1, Invariance, PTL
=============================================================================
