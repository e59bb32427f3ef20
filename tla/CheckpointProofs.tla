-------------------------- MODULE CheckpointProofs --------------------------
(* Proofs about Checkpoint for every set of components, builds and damage. *)
EXTENDS Checkpoint, TLAPS

(* A file whose parts are those of components, each with an age.           *)
Sound(f) ==
  /\ f.guest \in Nat
  /\ Saved(f) \subseteq Component
  /\ f.parts \in [Saved(f) -> Nat]
  /\ f.damage \subseteq Damages

Restored == phase \in {"built", "running", "saving"}

(* What is restored stays as far from its snapshot as the guest, but for a *)
(* component that has raised.  The last conjuncts are the table's purpose: *)
(* while anything is pending the guest has not moved, so a claim finds it  *)
(* where the snapshot left it.                                             *)
WholeInv ==
  /\ Sound(file) /\ Sound(source)
  /\ guest \in Nat /\ host \in [Component -> Nat]
  /\ deferrable \subseteq Late /\ pending \subseteq deferrable
  /\ live \subseteq Component /\ registered \subseteq Component
  /\ phase \in {"loading", "restoring"} => live = Supplied /\ pending \cap live = {}
  /\ phase = "loading" => pending = {}
  /\ phase = "restoring" =>
       /\ guest = source.guest
       /\ todo \subseteq Saved(source)
       /\ Saved(source) \subseteq Supplied \cup deferrable
       /\ \A n \in Saved(source) \ todo :
            n \in pending \/ (n \in live /\ host[n] = source.parts[n])
  /\ Restored =>
       \A n \in Saved(source) :
         n \in pending \/ Damaged(n) \/
           (n \in live /\ host[n] - source.parts[n] = guest - source.guest)
  /\ Restored => pending \subseteq Saved(source)
  /\ phase = "restoring" => pending \subseteq Saved(source)
  /\ Restored /\ pending # {} => phase = "built"
  /\ phase = "built" => guest = source.guest

LEMMA WholeInit == Init => WholeInv
PROOF
<1> SUFFICES ASSUME Init PROVE WholeInv
  OBVIOUS
<1>1. Sound(NoFile)
  BY DEF Sound, NoFile, Snap, NoParts, Saved, Fresh
<1>2. Sound(Torn)
  BY DEF Sound, Torn, Snap, NoParts, Saved, Fresh
<1>3. Sound(file)
  <2>1. Sound(Snap("legacy", NoManifest, 1, NoParts, {}))
    BY DEF Sound, Snap, NoParts, Saved, Fresh
  <2>2. ASSUME NEW m, NEW P \in SUBSET Component, NEW D \in SUBSET Damages
        PROVE  Sound(Snap("good", m, 1, [n \in P |-> 1], {d \in D : d[1] \in P}))
    BY DEF Sound, Snap, Saved
  <2> QED
    BY <1>1, <1>2, <2>1, <2>2 DEF Init, Found
<1> QED
  BY <1>1, <1>3 DEF Init, WholeInv, Restored, NoFile, Snap, Fresh

LEMMA WholeNext == WholeInv /\ [Next]_vars => WholeInv'
PROOF
<1> SUFFICES ASSUME WholeInv, [Next]_vars PROVE WholeInv'
  OBVIOUS
<1> USE DEF Restored
<1>0. \A n : UNCHANGED source => (Damaged(n)' <=> Damaged(n))
  BY DEF Damaged
<1>1. ASSUME NEW m \in Manifests, NEW D \in SUBSET Late, Start(m, D)
      PROVE  WholeInv'
  <2>1. /\ phase' = "loading" /\ pending' = {} /\ deferrable' = D
        /\ live' = Supplied /\ registered' = Supplied
        /\ guest' \in Nat /\ host' \in [Component -> Nat]
        /\ UNCHANGED <<file, source>>
    BY <1>1 DEF Start, Fresh
  <2>2. Supplied \subseteq Component
    BY DEF Supplied, Component
  <2> QED
    BY <2>1, <2>2 DEF WholeInv, Sound, Saved
<1>2. ASSUME InstallGuest
      PROVE  WholeInv'
  <2>1. Sound(source') /\ source' = file /\ Saved(file) \subseteq Supplied \cup deferrable
    BY <1>2 DEF InstallGuest, WholeInv, Acceptable
  <2>2. /\ phase = "loading" /\ phase' = "restoring" /\ guest' = file.guest
        /\ todo' = Saved(file)
        /\ UNCHANGED <<file, deferrable, pending, live, registered, host>>
    BY <1>2 DEF InstallGuest
  <2>3. pending = {} /\ live = Supplied /\ deferrable \subseteq Late
        /\ live \subseteq Component /\ registered \subseteq Component
        /\ host \in [Component -> Nat] /\ Sound(file)
    BY <2>2 DEF WholeInv
  <2>4. guest' \in Nat /\ Sound(file')
    BY <2>2, <2>3 DEF Sound, Saved
  <2>5. Saved(source') = Saved(file)
    BY <2>1
  <2> QED
    BY <2>1, <2>2, <2>3, <2>4, <2>5 DEF WholeInv
<1>3. ASSUME NEW n \in Component, RestorePart(n)
      PROVE  WholeInv'
  <2>1. phase = "restoring" /\ n \in todo /\ n \in Saved(source)
        /\ n \in Supplied \cup deferrable /\ source.parts[n] \in Nat
        /\ UNCHANGED <<file, phase, manifest, deferrable, live, registered,
                       guest, source>>
        /\ todo' = todo \ {n}
    BY <1>3 DEF RestorePart, InTurn, WholeInv, Sound
  <2>2. CASE n \in deferrable /\ pending' = pending \cup {n} /\ UNCHANGED host
    BY <2>1, <2>2, ComponentsAssumption DEF WholeInv, Sound, Saved
  <2>3. CASE n \notin deferrable /\ UNCHANGED pending
             /\ host' = [host EXCEPT ![n] = source.parts[n]]
    BY <2>1, <2>3 DEF WholeInv, Sound, Saved, Supplied
  <2> QED
    BY <1>3, <2>2, <2>3 DEF RestorePart
<1>4. ASSUME Built
      PROVE  WholeInv'
  <2>1. \A k \in Saved(source) : source.parts[k] \in Nat
    BY DEF WholeInv, Sound
  <2> QED
    BY <1>0, <1>4, <2>1 DEF Built, WholeInv, Sound, Saved, session, ages
<1>5. ASSUME NEW n \in Component, Create(n)
      PROVE  WholeInv'
  BY <1>0, <1>5 DEF Create, WholeInv, Sound, Saved, Fresh
<1>6. ASSUME NEW n \in Component, Claim(n)
      PROVE  WholeInv'
  <2>1. CASE n \in pending
    BY <1>0, <1>6, <2>1 DEF Claim, WholeInv, Sound, Saved
  <2>2. CASE n \notin pending
    <3>1. pending' = pending /\ host' = host
      BY <1>6, <2>2 DEF Claim, WholeInv
    <3> QED
      BY <1>0, <1>6, <3>1 DEF Claim, WholeInv, Sound, Saved
  <2> QED
    BY <2>1, <2>2
<1>7. ASSUME NEW n \in Component, ClaimFails(n)
      PROVE  WholeInv'
  <2>1. /\ n \in pending /\ Damaged(n) /\ pending' = pending \ {n}
        /\ UNCHANGED <<file, phase, deferrable, todo, live, registered, guest, host, source>>
    BY <1>7 DEF ClaimFails, ages
  <2>2. phase \in {"built", "running"}
    BY <1>7 DEF ClaimFails
  <2> QED
    BY <1>0, <2>1, <2>2 DEF WholeInv, Sound, Saved
<1>8. ASSUME NEW n \in Component, Register(n)
      PROVE  WholeInv'
  BY <1>0, <1>8 DEF Register, WholeInv, Sound, Saved, ages
<1>9. ASSUME Run
      PROVE  WholeInv'
  <2>1. /\ phase \in {"built", "running"} /\ pending = {}
        /\ phase' = "running" /\ guest' = guest + 1
        /\ UNCHANGED <<file, manifest, deferrable, pending, todo, live,
                       registered, source>>
        /\ host' = [n \in Component |-> IF n \in live THEN host[n] + 1 ELSE host[n]]
    BY <1>9 DEF Run, session
  <2>2. host' \in [Component -> Nat] /\ guest' \in Nat
    BY <2>1 DEF WholeInv
  <2>3. ASSUME NEW n \in Saved(source), ~Damaged(n)
        PROVE  n \in live /\ host'[n] - source.parts[n] = guest' - source.guest
    <3>1. n \in Component /\ source.parts[n] \in Nat /\ source.guest \in Nat
          /\ host[n] \in Nat /\ guest \in Nat
      BY DEF WholeInv, Sound
    <3>2. n \in live /\ host[n] - source.parts[n] = guest - source.guest
      BY <2>1, <2>3 DEF WholeInv
    <3> QED
      BY <2>1, <3>1, <3>2
  <2> QED
    BY <1>0, <2>1, <2>2, <2>3 DEF WholeInv, Sound, Saved
<1>10. ASSUME OpenFile
       PROVE  WholeInv'
  <2>1. Sound(Torn)
    BY DEF Sound, Torn, Snap, NoParts, Saved, Fresh
  <2> QED
    BY <1>0, <1>10, <2>1 DEF OpenFile, WholeInv, Sound, Saved, session, ages
<1>11. ASSUME Dump \/ DumpLegacy
       PROVE  WholeInv'
  <2>1. ASSUME NEW P \in SUBSET Component, NEW k, NEW m
        PROVE  Sound(Snap(k, m, guest, [n \in P |-> host[n]], {}))
    BY DEF Sound, Snap, Saved, WholeInv
  <2>2. CASE Dump
    <3>1. registered \cup (Late \cap live) \in SUBSET Component
      BY DEF WholeInv
    <3>2. Sound(file')
      BY <2>1, <2>2, <3>1 DEF Dump
    <3> QED
      BY <1>0, <2>2, <3>2 DEF Dump, WholeInv, Sound, Saved, session, ages
  <2>3. CASE DumpLegacy
    <3>1. Sound(file')
      BY <2>3 DEF DumpLegacy, NoParts, Sound, Snap, Saved, WholeInv
    <3> QED
      BY <1>0, <2>3, <3>1 DEF DumpLegacy, WholeInv, Sound, Saved, session, ages
  <2> QED
    BY <1>11, <2>2, <2>3
<1>12. ASSUME \/ Refuse \/ Stop \/ UNCHANGED vars
              \/ \E n \in Component : RejectPart(n)
       PROVE  WholeInv'
  BY <1>0, <1>12 DEF Refuse, Stop, RejectPart, WholeInv, Sound, Saved, session,
               ages, vars
<1> QED
  BY <1>1, <1>2, <1>3, <1>4, <1>5, <1>6, <1>7, <1>8, <1>9, <1>10, <1>11,
     <1>12 DEF Next

(* UndamagedWhole: what runs has aged, component by component, as the guest *)
(* has since its snapshot, for every set of components, builds, sessions   *)
(* and damage, except a component whose own claim raised.                  *)
THEOREM RestoredWhole == Spec => []UndamagedWhole
PROOF
<1>1. WholeInv => UndamagedWhole
  <2> SUFFICES ASSUME WholeInv, phase = "running", NEW n \in Saved(source), ~Damaged(n)
               PROVE  n \in live /\ host[n] - source.parts[n] = guest - source.guest
    BY DEF UndamagedWhole
  <2>1. pending = {}
    BY DEF WholeInv, Restored
  <2> QED
    BY <2>1 DEF WholeInv, Restored
<1> QED
  BY <1>1, WholeInit, WholeNext, PTL DEF Spec

-----------------------------------------------------------------------------
(* Until the guest is overwritten nothing has aged, and what overwrites it *)
(* is the file, without damage in a built-in component.                    *)
AtomInv ==
  /\ file.damage \subseteq Damages
  /\ phase = "loading" => Untouched
  /\ phase = "failed" => Untouched \/ \E d \in file.damage : d[1] \in Custom
  /\ phase = "restoring" =>
       /\ source = file
       /\ todo \subseteq Supplied \cup deferrable
       /\ source.damage \subseteq Damages
       /\ \A d \in source.damage : d[1] \notin Builtin

(* ValidatedAtomically: whatever is wrong with a file, a restore that      *)
(* fails has changed nothing, unless a component that owns its schema      *)
(* (Esdhc, Ssi0Dma) is damaged.                                            *)
THEOREM RestoreFailsAtomically == Spec => []ValidatedAtomically
PROOF
<1> USE DEF Untouched
<1>1. Init => AtomInv
  <2> SUFFICES ASSUME Init PROVE file.damage \subseteq Damages
    BY DEF Init, AtomInv
  <2> QED
    BY DEF Init, Found, Snap, NoFile, Torn
<1>2. AtomInv /\ [Next]_vars => AtomInv'
  <2> SUFFICES ASSUME AtomInv, [Next]_vars PROVE AtomInv'
    OBVIOUS
  <2>1. ASSUME NEW m \in Manifests, NEW D \in SUBSET Late, Start(m, D)
        PROVE  AtomInv'
    BY <2>1 DEF Start, AtomInv
  <2>2. CASE Refuse
    BY <2>2 DEF Refuse, AtomInv, ages
  <2>3. CASE InstallGuest
    BY <2>3 DEF InstallGuest, Acceptable, AtomInv
  <2>4. ASSUME NEW n \in Component, RestorePart(n)
        PROVE  AtomInv'
    BY <2>4 DEF RestorePart, InTurn, AtomInv
  <2>5. ASSUME NEW n \in Component, RejectPart(n)
        PROVE  AtomInv'
    BY <2>5 DEF RejectPart, InTurn, Damaged, Supplied, AtomInv
  <2>6. ASSUME NEW n \in Component,
               Create(n) \/ Claim(n) \/ ClaimFails(n) \/ Register(n)
        PROVE  AtomInv'
    BY <2>6 DEF Create, Claim, ClaimFails, Register, AtomInv
  <2>7. CASE OpenFile \/ Dump \/ DumpLegacy
    BY <2>7 DEF OpenFile, Dump, DumpLegacy, Torn, Snap, AtomInv
  <2>8. CASE Built \/ Run \/ Stop
    BY <2>8 DEF Built, Run, Stop, AtomInv
  <2>9. CASE UNCHANGED vars
    BY <2>9 DEF vars, session, ages, AtomInv
  <2> QED
    BY <2>1, <2>2, <2>3, <2>4, <2>5, <2>6, <2>7, <2>8, <2>9 DEF Next
<1>3. AtomInv => ValidatedAtomically
  BY DEF AtomInv, ValidatedAtomically
<1> QED
  BY <1>1, <1>2, <1>3, PTL DEF Spec

-----------------------------------------------------------------------------
(* Once the machine has run nothing is pending, and every component there  *)
(* is is registered or late.                                               *)
TableInv ==
  /\ Sound(file) /\ Sound(source)
  /\ guest \in Nat /\ host \in [Component -> Nat]
  /\ phase = "restoring" => todo \subseteq Saved(source)
  /\ phase = "loading" => pending = {}
  /\ phase \in {"restoring", "built", "running", "saving"} => pending \subseteq Saved(source)
  /\ phase \in {"running", "saving"} => pending = {}
  /\ registered \subseteq live /\ live \subseteq Component
  /\ live \subseteq registered \cup Late

LEMMA TableInit == Init => TableInv
PROOF
<1> SUFFICES ASSUME Init PROVE TableInv
  OBVIOUS
<1>1. WholeInv
  BY WholeInit
<1> QED
  BY <1>1 DEF Init, WholeInv, TableInv

LEMMA TableNext == TableInv /\ [Next]_vars => TableInv'
PROOF
<1> SUFFICES ASSUME TableInv, [Next]_vars PROVE TableInv'
  OBVIOUS
<1>1. ASSUME NEW m \in Manifests, NEW D \in SUBSET Late, Start(m, D)
      PROVE  TableInv'
  <2>1. /\ phase' = "loading" /\ pending' = {}
        /\ live' = Supplied /\ registered' = Supplied
        /\ guest' \in Nat /\ host' \in [Component -> Nat]
        /\ UNCHANGED <<file, source>>
    BY <1>1 DEF Start, Fresh
  <2>2. Supplied \subseteq Component
    BY DEF Supplied, Component
  <2> QED
    BY <2>1, <2>2 DEF TableInv, Sound, Saved
<1>2. ASSUME InstallGuest
      PROVE  TableInv'
  <2>1. /\ phase = "loading" /\ phase' = "restoring" /\ source' = file
        /\ guest' = file.guest /\ todo' = Saved(file)
        /\ UNCHANGED <<file, pending, live, registered, host>>
    BY <1>2 DEF InstallGuest
  <2>2. Sound(file) /\ pending = {} /\ registered \subseteq live
        /\ live \subseteq Component /\ live \subseteq registered \cup Late
        /\ host \in [Component -> Nat]
    BY <2>1 DEF TableInv
  <2>3. Sound(file') /\ Sound(source') /\ guest' \in Nat /\ Saved(source') = Saved(file)
    BY <2>1, <2>2 DEF Sound, Saved
  <2> QED
    BY <2>1, <2>2, <2>3 DEF TableInv
<1>3. ASSUME NEW n \in Component, RestorePart(n)
      PROVE  TableInv'
  <2>1. phase = "restoring" /\ n \in todo /\ n \in Saved(source)
        /\ source.parts[n] \in Nat /\ todo' = todo \ {n}
        /\ UNCHANGED <<file, phase, live, registered, guest, source>>
    BY <1>3 DEF RestorePart, InTurn, TableInv, Sound
  <2>2. pending' \subseteq Saved(source) /\ host' \in [Component -> Nat]
    BY <1>3, <2>1 DEF RestorePart, TableInv
  <2> QED
    BY <2>1, <2>2 DEF TableInv, Sound, Saved
<1>4. ASSUME NEW n \in Component, Create(n)
      PROVE  TableInv'
  BY <1>4 DEF Create, TableInv, Sound, Saved, Fresh
<1>5. ASSUME NEW n \in Component, Claim(n)
      PROVE  TableInv'
  <2>1. /\ phase \in {"built", "running"} /\ n \in live
        /\ pending' = pending \ {n} /\ registered' = registered \cup {n}
        /\ UNCHANGED <<file, phase, todo, live, guest, source>>
    BY <1>5 DEF Claim
  <2>2. n \in pending => source.parts[n] \in Nat
    BY <2>1 DEF TableInv, Sound
  <2>3. host' \in [Component -> Nat]
    BY <1>5, <2>2 DEF Claim, TableInv
  <2> QED
    BY <2>1, <2>3 DEF TableInv, Sound, Saved
<1>6. ASSUME NEW n \in Component,
             ClaimFails(n) \/ Register(n) \/ RejectPart(n)
      PROVE  TableInv'
  BY <1>6 DEF ClaimFails, Register, RejectPart, TableInv, Sound, Saved,
              session, ages
<1>7. ASSUME Run
      PROVE  TableInv'
  <2>1. guest' \in Nat /\ host' \in [Component -> Nat]
    BY <1>7 DEF Run, TableInv
  <2> QED
    BY <1>7, <2>1 DEF Run, TableInv, Sound, Saved, session
<1>8. ASSUME OpenFile \/ Dump \/ DumpLegacy
      PROVE  TableInv'
  <2>1. ASSUME NEW P \in SUBSET Component, NEW k, NEW m
        PROVE  Sound(Snap(k, m, guest, [n \in P |-> host[n]], {}))
    BY DEF Sound, Snap, Saved, TableInv
  <2>2. registered \cup (Late \cap live) \in SUBSET Component
    BY DEF TableInv
  <2>3. CASE Dump
    BY <2>1, <2>2, <2>3 DEF Dump, TableInv, Saved, Sound, session, ages
  <2>4. CASE OpenFile \/ DumpLegacy
    <3>1. ASSUME OpenFile PROVE Sound(file')
      BY <3>1 DEF OpenFile, Torn, NoParts, Snap, Sound, Saved, Fresh
    <3>2. ASSUME DumpLegacy PROVE Sound(file')
      BY <3>2 DEF DumpLegacy, NoParts, Snap, Sound, Saved, TableInv
    <3>3. Sound(file')
      BY <2>4, <3>1, <3>2
    <3> QED
      BY <2>4, <3>3 DEF OpenFile, DumpLegacy, TableInv, Saved, Sound,
                        session, ages
  <2> QED
    BY <1>8, <2>3, <2>4
<1>9. ASSUME Refuse \/ Built \/ Stop \/ UNCHANGED vars
      PROVE  TableInv'
  BY <1>9 DEF Refuse, Built, Stop, vars, TableInv, Sound, Saved, session, ages
<1> QED
  BY <1>1, <1>2, <1>3, <1>4, <1>5, <1>6, <1>7, <1>8, <1>9 DEF Next

(* NoRewind: whatever the callers claim, fail to claim or claim twice, no  *)
(* component is wound back once the machine has run.                       *)
THEOREM ClaimsNeverRewind == Spec => NoRewind
PROOF
<1>1. TableInv /\ [Next]_vars =>
        [phase = "running" /\ phase' = "running" =>
           guest' >= guest /\ \A n \in Component : host'[n] >= host[n]]_vars
  <2> SUFFICES ASSUME TableInv, Next, phase = "running", phase' = "running"
               PROVE  guest' >= guest /\ \A n \in Component : host'[n] >= host[n]
    BY DEF vars
  <2>1. guest \in Nat /\ pending = {} /\ \A n \in Component : host[n] \in Nat
    BY DEF TableInv
  <2>2. CASE Run
    BY <2>1, <2>2 DEF Run
  <2>3. ASSUME NEW n \in Component, Claim(n)
        PROVE  UNCHANGED ages
    BY <2>1, <2>3 DEF Claim, TableInv, ages
  <2>4. ASSUME NEW n \in Component, ClaimFails(n) \/ Register(n)
        PROVE  UNCHANGED ages
    BY <2>4 DEF ClaimFails, Register, ages
  <2>5. ASSUME UNCHANGED ages
        PROVE  guest' >= guest /\ \A n \in Component : host'[n] >= host[n]
    BY <2>1, <2>5 DEF ages
  <2> QED
    BY <2>2, <2>3, <2>4, <2>5 DEF Next, Start, Refuse, InstallGuest,
       RestorePart, InTurn, RejectPart, Built, Create, OpenFile, Dump,
       DumpLegacy, Stop
<1> QED
  BY <1>1, TableInit, TableNext, PTL DEF Spec, NoRewind

(* SavesAll: a snapshot with components holds every component there is, at *)
(* the guest's own instant.                                                *)
THEOREM SnapshotsComplete == Spec => SavesAll
PROOF
<1>1. TableInv /\ [Next]_vars =>
        [phase = "saving" /\ phase' = "running" /\ file'.kind = "good" =>
           /\ Saved(file') = live
           /\ \A n \in live : guest - file'.guest = host[n] - file'.parts[n]]_vars
  <2> SUFFICES ASSUME TableInv, Next, phase = "saving", phase' = "running",
                      file'.kind = "good"
               PROVE  /\ Saved(file') = live
                      /\ \A n \in live :
                           guest - file'.guest = host[n] - file'.parts[n]
    BY DEF vars
  <2>1. ~DumpLegacy
    BY DEF DumpLegacy, Snap
  <2>2. Dump
    BY <2>1 DEF Next, Start, Refuse, InstallGuest, RestorePart, InTurn,
       RejectPart, Built, Create, Claim, ClaimFails, Register, Run, OpenFile,
       Stop
  <2>3. live = registered \cup (Late \cap live) /\ guest \in Nat
        /\ \A n \in live : host[n] \in Nat
    BY DEF TableInv
  <2> QED
    BY <2>2, <2>3 DEF Dump, Snap, Saved
<1> QED
  BY <1>1, TableInit, TableNext, PTL DEF Spec, SavesAll
=============================================================================
