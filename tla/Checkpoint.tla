----------------------------- MODULE Checkpoint -----------------------------
(* Saving and resuming a whole emulated machine: emu/snapshot.py (save,    *)
(* restore_into, DeferredComponentRestore), the restore seam of            *)
(* emu/longrun.py (build, the claims, the guard of spin and run_until) and *)
(* the callers in emu/checkpoint.py, tools/guirun.py and emu/gui.py.       *)
(*                                                                         *)
(* The state of the guest, and of each component the host keeps beside it  *)
(* (the UART queue, the eDMA channel, the card, the timers), is its age:   *)
(* Fresh when built, one more for every slice it runs.  A resumed machine  *)
(* is whole when all of it has aged alike since the snapshot.              *)
EXTENDS Integers, FiniteSets

CONSTANTS
  Builtin,    \* components restore_into validates before it changes anything
  Custom,     \* components that validate in their own restore (Esdhc, SSI0)
  Late,       \* components built against the restored guest (the timers)
  Damages,    \* <<component, damage>> pairs that a file found on disk can have
  Manifests,  \* build manifests
  MaxAge      \* bound: the age no run goes past

Fresh      == 0
NoManifest == "none"
Component  == Builtin \cup Custom \cup Late
Supplied   == Builtin \cup Custom      \* what build passes to restore_into

ASSUME ComponentsAssumption ==
  /\ Builtin \cap Custom = {} /\ Supplied \cap Late = {}
  /\ Damages \subseteq Component \X {"schema", "config"}
  /\ NoManifest \notin Manifests
  /\ MaxAge \in Nat

VARIABLES
  file,        \* the snapshot on disk
  phase,       \* off, loading, restoring, built, running, saving or failed
  manifest,    \* checkpoint_manifest: how this session was configured
  deferrable,  \* DeferredComponentRestore.names
  pending,     \* DeferredComponentRestore._pending: names still to claim
  todo,        \* saved components restore_into has not reached
  live,        \* components that exist in this session
  registered,  \* checkpoint_components: what the next save will hold
  guest,       \* age of the guest's registers and memory
  host,        \* age of each component
  source       \* history: the file this session was restored from

session == <<manifest, deferrable, pending, todo, live, registered>>
ages    == <<guest, host>>
vars    == <<file, phase, session, ages, source>>

Saved(f) == DOMAIN f.parts

NoParts == [n \in {} |-> Fresh]

(* A file: kind none, torn (the dump was cut short), legacy (a cold-boot   *)
(* rung, saved without components) or good; what is wrong with its parts.  *)
Snap(k, m, g, p, d) ==
  [kind |-> k, manifest |-> m, guest |-> g, parts |-> p, damage |-> d]

NoFile == Snap("none", NoManifest, Fresh, NoParts, {})
Torn   == Snap("torn", NoManifest, Fresh, NoParts, {})

-----------------------------------------------------------------------------
(* build, up to restore_into: the components it supplies are constructed.  *)
Start(m, D) ==
  /\ phase = "off"
  /\ phase' = "loading"
  /\ manifest' = m /\ deferrable' = D /\ pending' = {} /\ todo' = {}
  /\ live' = Supplied /\ registered' = Supplied
  /\ guest' = Fresh /\ host' = [n \in Component |-> Fresh]
  /\ UNCHANGED <<file, source>>

(* Validation is left to each component's restore.                         *)
AcceptableBug ==
  /\ file.kind \in {"legacy", "good"}
  /\ file.manifest \in {NoManifest, manifest}
  /\ Saved(file) \subseteq Supplied \cup deferrable

(* What restore_into checks before it changes the guest: the file loads,   *)
(* its manifest is this build's, every saved component is supplied or      *)
(* deferrable, every schema is good, and so is the configuration of those  *)
(* built-in components that exist already.                                 *)
Acceptable ==
  /\ file.kind \in {"legacy", "good"}
  /\ file.manifest \in {NoManifest, manifest}
  /\ Saved(file) \subseteq Supplied \cup deferrable
  /\ \A d \in file.damage :
       ~ \/ d[1] \in Builtin
         \/ d[1] \in Late /\ d[2] = "schema"

Refuse ==
  /\ phase = "loading"
  /\ ~Acceptable
  /\ phase' = "failed"
  /\ UNCHANGED <<file, session, ages, source>>

(* Memory, registers and the mmio dictionaries are overwritten.            *)
InstallGuest ==
  /\ phase = "loading"
  /\ Acceptable
  /\ guest' = file.guest
  /\ todo' = Saved(file)
  /\ source' = file
  /\ phase' = "restoring"
  /\ UNCHANGED <<file, manifest, deferrable, pending, live, registered, host>>

(* The saved dictionary is walked in the order it was saved: built-in, own *)
(* schema, late.                                                           *)
InTurn(n) ==
  /\ phase = "restoring"
  /\ n \in todo
  /\ n \in Custom => todo \cap Builtin = {}
  /\ n \in Late => todo \cap Supplied = {}

Damaged(n) == \E d \in source.damage : d[1] = n

(* One component takes its state back, or is put aside to be claimed.      *)
RestorePart(n) ==
  /\ InTurn(n)
  /\ n \in deferrable \/ ~Damaged(n)
  /\ todo' = todo \ {n}
  /\ \/ /\ n \in deferrable
        /\ pending' = pending \cup {n}
        /\ UNCHANGED host
     \/ /\ n \notin deferrable
        /\ host' = [host EXCEPT ![n] = source.parts[n]]
        /\ UNCHANGED pending
  /\ UNCHANGED <<file, phase, manifest, deferrable, live, registered, guest,
                 source>>

(* A component that owns its schema finds it bad only now.                 *)
RejectPart(n) ==
  /\ InTurn(n)
  /\ n \notin deferrable
  /\ Damaged(n)
  /\ phase' = "failed"
  /\ UNCHANGED <<file, session, ages, source>>

Built ==
  /\ phase = "restoring"
  /\ todo = {}
  /\ phase' = "built"
  /\ UNCHANGED <<file, session, ages, source>>

-----------------------------------------------------------------------------
(* A caller builds a late component against the restored guest.            *)
Create(n) ==
  /\ phase = "built"
  /\ n \in Late /\ n \notin live
  /\ live' = live \cup {n}
  /\ host' = [host EXCEPT ![n] = Fresh]
  /\ UNCHANGED <<file, phase, manifest, deferrable, pending, todo, registered,
                 guest, source>>

(* A claim restores what the snapshot held, claimed before or not.         *)
ClaimBug(n) ==
  /\ phase \in {"built", "running"}
  /\ n \in live \cap deferrable
  /\ pending' = pending \ {n}
  /\ registered' = registered \cup {n}
  /\ host' = [host EXCEPT ![n] = IF n \in Saved(source) THEN source.parts[n] ELSE @]
  /\ UNCHANGED <<file, phase, manifest, deferrable, todo, live, guest, source>>

(* ev['claim_checkpoint_component'](n, component): saved state leaves the  *)
(* table and is restored; without any (an old snapshot, or a second claim) *)
(* the component is left as it is.  Either way it is registered.           *)
Claim(n) ==
  /\ phase \in {"built", "running"}
  /\ n \in live \cap deferrable
  /\ n \in pending => ~Damaged(n)
  /\ pending' = pending \ {n}
  /\ registered' = registered \cup {n}
  /\ host' = [host EXCEPT ![n] = IF n \in pending THEN source.parts[n] ELSE @]
  /\ UNCHANGED <<file, phase, manifest, deferrable, todo, live, guest, source>>

(* The component raises (its rate or its channels differ from the saved    *)
(* ones): the state has left the table all the same, and nothing registers *)
(* the component.                                                          *)
ClaimFails(n) ==
  /\ phase \in {"built", "running"}
  /\ n \in live \cap pending
  /\ Damaged(n)
  /\ pending' = pending \ {n}
  /\ UNCHANGED <<file, phase, manifest, deferrable, todo, live, registered,
                 ages, source>>

(* guirun.restore_or_construct_timers without saved state: the component   *)
(* it built is registered by hand.                                         *)
Register(n) ==
  /\ phase = "built"
  /\ n \in live \ pending
  /\ n \in Late \ registered
  /\ registered' = registered \cup {n}
  /\ UNCHANGED <<file, phase, manifest, deferrable, pending, todo, live, ages,
                 source>>

(* Nothing looks at the pending table.                                     *)
RunBug ==
  /\ phase \in {"built", "running"}
  /\ guest < MaxAge
  /\ phase' = "running"
  /\ guest' = guest + 1
  /\ host' = [n \in Component |-> IF n \in live THEN host[n] + 1 ELSE host[n]]
  /\ UNCHANGED <<file, session, source>>

(* spin or run_until: refused while saved state is unclaimed, else a slice *)
(* of the run ages everything there is.                                    *)
Run ==
  /\ phase \in {"built", "running"}
  /\ pending = {}
  /\ guest < MaxAge
  /\ phase' = "running"
  /\ guest' = guest + 1
  /\ host' = [n \in Component |-> IF n \in live THEN host[n] + 1 ELSE host[n]]
  /\ UNCHANGED <<file, session, source>>

-----------------------------------------------------------------------------
(* save opens the file for writing, which empties it ...                   *)
OpenFile ==
  /\ phase = "running"
  /\ phase' = "saving"
  /\ file' = Torn
  /\ UNCHANGED <<session, ages, source>>

(* ... and then dumps guest and components in one go: save_longrun adds    *)
(* the timers it is given to what is registered.                           *)
Dump ==
  /\ phase = "saving"
  /\ phase' = "running"
  /\ file' = Snap("good", manifest, guest,
                  [n \in registered \cup (Late \cap live) |-> host[n]], {})
  /\ UNCHANGED <<session, ages, source>>

(* checkpoint.extend saves the guest alone, without components.            *)
DumpLegacy ==
  /\ phase = "saving"
  /\ phase' = "running"
  /\ file' = Snap("legacy", NoManifest, guest, NoParts, {})
  /\ UNCHANGED <<session, ages, source>>

(* The process ends: killed, even in the middle of a save, or done.        *)
Stop ==
  /\ phase # "off"
  /\ phase' = "off"
  /\ UNCHANGED <<file, session, ages, source>>

(* What a session may find on disk: nothing, a cut-off file, or a file of  *)
(* any generation, with or without damage.                                 *)
Found ==
  \/ file \in {NoFile, Torn, Snap("legacy", NoManifest, 1, NoParts, {})}
  \/ \E m \in Manifests \cup {NoManifest}, P \in SUBSET Component,
        D \in SUBSET Damages :
       file = Snap("good", m, 1, [n \in P |-> 1], {d \in D : d[1] \in P})

Init ==
  /\ Found
  /\ phase = "off" /\ manifest = NoManifest /\ deferrable = {}
  /\ pending = {} /\ todo = {} /\ live = {} /\ registered = {}
  /\ guest = Fresh /\ host = [n \in Component |-> Fresh]
  /\ source = NoFile

Next ==
  \/ \E m \in Manifests, D \in SUBSET Late : Start(m, D)
  \/ Refuse \/ InstallGuest \/ Built
  \/ \E n \in Component : \/ RestorePart(n) \/ RejectPart(n)
                          \/ Create(n) \/ Claim(n) \/ ClaimFails(n)
                          \/ Register(n)
  \/ Run \/ OpenFile \/ Dump \/ DumpLegacy \/ Stop

Spec == Init /\ [][Next]_vars
-----------------------------------------------------------------------------
(* Properties.                                                             *)

(* longrun.build: "Unclaimed saved state fails at execution rather than    *)
(* silently running with a fresh timer clock".  While the machine runs,    *)
(* every component the snapshot held exists and has aged exactly as the    *)
(* guest has since that snapshot, whichever way its caller restored it.    *)
Whole ==
  phase = "running" =>
    \A n \in Saved(source) :
      n \in live /\ host[n] - source.parts[n] = guest - source.guest

(* The same of each component by itself: one whose own claim raised may be *)
(* behind, and no other is, whatever was claimed, in which order.          *)
UndamagedWhole ==
  phase = "running" =>
    \A n \in Saved(source) :
      ~Damaged(n) => n \in live /\ host[n] - source.parts[n] = guest - source.guest

Untouched == guest = Fresh /\ \A n \in Component : host[n] = Fresh

(* restore_into: "Validate every component before changing the guest or a  *)
(* supplied host object".  A restore that fails has changed nothing,       *)
(* whatever is wrong with the file, but for the schemas that Esdhc and     *)
(* Ssi0Dma check themselves, after memory and registers were written.      *)
ValidatedAtomically ==
  phase = "failed" /\ (\A d \in file.damage : d[1] \notin Custom) => Untouched

(* save_longrun saves "stateful longrun state, including timer cadence": a *)
(* snapshot taken between two slices holds every component there is, all   *)
(* of one age, also when the snapshot the machine came from held less.     *)
SavesAll ==
  [][phase = "saving" /\ phase' = "running" /\ file'.kind = "good" =>
       /\ Saved(file') = live
       /\ \A n \in live : guest - file'.guest = host[n] - file'.parts[n]]_vars

(* A claim takes the state out of the table, and spin waits for it: once   *)
(* the machine has run no claim winds a component back to its snapshot.    *)
NoRewind ==
  [][phase = "running" /\ phase' = "running" =>
       guest' >= guest /\ \A n \in Component : host'[n] >= host[n]]_vars
=============================================================================
