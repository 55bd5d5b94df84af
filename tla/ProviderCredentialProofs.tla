----------------------- MODULE ProviderCredentialProofs -----------------------
(***************************************************************************)
(* TLAPS proofs about ProviderCredential, for every set of keys and        *)
(* dispatch calls and every number of faults.                              *)
(***************************************************************************)
EXTENDS ProviderCredential, TLAPS

\* The idle values have their types.
LEMMA IdleTypes == IdleSave \in Save /\ IdleDispatch \in Dispatch
BY DEF IdleSave, IdleDispatch, Save, SavePC, Dispatch, Secret

\* Nothing is saved yet: every part of the invariant holds.
LEMMA InitCredential == Init => CredentialInvariant
<1> SUFFICES ASSUME Init PROVE CredentialInvariant
  OBVIOUS
<1>1. NoKey \in Secret /\ 0 \in Nat
  BY DEF Secret
<1>2. blocked \in BOOLEAN /\ reentered \in BOOLEAN
  BY DEF Init
<1>3. TypeOK
  BY <1>1, <1>2, IdleTypes DEF Init, TypeOK
<1>4. SaveConsistent
  BY DEF Init, SaveConsistent, IdleSave, IdleDispatch
<1> QED BY <1>3, <1>4 DEF CredentialInvariant

\* The save's own place and locals stay in their types.
LEMMA ToType ==
  ASSUME TypeOK, NEW pc \in SavePC
  PROVE  /\ To(pc) \in Save /\ To(pc).pc = pc /\ To(pc).keyed = save.keyed
         /\ To(pc).before = save.before /\ To(pc).expected = save.expected
BY DEF TypeOK, To, Save

\* A save begins: it remembers the vault's key.
LEMMA BeginSteps ==
  ASSUME CredentialInvariant, (\E k \in Secret : BeginSave(k)) \/ BeginSaveKeepingKey
  PROVE  CredentialInvariant'
<1>1. ASSUME NEW k \in Secret, BeginSave(k) PROVE CredentialInvariant'
  <2>1. save' \in Save /\ save'.pc = "block" /\ save'.keyed /\ save'.before = vault
    BY <1>1 DEF BeginSave, CredentialInvariant, TypeOK, Save, SavePC
  <2>2. TypeOK'
    BY <1>1, <2>1 DEF BeginSave, CredentialInvariant, TypeOK
  <2>3. SaveConsistent'
    BY <1>1, <2>1 DEF BeginSave, CredentialInvariant, SaveConsistent, GateFree, TypeOK
  <2> QED BY <2>2, <2>3 DEF CredentialInvariant
<1>2. CASE BeginSaveKeepingKey
  <2>1. save' \in Save /\ save'.pc = "commit" /\ ~save'.keyed
    BY <1>2, IdleTypes DEF BeginSaveKeepingKey, IdleSave, Save, SavePC
  <2>2. TypeOK'
    BY <1>2, <2>1 DEF BeginSaveKeepingKey, CredentialInvariant, TypeOK
  <2>3. SaveConsistent'
    BY <1>2, <2>1 DEF BeginSaveKeepingKey, CredentialInvariant, SaveConsistent, TypeOK
  <2> QED BY <2>2, <2>3 DEF CredentialInvariant
<1> QED BY <1>1, <1>2

\* Writing the block, the vault and the compensation.
LEMMA MutationSteps ==
  ASSUME CredentialInvariant, Block \/ Apply \/ Restore \/ Unblock
  PROVE  CredentialInvariant'
<1> USE DEF CredentialInvariant
<1>1. CASE Block
  <2>0. blocked' \in BOOLEAN
    BY <1>1 DEF Block, TypeOK
  <2>3. save' \in Save
    BY <1>1, IdleTypes, ToType DEF Block, SavePC
  <2>1. TypeOK'
    BY <1>1, <2>0, <2>3 DEF Block, TypeOK, Works, Fails
  <2>2. SaveConsistent'
    BY <1>1, ToType DEF Block, SaveConsistent, Works, Fails, SavePC, IdleSave
  <2> QED BY <2>1, <2>2
<1>2. CASE Apply
  <2>1. TypeOK'
    BY <1>2, IdleTypes, ToType DEF Apply, VaultCall, TypeOK, Works, Fails, SavePC, Save
  <2>2. SaveConsistent'
    BY <1>2, ToType DEF Apply, VaultCall, SaveConsistent, Works, Fails, SavePC
  <2> QED BY <2>1, <2>2
<1>3. CASE Restore
  <2>1. TypeOK'
    BY <1>3, IdleTypes, ToType DEF Restore, VaultCall, TypeOK, Works, Fails, SavePC, Save
  <2>2. SaveConsistent'
    BY <1>3, ToType DEF Restore, VaultCall, SaveConsistent, Works, Fails, SavePC, IdleSave
  <2> QED BY <2>1, <2>2
<1>4. CASE Unblock
  <2>0. blocked' \in BOOLEAN
    BY <1>4 DEF Unblock, TypeOK
  <2>1. TypeOK'
    BY <1>4, <2>0, IdleTypes DEF Unblock, TypeOK, Works, Fails
  <2>2. SaveConsistent'
    BY <1>4 DEF Unblock, SaveConsistent, Works, Fails, IdleSave, TypeOK
  <2> QED BY <2>1, <2>2
<1> QED BY <1>1, <1>2, <1>3, <1>4

\* put_many: every snapshot taken before it is of an older revision.
LEMMA CommitStep ==
  ASSUME CredentialInvariant, Commit
  PROVE  CredentialInvariant'
<1> USE DEF CredentialInvariant
<1>1. CASE Works /\ config' = config + 1
  <2>1. /\ blocked' = (blocked /\ ~save.keyed)
        /\ committed' = IF save.keyed THEN save.expected ELSE committed
        /\ save' = IdleSave /\ vault' = vault /\ reentered' = reentered
        /\ disp' = [d \in Dispatchers |->
                      [disp[d] EXCEPT !.cancelled = disp[d].cancelled \/ d \in Registered]]
        /\ save.pc = "commit"
    <3>1. config \in Nat
      BY DEF TypeOK
    <3> QED BY <1>1, <3>1 DEF Commit
  <2>2. ASSUME NEW d \in Dispatchers
        PROVE  /\ disp'[d] \in Dispatch /\ disp'[d].pc = disp[d].pc
               /\ disp'[d].rev = disp[d].rev
    BY <2>1 DEF TypeOK, Dispatch
  <2>3. disp' \in [Dispatchers -> Dispatch]
    BY <2>1, <2>2
  <2>4. TypeOK'
    BY <1>1, <2>1, <2>3, IdleTypes DEF TypeOK, Works, Save
  <2>5. ASSUME NEW d \in Dispatchers, disp'[d].pc # "idle"
        PROVE  disp'[d].rev < config'
    BY <1>1, <2>2, <2>5 DEF SaveConsistent, TypeOK, Dispatch
  <2>6. \A d \in Dispatchers : disp'[d].pc # "idle" =>
          disp'[d].rev <= config' /\ disp'[d].rev # config'
    BY <1>1, <2>2, <2>5 DEF TypeOK, Dispatch
  <2>7. SaveConsistent'
    BY <2>1, <2>6 DEF SaveConsistent, IdleSave
  <2> QED BY <2>4, <2>7
<1>2. CASE ~(Works /\ config' = config + 1)
  <2>1. /\ Fails /\ save' = IF save.keyed THEN To("restore") ELSE IdleSave
        /\ UNCHANGED <<config, blocked, committed, disp, vault, reentered>>
        /\ save.pc = "commit"
    BY <1>2 DEF Commit
  <2>2. TypeOK'
    BY <2>1, IdleTypes, ToType DEF TypeOK, Fails, SavePC
  <2>3. SaveConsistent'
    BY <2>1, ToType DEF SaveConsistent, SavePC, IdleSave
  <2> QED BY <2>2, <2>3
<1> QED BY <1>1, <1>2

\* A dispatch takes its snapshot only where block, vault and row agree.
LEMMA DispatchSteps ==
  ASSUME CredentialInvariant,
         NEW d \in Dispatchers, Snapshot(d) \/ Record(d) \/ Send(d) \/ Reply(d)
  PROVE  CredentialInvariant'
<1> USE DEF CredentialInvariant
<1>1. UNCHANGED <<config, blocked, vault, save, committed, reentered, faults>>
  BY DEF Snapshot, Record, Send, Reply
<1>2. PICK e \in Dispatch :
        /\ disp' = [disp EXCEPT ![d] = e]
        /\ e.pc # "idle" => /\ e.rev <= config
                            /\ ~reentered /\ e.rev = config => e.key = committed
  <2>1. CASE Snapshot(d)
    <3> DEFINE e == [pc |-> "ready", rev |-> config, key |-> vault, cancelled |-> FALSE]
    <3>1. e \in Dispatch /\ disp' = [disp EXCEPT ![d] = e] /\ ~blocked
      BY <2>1 DEF Snapshot, TypeOK, Dispatch
    <3>2. e.rev <= config /\ (~reentered => e.key = committed)
      BY <3>1 DEF SaveConsistent, TypeOK
    <3> QED BY <3>1, <3>2
  <2>2. CASE Record(d) \/ Send(d) \/ Reply(d)
    <3>1. disp[d] \in Dispatch
      BY DEF TypeOK
    <3>2. disp[d].pc # "idle"
      BY <2>2 DEF Record, Send, Reply
    <3>3. PICK e : /\ disp' = [disp EXCEPT ![d] = e]
                   /\ \/ e = IdleDispatch
                      \/ \E pc \in {"recorded", "sent"} : e = [disp[d] EXCEPT !.pc = pc]
      BY <2>2 DEF Record, Send, Reply
    <3>4. CASE e = IdleDispatch
      BY <3>3, <3>4, IdleTypes DEF IdleDispatch
    <3>5. CASE e # IdleDispatch
      <4>1. e \in Dispatch /\ e.rev = disp[d].rev /\ e.key = disp[d].key
        BY <3>1, <3>3, <3>5 DEF Dispatch
      <4> QED BY <3>2, <3>3, <4>1 DEF SaveConsistent
    <3> QED BY <3>4, <3>5
  <2> QED BY <2>1, <2>2
<1>3. TypeOK'
  BY <1>1, <1>2 DEF TypeOK
<1>4. \A x \in Dispatchers : disp'[x] = IF x = d THEN e ELSE disp[x]
  BY <1>2 DEF TypeOK
<1>5. SaveConsistent'
  BY <1>1, <1>2, <1>4 DEF SaveConsistent
<1> QED BY <1>3, <1>5

\* A process death loses the save and the calls, never the block.
LEMMA CrashStep ==
  ASSUME CredentialInvariant, Crash
  PROVE  CredentialInvariant'
<1>1. TypeOK'
  BY IdleTypes DEF Crash, CredentialInvariant, TypeOK, Fails
<1>2. SaveConsistent'
  BY DEF Crash, CredentialInvariant, SaveConsistent, IdleSave, IdleDispatch, TypeOK
<1> QED BY <1>1, <1>2 DEF CredentialInvariant

\* Every step keeps the invariant.
LEMMA NextCredential == CredentialInvariant /\ [Next]_vars => CredentialInvariant'
<1> SUFFICES ASSUME CredentialInvariant, [Next]_vars PROVE CredentialInvariant'
  OBVIOUS
<1>1. CASE Next
  BY <1>1, BeginSteps, MutationSteps, CommitStep, DispatchSteps, CrashStep
     DEF Next, SaveNext
<1>2. CASE UNCHANGED vars
  BY <1>2 DEF vars, CredentialInvariant, TypeOK, SaveConsistent
<1> QED BY <1>1, <1>2

\* The inductive invariant of the save and of the calls beside it.
THEOREM CredentialInvariantHolds == Spec => []CredentialInvariant
BY InitCredential, NextCredential, PTL DEF Spec

\* However many vault or storage calls fail and wherever the process dies, no
\* call combines a configuration with another key, as long as no save began over
\* a block that an earlier one left.
THEOREM ContainedUntilReentry == Spec => []FirstFaultContained
<1>1. CredentialInvariant => FirstFaultContained
  BY DEF CredentialInvariant, SaveConsistent, FirstFaultContained, FailClosed,
         KeyOfConfig
<1> QED BY <1>1, CredentialInvariantHolds, PTL

\* A committed save, after whatever faults, leaves its key with its configuration
\* and dispatch open.
THEOREM CommitIsCoherent == Spec => CommitPairs
<1>1. CredentialInvariant /\ [Next]_vars =>
        [config' # config /\ save.keyed =>
           vault' = save.expected /\ committed' = save.expected /\ ~blocked']_vars
  <2> SUFFICES ASSUME CredentialInvariant, [Next]_vars, config' # config, save.keyed
               PROVE  vault' = save.expected /\ committed' = save.expected /\ ~blocked'
    OBVIOUS
  <2>1. Commit
    BY DEF Next, SaveNext, vars, BeginSave, BeginSaveKeepingKey, Block, Apply, Restore,
           Unblock, Snapshot, Record, Send, Reply, Crash
  <2> QED BY <2>1 DEF Commit, CredentialInvariant, SaveConsistent
<1> QED BY <1>1, CredentialInvariantHolds, PTL DEF Spec, CommitPairs

\* What is recorded for sending belongs to the configuration of that moment.
THEOREM RecordedIsCurrent == Spec => RecordIsCurrent
<1> DEFINE A == \A d \in Dispatchers :
                  disp[d].pc = "ready" /\ disp'[d].pc = "recorded" =>
                    disp[d].rev = config /\ (~reentered => disp[d].key = committed)
<1>1. CredentialInvariant /\ [Next]_vars => [A]_vars
  <2> SUFFICES ASSUME CredentialInvariant, [Next]_vars, NEW d \in Dispatchers,
                      disp[d].pc = "ready", disp'[d].pc = "recorded"
               PROVE  disp[d].rev = config /\ (~reentered => disp[d].key = committed)
    OBVIOUS
  <2>1. disp \in [Dispatchers -> Dispatch]
    BY DEF CredentialInvariant, TypeOK
  <2>2. PICK x \in Dispatchers : Snapshot(x) \/ Record(x) \/ Send(x) \/ Reply(x)
    <3>1. disp' # disp
      OBVIOUS
    <3>2. CASE Commit
      BY <2>1, <3>1, <3>2 DEF Commit, Dispatch
    <3>3. CASE Crash
      BY <3>3 DEF Crash, IdleDispatch
    <3> QED BY <3>1, <3>2, <3>3 DEF Next, SaveNext, vars, BeginSave, BeginSaveKeepingKey,
                     Block, Apply, Restore, Unblock
  <2>3. x = d
    BY <2>1, <2>2 DEF Snapshot, Record, Send, Reply
  <2>4. Record(d)
    BY <2>1, <2>2, <2>3 DEF Snapshot, Send, Reply
  <2>5. disp[d].rev = config
    BY <2>1, <2>4 DEF Record, IdleDispatch
  <2> QED BY <2>5 DEF CredentialInvariant, SaveConsistent
<1> QED BY <1>1, CredentialInvariantHolds, PTL DEF Spec, RecordIsCurrent
=============================================================================
