-------------------------- MODULE ProviderCredential --------------------------
(***************************************************************************)
(* Saving a model provider spans two stores: the configuration row in      *)
(* SQLite and the API key in the operating system's credential vault.      *)
(* commit_prepared_provider_save orders the writes around a durable        *)
(* dispatch block.  Saves hold the workspace gate; a dispatch takes its    *)
(* snapshot and its last look in two critical sections and sends without   *)
(* the gate.  Any external call may fail, and the process may die between  *)
(* any two writes.                                                         *)
(***************************************************************************)
EXTENDS Naturals

CONSTANTS Keys,         \* API keys a user may enter
          NoKey,        \* an empty vault entry
          Dispatchers,  \* concurrent ai_complete_budgeted calls
          Registered,   \* those whose token a save can cancel (a test call has none)
          MaxRev,       \* bound on ProviderConfig.revision
          MaxFaults     \* bound on failed external calls and process deaths

ASSUME CredentialAssumption ==
  /\ NoKey \notin Keys
  /\ Registered \subseteq Dispatchers
  /\ MaxRev \in Nat
  /\ MaxFaults \in Nat

VARIABLES
  config,     \* ProviderConfig.revision; 0 is an absent row
  blocked,    \* ProviderCredentialState.dispatch_blocked
  vault,      \* the key in the credential vault
  save,       \* locals of the save that holds the gate
  disp,       \* [Dispatchers -> Dispatch]
  committed,  \* history: the key of the last save that committed with a key
  reentered,  \* history: a save with a key began while the block was set
  faults      \* failures so far

vars == <<config, blocked, vault, save, disp, committed, reentered, faults>>

Secret == Keys \cup {NoKey}

SavePC == {"idle", "block", "apply", "commit", "restore", "unblock"}

\* PreparedCredentialMutation; keyed is FALSE when the request has no api_key.
Save == [pc : SavePC, keyed : BOOLEAN, before : Secret, expected : Secret]

IdleSave == [pc |-> "idle", keyed |-> FALSE, before |-> NoKey, expected |-> NoKey]

\* ProviderDispatchSnapshot and the caller's cancellation token.
Dispatch == [pc : {"idle", "ready", "recorded", "sent"}, rev : Nat, key : Secret,
             cancelled : BOOLEAN]

IdleDispatch == [pc |-> "idle", rev |-> 0, key |-> NoKey, cancelled |-> FALSE]

TypeOK ==
  /\ config \in Nat
  /\ blocked \in BOOLEAN
  /\ vault \in Secret
  /\ save \in Save
  /\ disp \in [Dispatchers -> Dispatch]
  /\ committed \in Secret
  /\ reentered \in BOOLEAN
  /\ faults \in Nat

Init ==
  /\ config = 0
  /\ blocked = FALSE
  /\ vault = NoKey
  /\ save = IdleSave
  /\ disp = [d \in Dispatchers |-> IdleDispatch]
  /\ committed = NoKey
  /\ reentered = FALSE
  /\ faults = 0

GateFree == save.pc = "idle"

-----------------------------------------------------------------------------
(* commit_prepared_provider_save *)

\* One external call: it succeeds, or it fails and counts as a fault.
Works == UNCHANGED faults

Fails == faults < MaxFaults /\ faults' = faults + 1

\* A vault call that fails may have changed the entry or not.
VaultCall(v, ok, failed) ==
  \/ /\ Works
     /\ vault' = v
     /\ save' = ok
  \/ /\ Fails
     /\ vault' \in {vault, v}
     /\ save' = failed

To(pc) == [save EXCEPT !.pc = pc]

\* prepare_provider_credential_mutation: the vault's present key is remembered.
BeginSave(k) ==
  /\ GateFree
  /\ config < MaxRev
  /\ save' = [pc |-> "block", keyed |-> TRUE, before |-> vault, expected |-> k]
  /\ reentered' = (reentered \/ blocked)
  /\ UNCHANGED <<config, blocked, vault, disp, committed, faults>>

\* A save without api_key leaves vault and block alone.
BeginSaveKeepingKey ==
  /\ GateFree
  /\ config < MaxRev
  /\ save' = [IdleSave EXCEPT !.pc = "commit"]
  /\ UNCHANGED <<config, blocked, vault, disp, committed, reentered, faults>>

\* Faulty variant: the vault is changed without a durable block.
Block_Skipped ==
  /\ save.pc = "block"
  /\ save' = To("apply")
  /\ UNCHANGED <<config, blocked, vault, disp, committed, reentered, faults>>

\* The block is durable before the first external mutation.
Block ==
  /\ save.pc = "block"
  /\ \/ Works /\ blocked' = TRUE /\ save' = To("apply")
     \/ Fails /\ UNCHANGED blocked /\ save' = IdleSave
  /\ UNCHANGED <<config, vault, disp, committed, reentered>>

\* Faulty variant: the vault's error is not seen.
Apply_Unverified ==
  /\ save.pc = "apply"
  /\ VaultCall(save.expected, To("commit"), To("commit"))
  /\ UNCHANGED <<config, blocked, disp, committed, reentered>>

\* apply_provider_credential writes and reads back.
Apply ==
  /\ save.pc = "apply"
  /\ VaultCall(save.expected, To("commit"), To("restore"))
  /\ UNCHANGED <<config, blocked, disp, committed, reentered>>

\* put_many: configuration, metadata and, with a key, the end of the block in
\* one transaction; then every registered token is cancelled.
Commit ==
  /\ save.pc = "commit"
  /\ \/ /\ Works
        /\ config' = config + 1
        /\ blocked' = (blocked /\ ~save.keyed)
        /\ committed' = IF save.keyed THEN save.expected ELSE committed
        /\ save' = IdleSave
        /\ disp' = [d \in Dispatchers |->
                      [disp[d] EXCEPT !.cancelled = @ \/ d \in Registered]]
     \/ /\ Fails
        /\ save' = IF save.keyed THEN To("restore") ELSE IdleSave
        /\ UNCHANGED <<config, blocked, committed, disp>>
  /\ UNCHANGED <<vault, reentered>>

\* Faulty variant: the block is lifted although the old key was not restored.
Restore_Unverified ==
  /\ save.pc = "restore"
  /\ VaultCall(save.before, To("unblock"), To("unblock"))
  /\ UNCHANGED <<config, blocked, disp, committed, reentered>>

\* restore_provider_credential writes the remembered key and reads it back.
Restore ==
  /\ save.pc = "restore"
  /\ VaultCall(save.before, To("unblock"), IdleSave)
  /\ UNCHANGED <<config, blocked, disp, committed, reentered>>

Unblock ==
  /\ save.pc = "unblock"
  /\ \/ Works /\ blocked' = FALSE
     \/ Fails /\ UNCHANGED blocked
  /\ save' = IdleSave
  /\ UNCHANGED <<config, vault, disp, committed, reentered>>

-----------------------------------------------------------------------------
(* ai_complete_budgeted *)

\* provider_dispatch_snapshot_locked with api_key, which refuses a blocked
\* provider before it reads the vault.
Snapshot(d) ==
  /\ disp[d].pc = "idle"
  /\ GateFree
  /\ config # 0
  /\ ~blocked
  /\ vault # NoKey
  /\ disp' = [disp EXCEPT ![d] = [pc |-> "ready", rev |-> config, key |-> vault,
                                  cancelled |-> FALSE]]
  /\ UNCHANGED <<config, blocked, vault, save, committed, reentered, faults>>

\* Faulty variant: the provider revision is not compared.
Record_AnyRevision(d) ==
  /\ disp[d].pc = "ready"
  /\ GateFree
  /\ disp' = [disp EXCEPT ![d] = IF ~disp[d].cancelled
                                 THEN [@ EXCEPT !.pc = "recorded"] ELSE IdleDispatch]
  /\ UNCHANGED <<config, blocked, vault, save, committed, reentered, faults>>

\* The critical section that records the dispatch looks at the token and the
\* provider revision for the last time.
Record(d) ==
  /\ disp[d].pc = "ready"
  /\ GateFree
  /\ disp' = [disp EXCEPT ![d] = IF ~disp[d].cancelled /\ disp[d].rev = config
                                 THEN [@ EXCEPT !.pc = "recorded"] ELSE IdleDispatch]
  /\ UNCHANGED <<config, blocked, vault, save, committed, reentered, faults>>

\* The request leaves, without the gate, unless the token was cancelled.
Send(d) ==
  /\ disp[d].pc = "recorded"
  /\ disp' = [disp EXCEPT ![d] = IF disp[d].cancelled THEN IdleDispatch
                                 ELSE [@ EXCEPT !.pc = "sent"]]
  /\ UNCHANGED <<config, blocked, vault, save, committed, reentered, faults>>

\* The answer, an error or the cancellation ends the call.
Reply(d) ==
  /\ disp[d].pc = "sent"
  /\ disp' = [disp EXCEPT ![d] = IdleDispatch]
  /\ UNCHANGED <<config, blocked, vault, save, committed, reentered, faults>>

\* The process dies: row, block and vault survive.
Crash ==
  /\ Fails
  /\ save' = IdleSave
  /\ disp' = [d \in Dispatchers |-> IdleDispatch]
  /\ UNCHANGED <<config, blocked, vault, committed, reentered>>

SaveNext == Block \/ Apply \/ Commit \/ Restore \/ Unblock

Next ==
  \/ \E k \in Secret : BeginSave(k)
  \/ BeginSaveKeepingKey
  \/ SaveNext
  \/ \E d \in Dispatchers : Snapshot(d) \/ Record(d) \/ Send(d) \/ Reply(d)
  \/ Crash

Spec == Init /\ [][Next]_vars

-----------------------------------------------------------------------------
\* "preventing a later request from combining an old configuration with a
\* possibly new key": a call that holds a configuration saved with a key holds
\* that key.
KeyOfConfig ==
  \A d \in Dispatchers :
    disp[d].pc # "idle" /\ disp[d].rev = config /\ committed # NoKey =>
      disp[d].key = committed

\* The block is lifted only over the committed key: whenever a dispatch may take
\* a snapshot, vault and configuration belong together.
FailClosed == GateFree /\ ~blocked => vault = committed

\* Both hold however many calls fail and wherever the process dies, as long as
\* no save with a key begins over the block an earlier one left behind.
FirstFaultContained == ~reentered => FailClosed /\ KeyOfConfig

\* What a save relies on while it holds the gate: the block covers the vault
\* from the first external write on, and the remembered key is the committed one
\* as long as no save began over a block.
SaveConsistent ==
  /\ save.pc \in {"apply", "restore", "unblock"} => blocked
  /\ save.pc = "commit" /\ save.keyed => blocked /\ vault = save.expected
  /\ save.pc = "unblock" => vault = save.before
  /\ ~reentered /\ save.pc = "block" => ~blocked /\ vault = committed
  /\ ~reentered /\ save.keyed => save.before = committed
  /\ ~reentered /\ ~blocked => vault = committed
  /\ save.pc \in {"block", "apply", "restore", "unblock"} => save.keyed
  /\ \A d \in Dispatchers :
       disp[d].pc # "idle" =>
         /\ disp[d].rev <= config
         /\ ~reentered /\ disp[d].rev = config => disp[d].key = committed

\* The inductive strengthening of FirstFaultContained.
CredentialInvariant == TypeOK /\ SaveConsistent

\* A save that commits a key, even over an old block, leaves exactly that key
\* with the new configuration and opens dispatch again.
CommitPairs ==
  [][config' # config /\ save.keyed =>
       vault' = save.expected /\ committed' = save.expected /\ ~blocked']_vars

\* The last look under the gate: what is recorded, and so may be sent, belongs
\* to the configuration of that moment.
RecordIsCurrent ==
  [][\A d \in Dispatchers :
       disp[d].pc = "ready" /\ disp'[d].pc = "recorded" =>
         disp[d].rev = config /\ (~reentered => disp[d].key = committed)]_vars
=============================================================================
