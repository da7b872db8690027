------------------------------ MODULE LinuxSsh ------------------------------
(***************************************************************************)
(* Live inventories over SSH: the client that claims every operation in a  *)
(* durable ledger and runs it once (connectors/linux_ssh_transport.py,     *)
(* linux_ssh_contracts.py, linux_ssh_commands.py), the known-hosts file    *)
(* that its processes share, and the root-controlled attestor that signs   *)
(* a receipt of what was collected (connectors/live_inventory_attestor.py).*)
(*                                                                         *)
(* There is one target.  An inventory is a number, and a digest of it that *)
(* number; a command's answer is one of the kinds that the client tells    *)
(* apart.  The evidence that the attestor trusts is written by another     *)
(* observer of the target.                                                 *)
(***************************************************************************)
EXTENDS Naturals, FiniteSets, Sequences

CONSTANTS Bases,        \* operation ids given to collect_inventory
          SshClients,   \* processes that collect
          CollectionSteps,  \* the operations of a collection, in their order
          MaxInventories, \* bound on the collections begun
          MaxSshFaults  \* bound on crashes, failures and bad answers

\* A collection begins by connecting.
ASSUME SshAssumption ==
    /\ MaxInventories \in Nat /\ MaxSshFaults \in Nat
    /\ CollectionSteps \in Seq(STRING)
    /\ \E i \in DOMAIN CollectionSteps : CollectionSteps[i] = "connect"

VARIABLES
    operationClaims, \* operations claimed in the ledger, <<base, step>>
    knownHosts,      \* the known-hosts file: "absent", "empty" or "line"
    sshClient,       \* [client -> its progress]
    sent,            \* [<<base, step>> -> the inventories that sent its commands]
    collected,       \* inventories as they were made
    trusted,         \* evidence of the observer: an inventory, and whether it is fresh
    receiptClaims,   \* receipts claimed by the attestor
    signed,          \* receipts signed, in order of time
    inventories,     \* number of collections begun
    sshFaults

sshVars == <<operationClaims, knownHosts, sshClient, sent, collected, trusted,
             receiptClaims, signed, inventories, sshFaults>>

StepNames == {CollectionSteps[i] : i \in DOMAIN CollectionSteps}
Operations == Bases \X StepNames

NoCollection == [at |-> "idle", base |-> CHOOSE b \in Bases : TRUE, number |-> 0,
                 next |-> 1, status |-> "none", required |-> TRUE, records |-> {},
                 passed |-> FALSE]

SshInit ==
    /\ operationClaims = {}
    /\ knownHosts = "absent"
    /\ sshClient = [c \in SshClients |-> NoCollection]
    /\ sent = [o \in Operations |-> <<>>]
    /\ collected = {}
    /\ trusted = {}
    /\ receiptClaims = {}
    /\ signed = <<>>
    /\ inventories = 0
    /\ sshFaults = 0

ClientAt(c, at) == sshClient[c].at = at
StepOf(c) == CollectionSteps[sshClient[c].next]
OperationOf(c) == <<sshClient[c].base, StepOf(c)>>
ClientTo(c, at) == sshClient' = [sshClient EXCEPT ![c].at = at]
Abort(c) == sshClient' = [sshClient EXCEPT ![c] = NoCollection]
SshFault == sshFaults < MaxSshFaults /\ sshFaults' = sshFaults + 1

-----------------------------------------------------------------------------
(* One operation: its commands, their answers and its result *)

CommandsOf(step) ==
    IF step \in {"connect", "network", "service"} THEN 1
    ELSE IF step \in {"host", "web", "runtime"} THEN 3 ELSE 2

\* The operations whose first failing command ends them.
EndsAtFailure(step) == step \in {"connect", "host", "root", "metadata", "storage"}
RequiredSteps == StepNames \cap {"host", "root", "metadata"}

CommandAnswers == {"whole", "lacking", "repeated", "garbled", "otherHost", "exit",
                   "drop", "flood", "silence"}

\* OpenSSHProcessRunner.run: a command that floods or is silent is killed.
ProcessResult(answer) ==
    [limited |-> answer = "flood", timedOut |-> answer = "silence",
     code |-> IF answer = "drop" THEN 255 ELSE IF answer = "exit" THEN 1
              ELSE IF answer \in {"flood", "silence"} THEN 137 ELSE 0]

\* _execute_command, in the order of its tests.
CommandStatus(answer) ==
    LET r == ProcessResult(answer) IN
    IF r.limited THEN "output_limited"
    ELSE IF r.timedOut THEN "timed_out"
    ELSE IF r.code = 255 THEN "disconnected"
    ELSE IF r.code # 0 THEN "failed"
    ELSE IF answer = "otherHost" THEN "host_identity_failed"
    ELSE IF answer = "garbled" THEN "malformed" ELSE "passed"

Failing(answers) == {i \in DOMAIN answers : CommandStatus(answers[i]) # "passed"}

OperationStatus(step, answers) ==
    IF Failing(answers) = {} THEN "passed"
    ELSE IF EndsAtFailure(step)
         THEN CommandStatus(answers[CHOOSE i \in Failing(answers) :
                                       \A j \in Failing(answers) : i <= j])
         ELSE "partial"

\* Only a command of the host inventory can name another host or lack a line.
CanAnswer(step, answer) ==
    answer \in {"lacking", "repeated", "otherHost"} => step = "host"

\* Records that the parsers make of one command's output.
HostRecords == <<{"hostname"}, {"kernel"}, {"id", "version_id"}>>
RootRecords == <<{"resolved"}, {"stat"}>>
RecordsOf(step, i, answer) ==
    LET all == IF step = "host" THEN HostRecords[i]
               ELSE IF step \in {"root", "metadata"} THEN RootRecords[i]
               ELSE IF step = "connect" THEN {} ELSE {"summary"}
    IN  {<<step, x>> : x \in
            IF CommandStatus(answer) # "passed" THEN {}
            ELSE IF answer = "lacking" THEN all \ {"version_id"}
            ELSE IF answer = "repeated" THEN all \cup {"again"} ELSE all}

\* required_inventory_records_complete: each required record once, and nothing
\* else from the operations that yield them.
RequiredRecords ==
    UNION {UNION {RecordsOf(s, i, "whole") : i \in 1..CommandsOf(s)} : s \in RequiredSteps}
RecordsComplete(records) ==
    {r \in records : r[1] \in RequiredSteps} = RequiredRecords

-----------------------------------------------------------------------------
(* collect_inventory and execute *)

BeginInventory(c, b) ==
    /\ ClientAt(c, "idle") /\ inventories < MaxInventories
    /\ inventories' = inventories + 1
    /\ sshClient' = [sshClient EXCEPT ![c] =
           [NoCollection EXCEPT !.at = "claim", !.base = b, !.number = inventories + 1]]
    /\ UNCHANGED <<operationClaims, knownHosts, sent, collected, trusted, receiptClaims,
                   signed, sshFaults>>

Claimed(c) == OperationOf(c) \notin operationClaims

\* The ledger takes a claim once; an operation claimed before is not run.
ClaimOperation(c) ==
    /\ ClientAt(c, "claim")
    /\ operationClaims' = operationClaims \cup {OperationOf(c)}
    /\ IF Claimed(c) THEN ClientTo(c, "resolve")
       ELSE sshClient' = [sshClient EXCEPT ![c].at = "result", ![c].status = "replayed"]
    /\ UNCHANGED <<knownHosts, sent, collected, trusted, receiptClaims, signed, inventories,
                   sshFaults>>

\* The ledger fails, or the credential cannot be resolved: the collection ends.
ClaimOrResolveFails(c) ==
    /\ ClientAt(c, "claim") \/ ClientAt(c, "resolve")
    /\ SshFault
    /\ Abort(c)
    /\ UNCHANGED <<operationClaims, knownHosts, sent, collected, trusted, receiptClaims,
                   signed, inventories>>

ResolveCredential(c) ==
    /\ ClientAt(c, "resolve")
    /\ ClientTo(c, "host_key")
    /\ UNCHANGED <<operationClaims, knownHosts, sent, collected, trusted, receiptClaims,
                   signed, inventories, sshFaults>>

\* _read_known_hosts: a file that is not there is told from one without the line.
KnownKeys == IF knownHosts = "absent" THEN {} ELSE {knownHosts}

\* verify_host_key: the scanned key is the expected one; the file holds its line,
\* or is made.  A file that another process has made and not written yet is a
\* changed one, and the collection ends after the credential is released.
PersistHostKey(c) ==
    /\ ClientAt(c, "host_key")
    /\ \/ KnownKeys = {} /\ knownHosts' = "empty" /\ ClientTo(c, "write_key")
       \/ KnownKeys = {"line"} /\ ClientTo(c, "run") /\ UNCHANGED knownHosts
       \/ /\ KnownKeys = {"empty"} /\ UNCHANGED knownHosts
          /\ sshClient' = [sshClient EXCEPT ![c].at = "release", ![c].status = "raise"]
    /\ UNCHANGED <<operationClaims, sent, collected, trusted, receiptClaims, signed,
                   inventories, sshFaults>>

WriteHostKey(c) ==
    /\ ClientAt(c, "write_key")
    /\ knownHosts' = "line"
    /\ ClientTo(c, "run")
    /\ UNCHANGED <<operationClaims, sent, collected, trusted, receiptClaims, signed,
                   inventories, sshFaults>>

\* The scan fails or shows no key of the expected fingerprint.
HostKeyRefused(c) ==
    /\ ClientAt(c, "host_key") /\ SshFault
    /\ sshClient' = [sshClient EXCEPT ![c].at = "release", ![c].status = "raise"]
    /\ UNCHANGED <<operationClaims, knownHosts, sent, collected, trusted, receiptClaims,
                   signed, inventories>>

\* The commands run one after the other; at most one of them answers badly.
RunOperation(c) ==
    /\ ClientAt(c, "run")
    /\ \E i \in 1..CommandsOf(StepOf(c)), a \in {x \in CommandAnswers : CanAnswer(StepOf(c), x)} :
          LET answers == [j \in 1..CommandsOf(StepOf(c)) |-> IF j = i THEN a ELSE "whole"]
              done    == IF Failing(answers) # {} /\ EndsAtFailure(StepOf(c))
                         THEN 1..i ELSE DOMAIN answers
          IN  /\ IF a = "whole" THEN UNCHANGED sshFaults ELSE SshFault
              /\ sshClient' = [sshClient EXCEPT
                     ![c].at = "release",
                     ![c].status = OperationStatus(StepOf(c), answers),
                     ![c].records = @ \cup UNION {RecordsOf(StepOf(c), j, answers[j]) : j \in done}]
    /\ sent' = [sent EXCEPT ![OperationOf(c)] = Append(@, sshClient[c].number)]
    /\ UNCHANGED <<operationClaims, knownHosts, collected, trusted, receiptClaims, signed,
                   inventories>>

\* The credential is released, at the second attempt when the first one fails.
ReleaseCredential(c) ==
    /\ ClientAt(c, "release")
    /\ IF sshClient[c].status = "raise" THEN Abort(c) ELSE ClientTo(c, "result")
    /\ UNCHANGED <<operationClaims, knownHosts, sent, collected, trusted, receiptClaims,
                   signed, inventories, sshFaults>>

\* Both fail: the operation stays claimed and the collection ends.
ReleaseFails(c) ==
    /\ ClientAt(c, "release") /\ SshFault
    /\ Abort(c)
    /\ UNCHANGED <<operationClaims, knownHosts, sent, collected, trusted, receiptClaims,
                   signed, inventories>>

\* Mutant: an operation that was replayed counts as one that passed.
ReplayPassed(c) == sshClient[c].status \in {"passed", "replayed"}

OperationPassed(c) == sshClient[c].status = "passed"

\* _live_source_binding_payload: the records that name the host and its roots.
SourceBinding(records) ==
    [host |-> records \cap {<<"host", "hostname">>},
     roots |-> records \cap {<<"metadata", "stat">>}]

Inventory(c) == [number |-> sshClient[c].number, base |-> sshClient[c].base,
                 passed |-> sshClient[c].passed, records |-> sshClient[c].records,
                 binding |-> SourceBinding(sshClient[c].records)]

\* The result of one operation: the connection is needed for all others, and an
\* optional one is never needed.
TakeResult(c) ==
    LET required == sshClient[c].required /\
                    (StepOf(c) \in RequiredSteps => OperationPassed(c))
        over     == sshClient[c].next = Len(CollectionSteps)
        lost     == StepOf(c) = "connect" /\ ~OperationPassed(c)
        passed   == over /\ ~lost /\ required /\ RecordsComplete(sshClient[c].records)
    IN
    /\ ClientAt(c, "result")
    /\ sshClient' = [sshClient EXCEPT
           ![c].at = IF over \/ lost THEN "seal" ELSE "claim",
           ![c].next = IF over \/ lost THEN @ ELSE @ + 1,
           ![c].status = "none", ![c].required = required, ![c].passed = passed]
    /\ collected' = IF over \/ lost
                    THEN collected \cup {[Inventory(c) EXCEPT !.passed = passed]}
                    ELSE collected
    /\ UNCHANGED <<operationClaims, knownHosts, sent, trusted, receiptClaims, signed,
                   inventories, sshFaults>>

-----------------------------------------------------------------------------
(* The receipt and the attestor *)

Operation(base, name) == <<base, name>>

\* live_snapshot_receipt_path names the file after an operation id.
Receipt(inventory, path) ==
    [inventory |-> inventory, path |-> path]

\* _seal_live_snapshot gives it the id that collect_inventory was called with.
SealedReceipt(c) == Receipt(Inventory(c), <<sshClient[c].base>>)

\* What the observer records of an inventory, one record for each id; the attestor
\* looks it up by the ids of the receipt.
TrustedEvidence(inventory) ==
    [base |-> inventory.base, digest |-> inventory.number, status |-> inventory.passed,
     records |-> inventory.records, roots |-> inventory.binding.roots, fresh |-> TRUE]
TrustedRecords(base) == {e \in trusted : e.base = base}
Evidence(receipt) == TrustedRecords(receipt.inventory.base)

\* The receipt's records and roots are those of the evidence; the record that it
\* gives for the host has only to be one of them.
SourceMatches(receipt, e) ==
    LET binding == receipt.inventory.binding IN
    /\ receipt.inventory.records = e.records /\ binding.roots = e.roots
    /\ binding.host # {} /\ binding.host \cup binding.roots \subseteq e.records

\* It is of this very inventory, of its host and roots, and not too old.
Vouched(receipt) ==
    \E e \in Evidence(receipt) :
        /\ e.status /\ e.digest = receipt.inventory.number
        /\ e.fresh /\ SourceMatches(receipt, e)

\* _validate_payload: the evidence matches, and the path is the one of the
\* inventory operation.
Approves(receipt) ==
    Vouched(receipt) /\ receipt.path = Operation(receipt.inventory.base, "inventory")

\* A receipt is claimed in a ledger of the attestor's own.
Claimable(receipt) == receipt \notin receiptClaims

\* attest: a receipt is claimed for ever, and then signed.
Attest(receipt) ==
    IF Approves(receipt) /\ Claimable(receipt)
    THEN /\ receiptClaims' = receiptClaims \cup {receipt}
         /\ signed' = Append(signed, receipt)
    ELSE UNCHANGED <<receiptClaims, signed>>

\* The client's call over the attestor's socket: a signature, or none.
AttestorAnswer(receipt) ==
    IF Approves(receipt) /\ Claimable(receipt) THEN "sealed" ELSE "refused"

\* The client asks for a signature; without one the collection has failed.
SealInventory(c) ==
    /\ ClientAt(c, "seal")
    /\ Attest(SealedReceipt(c))
    /\ ClientTo(c, AttestorAnswer(SealedReceipt(c)))
    /\ UNCHANGED <<operationClaims, knownHosts, sent, collected, trusted, inventories, sshFaults>>

EndInventory(c) ==
    /\ ClientAt(c, "refused")
    /\ Abort(c)
    /\ UNCHANGED <<operationClaims, knownHosts, sent, collected, trusted, receiptClaims,
                   signed, inventories, sshFaults>>

\* Another process of the uid that may connect presents a receipt of an inventory.
PresentReceipt(inventory) ==
    /\ Attest(Receipt(inventory, Operation(inventory.base, "inventory")))
    /\ UNCHANGED <<operationClaims, knownHosts, sshClient, sent, collected, trusted,
                   inventories, sshFaults>>

\* The attestor stops after it claimed a receipt; its socket is made again.
AttestorDies(inventory) ==
    LET receipt == Receipt(inventory, Operation(inventory.base, "inventory")) IN
    /\ Approves(receipt) /\ Claimable(receipt) /\ SshFault
    /\ receiptClaims' = receiptClaims \cup {receipt}
    /\ UNCHANGED <<operationClaims, knownHosts, sshClient, sent, collected, trusted,
                   signed, inventories>>

-----------------------------------------------------------------------------
(* The environment *)

\* The independent observer records an inventory; it holds one record per id.
RecordEvidence(inventory) ==
    /\ TrustedRecords(inventory.base) = {}
    /\ trusted' = trusted \cup {TrustedEvidence(inventory)}
    /\ UNCHANGED <<operationClaims, knownHosts, sshClient, sent, collected, receiptClaims,
                   signed, inventories, sshFaults>>

\* Five minutes pass.
EvidenceAges ==
    /\ \E e \in trusted : e.fresh
    /\ SshFault
    /\ trusted' = {[e EXCEPT !.fresh = FALSE] : e \in trusted}
    /\ UNCHANGED <<operationClaims, knownHosts, sshClient, sent, collected, receiptClaims,
                   signed, inventories>>

\* A process dies: a claim, and a known-hosts file that is still empty, stay.
ClientDies(c) ==
    /\ ~ClientAt(c, "idle") /\ SshFault
    /\ Abort(c)
    /\ UNCHANGED <<operationClaims, knownHosts, sent, collected, trusted, receiptClaims,
                   signed, inventories>>

SshNext ==
    \/ \E c \in SshClients :
        \/ \E b \in Bases : BeginInventory(c, b)
        \/ ClaimOperation(c) \/ ClaimOrResolveFails(c) \/ ResolveCredential(c)
        \/ PersistHostKey(c) \/ WriteHostKey(c) \/ HostKeyRefused(c)
        \/ RunOperation(c) \/ ReleaseCredential(c) \/ ReleaseFails(c) \/ TakeResult(c)
        \/ SealInventory(c) \/ EndInventory(c) \/ ClientDies(c)
    \/ \E i \in collected : PresentReceipt(i) \/ AttestorDies(i) \/ RecordEvidence(i)
    \/ EvidenceAges

SshSpec == SshInit /\ [][SshNext]_sshVars

-----------------------------------------------------------------------------
(* Properties *)

\* Type invariant of the SSH clients, their ledger and the attestor.
SshTypeOK ==
    /\ operationClaims \subseteq Operations
    /\ knownHosts \in {"absent", "empty", "line"}
    /\ \A c \in SshClients :
        /\ sshClient[c].number \in 0..inventories
        /\ sshClient[c].next \in DOMAIN CollectionSteps
    /\ \A o \in Operations : sent[o] \in Seq(1..inventories)
    /\ \A i \in collected : i.number \in 1..inventories
    /\ sshFaults \in 0..MaxSshFaults

\* The commands of an operation are sent once, by however many processes and
\* after whatever failure the collection is tried again; an inventory that
\* passed rests only on commands that it sent itself, so that nothing observed
\* by an earlier attempt is reported as observed now; and the attestor signs an
\* inventory at most once.
InventoryIsOneRun ==
    /\ \A o \in Operations : Len(sent[o]) <= 1
    /\ \A i \in collected : i.passed =>
          \A s \in RequiredSteps \cup {"connect"} : sent[<<i.base, s>>] = <<i.number>>
    /\ \A m, n \in DOMAIN signed :
          signed[m].inventory = signed[n].inventory => m = n
    /\ \A n \in DOMAIN signed : signed[n].inventory.passed

\* The property verify_live_snapshot_receipt and the attestor are written for: an
\* inventory that passed and that the trusted evidence vouches for is sealed.
LiveInventorySeals ==
    \A c \in SshClients : ClientAt(c, "refused") => ~Vouched(SealedReceipt(c))
=============================================================================
