----------------------------- MODULE Keyrings -----------------------------
(* The two keyrings an operator rotates while the bank serves requests: the    *)
(* key-encryption keys (KEK) that wrap the authenticator seeds of users        *)
(* (security/crypto.py, flask rewrap-mfa-deks) and the ledger keys that sign   *)
(* transactions (security/transaction_integrity.py, flask security             *)
(* backfill-transaction-integrity).                                            *)
(*                                                                             *)
(* An envelope is the seed and the id of its KEK; a user row holds it in two   *)
(* columns, the nonce (a fixed marker, so only present or absent) and the      *)
(* ciphertext.  A started replacement keeps its envelope in the web session.   *)
(* A command reads every row in one transaction and commits in a later step;   *)
(* it is the only command an operator runs at that time, and the keyrings,     *)
(* which are read at start-up, do not change under it.                         *)
CONSTANTS People, Keks, Seeds, LedgerRows, LedgerKeys
VARIABLES kekRing, kekActive,        \* MFA_KEK_KEYS, MFA_KEK_ACTIVE_ID
          columns,                   \* the two seed columns of each user row
          enrolled,                  \* the users whose MFA is enabled
          waiting,                   \* the replacement envelope in a web session
          ledgerRing, ledgerActive,  \* TRANSACTION_LEDGER_HMAC_KEYS, ..._ACTIVE_KEY_ID
          rowKey,                    \* the key id that signs each ledger row
          command                    \* the operator's running command

keyVars == <<kekRing, kekActive, columns, enrolled, waiting>>
ledgerVars == <<ledgerRing, ledgerActive, rowKey>>
keyringVars == <<keyVars, ledgerVars, command>>

\* "absent" and "legacy" stand for no row and for a row without a key id.
ASSUME KeyringsAssumption ==
  Keks # {} /\ LedgerKeys # {} /\ "absent" \notin LedgerKeys /\ "legacy" \notin LedgerKeys

NoEnvelope == [seed |-> "none", kek |-> "none"]
Envelopes == [seed : Seeds, kek : Keks]
NoColumns == [nonce |-> FALSE, cipher |-> NoEnvelope]
NoCommand == [op |-> "none"]

KeyringsInit ==
  /\ \E k \in Keks : kekRing = {k} /\ kekActive = k
  /\ columns = [u \in People |-> NoColumns]
  /\ enrolled = {}
  /\ waiting = [u \in People |-> NoEnvelope]
  /\ \E k \in LedgerKeys : ledgerRing = {k} /\ ledgerActive = k
  /\ \E old \in SUBSET LedgerRows :
       rowKey = [r \in LedgerRows |-> IF r \in old THEN "legacy" ELSE "absent"]
  /\ command = NoCommand

-----------------------------------------------------------------------------
(* Envelopes and the customers who use them                                    *)

EncryptMfaSecret(seed) == [seed |-> seed, kek |-> kekActive]
DecryptsMfaSecret(envelope) == envelope.kek \in kekRing
IsEnveloped(row) == row.nonce /\ row.cipher # NoEnvelope
RewrapMfaDek(envelope, to) == [envelope EXCEPT !.kek = to]

\* A seed is random: no envelope anywhere holds it.
FreshSeed(s) ==
  \A u \in People : columns[u].cipher.seed # s /\ waiting[u].seed # s

GenerateMfaSetup(u, s) ==
  /\ u \notin enrolled /\ FreshSeed(s)
  /\ columns' = [columns EXCEPT ![u] = [nonce |-> TRUE, cipher |-> EncryptMfaSecret(s)]]
  /\ UNCHANGED <<kekRing, kekActive, enrolled, waiting, ledgerVars, command>>

VerifyMfaSetup(u) ==
  /\ u \notin enrolled /\ IsEnveloped(columns[u]) /\ DecryptsMfaSecret(columns[u].cipher)
  /\ enrolled' = enrolled \cup {u}
  /\ UNCHANGED <<kekRing, kekActive, columns, waiting, ledgerVars, command>>

\* The fresh code that authorises a replacement is checked against the stored
\* seed, which must therefore decrypt.
GenerateMfaReplacement(u, s) ==
  /\ u \in enrolled /\ FreshSeed(s)
  /\ IsEnveloped(columns[u]) /\ DecryptsMfaSecret(columns[u].cipher)
  /\ waiting' = [waiting EXCEPT ![u] = EncryptMfaSecret(s)]
  /\ UNCHANGED <<kekRing, kekActive, columns, enrolled, ledgerVars, command>>

StoreReplacement(u) ==
  /\ columns' = [columns EXCEPT ![u] = [nonce |-> TRUE, cipher |-> waiting[u]]]
  /\ waiting' = [waiting EXCEPT ![u] = NoEnvelope]
  /\ UNCHANGED <<kekRing, kekActive, enrolled, ledgerVars, command>>

\* Mutant: the replacement is stored without opening its envelope.
VerifyUnread(u) == u \in enrolled /\ waiting[u] # NoEnvelope /\ StoreReplacement(u)

VerifyMfaReplacement(u) ==
  /\ u \in enrolled /\ waiting[u] # NoEnvelope
  /\ DecryptsMfaSecret(waiting[u])
  /\ StoreReplacement(u)

\* A replacement that is too old, or no longer decrypts, is dropped when it is
\* next looked at.
DropReplacement(u) ==
  /\ u \in enrolled /\ waiting[u] # NoEnvelope
  /\ waiting' = [waiting EXCEPT ![u] = NoEnvelope]
  /\ UNCHANGED <<kekRing, kekActive, columns, enrolled, ledgerVars, command>>

\* A recovery or an administrator clears the factor; the sessions end with it.
ResetMfa(u) ==
  /\ columns' = [columns EXCEPT ![u] = NoColumns]
  /\ enrolled' = enrolled \ {u}
  /\ waiting' = [waiting EXCEPT ![u] = NoEnvelope]
  /\ UNCHANGED <<kekRing, kekActive, ledgerVars, command>>

-----------------------------------------------------------------------------
(* flask rewrap-mfa-deks                                                       *)

ValidateMfaRewrapPreflight(from, to) == from # to /\ {from, to} \subseteq kekRing

RewrapBegin(from, to) ==
  /\ command = NoCommand
  /\ ValidateMfaRewrapPreflight(from, to)
  /\ command' = [op |-> "rewrap", from |-> from, to |-> to, seen |-> columns]
  /\ UNCHANGED <<keyVars, ledgerVars>>

\* A row that was read under another KEK, or with no envelope, is skipped.  The
\* unit of work writes the ciphertext alone: the nonce keeps its marker.
Rewrapped(u, row) ==
  IF IsEnveloped(row) /\ row.cipher.kek = command.from
    THEN [columns[u] EXCEPT !.cipher = RewrapMfaDek(row.cipher, command.to)]
    ELSE columns[u]

RewrapCommit ==
  /\ command.op = "rewrap"
  /\ columns' = [u \in People |-> Rewrapped(u, command.seen[u])]
  /\ command' = NoCommand
  /\ UNCHANGED <<kekRing, kekActive, enrolled, waiting, ledgerVars>>

\* A failed row, a failed commit and a dry run all roll back.
CommandRollsBack ==
  /\ command # NoCommand
  /\ command' = NoCommand
  /\ UNCHANGED <<keyVars, ledgerVars>>

-----------------------------------------------------------------------------
(* flask security backfill-transaction-integrity                               *)

\* Every new transaction is signed by the active key.
RecordTransfer(r) ==
  /\ rowKey[r] = "absent"
  /\ rowKey' = [rowKey EXCEPT ![r] = ledgerActive]
  /\ UNCHANGED <<keyVars, ledgerRing, ledgerActive, command>>

TransactionIntegrityStatus(key) == IF key \in ledgerRing THEN "valid" ELSE "invalid"

\* The rows are locked as they are read; rows recorded later are not among
\* them.  One signed row that does not verify stops the command.
BackfillBegin ==
  LET rows == {r \in LedgerRows : rowKey[r] # "absent"}
      legacy == {r \in rows : rowKey[r] = "legacy"}
  IN  /\ command = NoCommand
      /\ \A r \in rows \ legacy : TransactionIntegrityStatus(rowKey[r]) = "valid"
      /\ command' = [op |-> "backfill", rows |-> rows, legacy |-> legacy]
      /\ UNCHANGED <<keyVars, ledgerVars>>

BackfillCommit ==
  /\ command.op = "backfill"
  /\ rowKey' = [r \in LedgerRows |->
                  IF r \in command.legacy THEN ledgerActive ELSE rowKey[r]]
  /\ command' = NoCommand
  /\ UNCHANGED <<keyVars, ledgerRing, ledgerActive>>

-----------------------------------------------------------------------------
(* The operator changes a keyring, and restarts the service, between commands: *)
(* a key is removed once it is not active and nothing stored refers to it.     *)

AddKek(k) ==
  /\ command = NoCommand
  /\ kekRing' = kekRing \cup {k}
  /\ UNCHANGED <<kekActive, columns, enrolled, waiting, ledgerVars, command>>

ActivateKek(k) ==
  /\ command = NoCommand /\ k \in kekRing
  /\ kekActive' = k
  /\ UNCHANGED <<kekRing, columns, enrolled, waiting, ledgerVars, command>>

RemoveKek(k) ==
  /\ command = NoCommand /\ k # kekActive
  /\ \A u \in People : columns[u].cipher.kek # k
  /\ kekRing' = kekRing \ {k}
  /\ UNCHANGED <<kekActive, columns, enrolled, waiting, ledgerVars, command>>

AddLedgerKey(k) ==
  /\ command = NoCommand
  /\ ledgerRing' = ledgerRing \cup {k}
  /\ UNCHANGED <<keyVars, ledgerActive, rowKey, command>>

ActivateLedgerKey(k) ==
  /\ command = NoCommand /\ k \in ledgerRing
  /\ ledgerActive' = k
  /\ UNCHANGED <<keyVars, ledgerRing, rowKey, command>>

RemoveLedgerKey(k) ==
  /\ command = NoCommand /\ k # ledgerActive
  /\ \A r \in LedgerRows : rowKey[r] # k
  /\ ledgerRing' = ledgerRing \ {k}
  /\ UNCHANGED <<keyVars, ledgerActive, rowKey, command>>

KekNext ==
  \/ \E u \in People, s \in Seeds : GenerateMfaSetup(u, s) \/ GenerateMfaReplacement(u, s)
  \/ \E u \in People : VerifyMfaSetup(u) \/ VerifyMfaReplacement(u)
                         \/ DropReplacement(u) \/ ResetMfa(u)
  \/ \E from, to \in Keks : RewrapBegin(from, to)
  \/ RewrapCommit \/ CommandRollsBack
  \/ \E k \in Keks : AddKek(k) \/ ActivateKek(k) \/ RemoveKek(k)

LedgerNext ==
  \/ \E r \in LedgerRows : RecordTransfer(r)
  \/ BackfillBegin \/ BackfillCommit \/ CommandRollsBack
  \/ \E k \in LedgerKeys : AddLedgerKey(k) \/ ActivateLedgerKey(k) \/ RemoveLedgerKey(k)

KeyringsNext == KekNext \/ LedgerNext

KeyringsSpec == KeyringsInit /\ [][KeyringsNext]_keyringVars

-----------------------------------------------------------------------------
(* Properties                                                                  *)

\* Types of the keyrings, the stored envelopes and the signed rows; an active
\* key is always one of its ring.
KeyringsTypeOK ==
  /\ kekRing \subseteq Keks /\ kekActive \in kekRing
  /\ columns \in [People -> [nonce : BOOLEAN, cipher : Envelopes \cup {NoEnvelope}]]
  /\ enrolled \subseteq People
  /\ waiting \in [People -> Envelopes \cup {NoEnvelope}]
  /\ ledgerRing \subseteq LedgerKeys /\ ledgerActive \in ledgerRing
  /\ rowKey \in [LedgerRows -> LedgerKeys \cup {"legacy", "absent"}]

\* Whatever enrolments, replacements and resets overlap a rotation, the KEK of
\* every stored envelope is still configured, so no customer loses the factor to
\* a rotated key (crypto.py _unwrap_dek; OPERATIONS.md "Keep old KEKs ... until
\* rewrap-mfa-deks has moved stored records").
SecretsReadable == \A u \in People : IsEnveloped(columns[u]) => DecryptsMfaSecret(columns[u].cipher)

\* A signed ledger row is never signed again, and its key stays configured: the
\* backfill touches legacy rows alone, and rotation keeps what it has signed
\* verifiable (ops/commands.py _backfill_transaction_integrity).
SignedRowsStand ==
  [][\A r \in LedgerRows : rowKey[r] \in LedgerKeys =>
       rowKey'[r] = rowKey[r] /\ rowKey[r] \in ledgerRing']_keyringVars

\* "Rewrap envelope DEKs without re-encrypting TOTP secret ciphertext"
\* (ops/commands.py rewrap_mfa_deks): the command changes which KEK wraps a
\* seed, never which seed a user has.
RewrapKeepsSecret ==
  [][RewrapCommit => \A u \in People : IsEnveloped(columns[u]) =>
       columns'[u].cipher.seed = columns[u].cipher.seed]_keyringVars
=============================================================================
