---------------------------- MODULE ReceiptKeys ----------------------------
(***************************************************************************)
(* The receipt signing keys of the Security Service (src/security-service/ *)
(* keyStore.js, app.js): three kinds of files, rotation, signing and       *)
(* verification.  The service is one Node process and works on the files   *)
(* with synchronous calls, so nothing runs beside a rotation; but it may   *)
(* die between any two writes.  A write is a rename: it happens or not.    *)
(***************************************************************************)
EXTENDS Naturals

CONSTANTS
  MaxVersion,   \* bound: highest key version
  MaxPairs      \* bound: how many key pairs are ever generated

ASSUME KeysAssumption == MaxVersion \in Nat \ {0} /\ MaxPairs \in Nat \ {0}

Versions == 1..MaxVersion
Pairs == 1..MaxPairs

VARIABLES
  private,     \* private key files: the pair in each version's file, 0 for no file
  public,      \* public key files
  activeFile,  \* the active-version file, 0 if there is none
  override,    \* RECEIPT_ACTIVE_KEY_VERSION of the running process, 0 if not set
  rotation,    \* the rotation under way: the next write, its version, its pair
  generated,   \* key pairs generated so far
  receipts     \* the receipts signed so far: the version they name, the pair used

files == <<private, public, activeFile>>
keyVars == <<private, public, activeFile, override, rotation, generated, receipts>>

NoRotation == [next |-> "none", version |-> 0, pair |-> 0]

KeysTypeOK ==
  /\ private \in [Versions -> 0..MaxPairs] /\ public \in [Versions -> 0..MaxPairs]
  /\ activeFile \in 0..MaxVersion /\ override \in 0..MaxVersion
  /\ rotation \in {NoRotation} \cup
       [next : {"private", "public", "active"}, version : Versions, pair : Pairs]
  /\ generated \in 0..MaxPairs
  /\ receipts \subseteq [version : Versions, pair : Pairs]

\* The service is deployed with version 1, with or without an active-version file.
KeysInit ==
  /\ private = [v \in Versions |-> IF v = 1 THEN 1 ELSE 0]
  /\ public = private
  /\ activeFile \in {0, 1}
  /\ override = 0
  /\ rotation = NoRotation
  /\ generated = 1
  /\ receipts = {}

\* getReceiptVersions: what there is a public key file of.
Published == {v \in Versions : public[v] # 0}

\* Mutant: version numbers are reused from the active one on.
LastPublishedByFile == IF activeFile # 0 THEN activeFile ELSE 1

LastPublished == CHOOSE v \in Published : \A u \in Published : u <= v

\* readActiveVersion.
ActiveVersion ==
  IF override # 0 THEN override ELSE IF activeFile # 0 THEN activeFile ELSE LastPublished

\* rotateReceiptSigningKey: the next version number, a new pair.
StartRotation ==
  /\ rotation = NoRotation
  /\ generated < MaxPairs /\ LastPublished < MaxVersion
  /\ generated' = generated + 1
  /\ rotation' = [next |-> "private", version |-> LastPublished + 1, pair |-> generated + 1]
  /\ UNCHANGED <<files, override, receipts>>

\* Mutant: the version is activated before its public key is there.
ActivatesEarly(file) == CASE file = "private" -> "active" [] file = "active" -> "public"
                          [] OTHER -> "none"

\* The order of the writes.
WriteAfter(file) == CASE file = "private" -> "public" [] file = "public" -> "active"
                      [] OTHER -> "none"

WriteFile ==
  LET v == rotation.version
      p == rotation.pair
  IN /\ \/ /\ rotation.next = "private"
           /\ private' = [private EXCEPT ![v] = p]
           /\ UNCHANGED <<public, activeFile>>
        \/ /\ rotation.next = "public"
           /\ public' = [public EXCEPT ![v] = p]
           /\ UNCHANGED <<private, activeFile>>
        \/ /\ rotation.next = "active"
           /\ activeFile' = v
           /\ UNCHANGED <<private, public>>
     /\ rotation' = IF WriteAfter(rotation.next) = "none" THEN NoRotation
                    ELSE [rotation EXCEPT !.next = WriteAfter(rotation.next)]
     /\ UNCHANGED <<override, generated, receipts>>

\* The service dies, perhaps in the middle of a rotation, and is started again
\* with an environment that names a version there is, or none.
RestartService ==
  /\ rotation' = NoRotation
  /\ override' \in {0} \cup Published
  /\ UNCHANGED <<files, generated, receipts>>

SigningPair == private[ActiveVersion]

\* sign-receipt: getActiveReceiptSigningKey refuses a version without files.
SignReceipt ==
  /\ rotation = NoRotation
  /\ public[ActiveVersion] # 0 /\ private[ActiveVersion] # 0
  /\ receipts' = receipts \cup {[version |-> ActiveVersion, pair |-> SigningPair]}
  /\ UNCHANGED <<files, override, rotation, generated>>

KeysNext == StartRotation \/ WriteFile \/ RestartService \/ SignReceipt

KeysSpec == KeysInit /\ [][KeysNext]_keyVars

\* verify-receipt: the public key of the version the receipt names.
Verifies(r) == public[r.version] = r.pair

-----------------------------------------------------------------------------
(* Properties *)

\* Every receipt ever signed verifies for ever: no rotation, finished or cut off
\* by a crash, replaces the public key its version is verified with.
ReceiptsVerify == \A r \in receipts : Verifies(r)

\* Whenever the service is not in the middle of a rotation, so also after a
\* crash in one, it has a matching pair to sign with.
ActiveCanSign ==
  rotation = NoRotation => private[ActiveVersion] # 0 /\ private[ActiveVersion] = public[ActiveVersion]
=============================================================================
