------------------------------- MODULE Signer -------------------------------
(***************************************************************************)
(* op-signer: the start and the stop of the application, and concurrent    *)
(* requests for signatures of transactions and of block payloads, each of  *)
(* which goes twice to the key service, whose answers may be corrupted or  *)
(* belong to something else.                                               *)
(***************************************************************************)
EXTENDS Integers, Sequences, FiniteSets

CONSTANTS
  SignRequests,  \* concurrent requests
  Auth,          \* config.Auth, a sequence: client, key, from, chain, to, max
  Keys,          \* keys of the service; a key is also its address
  Args           \* what may be asked for: kind, client, from, chain, to, value, digest,
                 \* and whether Check and the conversion to what is signed accept it

\* An entry has an address (common.Address); "" is the nil of a request's.
ASSUME SignerAssumption ==
  /\ Auth \in Seq({Auth[i] : i \in DOMAIN Auth})
  /\ \A i \in DOMAIN Auth : Auth[i].key \in Keys /\ Auth[i].from # "" /\ Auth[i].max \in Int
  /\ \A a \in Args : a.kind \in {"transaction", "block_payload"} /\ a.value \in Nat /\ a.valid \in BOOLEAN

VARIABLES
  app,      \* servers of the application that run, and how far init or Stop is
  signing   \* each request: step, arguments, public key, answer

sgVars == <<app, signing>>

NoSignature == [key |-> "", digest |-> "", high |-> FALSE]
NotAsked == [at |-> "none", args |-> <<>>, key |-> "", pub |-> "", sig |-> NoSignature]
Parts == <<"pprof", "metrics", "rpc">>

SgInit ==
  /\ app = [at |-> "init", next |-> 1, running |-> {}]
  /\ signing = [r \in SignRequests |-> NotAsked]

-----------------------------------------------------------------------------
(* app.go. *)

\* initPprof, initMetrics and initRPC, in this order; one may be disabled.
InitPart ==
  /\ app.at = "init" /\ app.next <= Len(Parts)
  /\ \/ app' = [app EXCEPT !.next = @ + 1, !.running = @ \union {Parts[app.next]}]
     \/ Parts[app.next] # "rpc" /\ app' = [app EXCEPT !.next = @ + 1]
  /\ UNCHANGED signing

\* One of them fails: InitFromConfig stops what is there.
InitFails ==
  /\ app.at = "init" /\ app.next <= Len(Parts)
  /\ app' = [app EXCEPT !.at = "stopping"]
  /\ UNCHANGED signing

AppStarted ==
  /\ app.at = "init" /\ app.next > Len(Parts)
  /\ app' = [app EXCEPT !.at = "started"]
  /\ UNCHANGED signing

\* Stop: the RPC server, the profiler, the metrics, whatever each one answers.
Stop ==
  /\ app.at \in {"started", "stopping"}
  /\ app' = [app EXCEPT !.at = "stopped", !.running = {}]
  /\ UNCHANGED signing

-----------------------------------------------------------------------------
(* service.go, config.go, auth.go. *)

\* The first entry of the client with that address, if one is given; 0 if none.
GetAuthConfigForClient(client, from) ==
  LET fits == {i \in DOMAIN Auth : Auth[i].client = client /\ from \in {"", Auth[i].from}}
  IN IF client = "" \/ fits = {} THEN 0 ELSE CHOOSE i \in fits : \A j \in fits : i <= j

\* The entry that a request is judged by.
AuthOf(a) == GetAuthConfigForClient(a.client, IF a.kind = "transaction" THEN "" ELSE a.from)

\* The checks before the signature.  The client has shown a certificate of its
\* name; 0 is the code's missing MaxValue, {} its missing ToAddresses.
Authorized(a) ==
  LET c == Auth[AuthOf(a)]
  IN /\ a.client # "" /\ AuthOf(a) # 0 /\ a.valid
     /\ IF a.kind = "transaction"
          THEN (c.to # {} => a.to \in c.to) /\ (c.max # 0 => a.value <= c.max)
          ELSE a.from = c.from /\ a.chain = c.chain

\* SignTransaction and SignBlockPayload up to SignDigest.
Sign(r, a) ==
  /\ app.at = "started" /\ "rpc" \in app.running /\ signing[r].at = "none"
  /\ signing' = [signing EXCEPT ![r] =
       [NotAsked EXCEPT !.args = a,
                        !.at = IF Authorized(a) THEN "public key" ELSE "refused",
                        !.key = IF Authorized(a) THEN Auth[AuthOf(a)].key ELSE ""]]
  /\ UNCHANGED app

-----------------------------------------------------------------------------
(* provider/cloudkms.go. *)

\* GetPublicKey: a key whose checksum fits, or an error.
GetPublicKey(r) ==
  /\ signing[r].at = "public key"
  /\ \E pub \in Keys, crc \in BOOLEAN :
       signing' = [signing EXCEPT ![r].at = IF crc THEN "sign" ELSE "failed",
                                  ![r].pub = IF crc THEN pub ELSE ""]
  /\ UNCHANGED app

Digests == {a.digest : a \in Args}

\* AsymmetricSign: a signature that passes the checks of the answer, or not.
AsymmetricSign(r) ==
  /\ signing[r].at = "sign"
  /\ \E key \in Keys, digest \in Digests, high \in BOOLEAN, name \in Keys, verified \in BOOLEAN, crc \in BOOLEAN :
       LET intact == name = signing[r].key /\ verified /\ crc
       IN signing' = [signing EXCEPT
            ![r].at = IF intact THEN "convert" ELSE "failed",
            ![r].sig = IF intact THEN [key |-> key, digest |-> digest, high |-> high] ELSE NoSignature]
  /\ UNCHANGED app

\* Mutant of VerifySignature: taken for granted.
VerifySignatureAlways(pub, digest, sig) == TRUE
VerifySignature(pub, digest, sig) == sig.key = pub /\ sig.digest = digest

\* A high S is lowered before the checks and the search of the recovery id; the
\* sender recovered from a transaction must be the one asked for, if any.
convertToCompactRecoverableSignature(r) ==
  LET a == signing[r].args
      sig == [signing[r].sig EXCEPT !.high = FALSE]
      good == /\ VerifySignature(signing[r].pub, a.digest, sig)
              /\ a.kind = "transaction" => a.from \in {"", sig.key}
  IN /\ signing[r].at = "convert"
     /\ signing' = [signing EXCEPT ![r].at = IF good THEN "signed" ELSE "failed",
                                   ![r].sig = IF good THEN sig ELSE NoSignature]
     /\ UNCHANGED app

SgNext ==
  \/ InitPart \/ InitFails \/ AppStarted \/ Stop
  \/ \E r \in SignRequests :
       \/ \E a \in Args : Sign(r, a)
       \/ GetPublicKey(r) \/ AsymmetricSign(r) \/ convertToCompactRecoverableSignature(r)

SgSpec == SgInit /\ [][SgNext]_sgVars

-----------------------------------------------------------------------------
(* Properties. *)

\* A signature that is returned is one of the digest asked for, in low form,
\* that verifies with the public key read for the request, and for a block
\* payload that key's entry names the sender and the chain of the request.  A
\* payload that is valid is never refused because of the client's entries for
\* other addresses.
SignedAsAsked ==
  \A r \in SignRequests :
    LET a == signing[r].args  s == signing[r].sig
        mine == {i \in DOMAIN Auth : Auth[i].client = a.client /\ Auth[i].from = a.from}
    IN /\ signing[r].at = "signed" =>
            /\ s.digest = a.digest /\ s.key = signing[r].pub /\ ~s.high
            /\ a.kind = "transaction" => a.from \in {"", s.key}
            /\ \E i \in DOMAIN Auth :
                 /\ Auth[i].client = a.client /\ Auth[i].key = signing[r].key
                 /\ a.kind = "block_payload" => Auth[i].from = a.from /\ Auth[i].chain = a.chain
       /\ signing[r].at = "refused" /\ a.kind = "block_payload" /\ a.valid =>
            mine = {} \/ a.client = "" \/ \E i \in mine : Auth[i].chain # a.chain
=============================================================================
