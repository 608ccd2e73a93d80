------------------------------ MODULE Records ------------------------------
(***************************************************************************)
(* Signed records: what crates/sqns-core/src/record.rs says a record is,   *)
(* when it is good, when it runs out and which of two records wins.        *)
(*                                                                         *)
(* A key is a member of PubKey.  A signature is modelled by the key that   *)
(* made it: `signed_by' for the record, `delegated_by' for the delegation  *)
(* inside it.  A signature that does not verify is one made by another     *)
(* key.  The endpoint list of a live record is modelled by its length,     *)
(* the reason of a retirement is left out, and so is the byte encoding.    *)
(***************************************************************************)
EXTENDS Naturals

CONSTANTS
    PubKey,         \* Ed25519 public keys: service keys and identities
    NoKey,          \* the absent key (None)
    NoRecord,       \* the absent record (None)
    U64Max,         \* u64::MAX, which is also NEVER_EXPIRES
    MaxEndpoints,   \* MAX_ENDPOINTS
    MinTtl,         \* MIN_TTL
    MaxTtl,         \* MAX_TTL
    MaxClockSkew    \* MAX_CLOCK_SKEW

ASSUME BoundsAssumption ==
    /\ U64Max \in Nat
    /\ MaxEndpoints \in Nat
    /\ MinTtl \in Nat \ {0}
    /\ MaxTtl \in Nat
    /\ MinTtl <= MaxTtl
    /\ MaxClockSkew \in Nat

Terminal == {"superseded", "revoked"}

(* SignedRecord, with the Record and the Delegation inside it flattened.   *)
Record ==
    [key          : PubKey,
     identity     : PubKey,
     not_after    : Nat,
     delegated_by : PubKey,
     serial       : Nat,
     issued_at    : Nat,
     ttl          : Nat,
     body         : {"live"} \union Terminal,
     endpoints    : Nat,
     successor    : PubKey \union {NoKey},
     signed_by    : PubKey]

ASSUME SentinelAssumption ==
    /\ NoKey \notin PubKey
    /\ NoRecord \notin Record

(***************************************************************************)
(* Record.                                                                 *)
(***************************************************************************)
is_terminal(r) == r.body \in Terminal

expected_signer(r) == IF is_terminal(r) THEN r.identity ELSE r.key

(* saturating_add: a sum past u64::MAX stays at u64::MAX.                  *)
expires_at(r) ==
    IF is_terminal(r) \/ r.issued_at + r.ttl > U64Max
    THEN U64Max
    ELSE r.issued_at + r.ttl

is_expired(r, now) == ~is_terminal(r) /\ now >= expires_at(r)

(* A lexicographic comparison of (serial, issued_at), strict.              *)
newer(r, s) ==
    \/ r.serial > s.serial
    \/ r.serial = s.serial /\ r.issued_at > s.issued_at

supersedes(r, s) ==
    /\ ~is_terminal(s)
    /\ is_terminal(r) \/ newer(r, s)

validate(r) ==
    /\ r.identity # r.key
    /\ r.body = "live" => r.endpoints <= MaxEndpoints /\ r.ttl \in MinTtl .. MaxTtl
    /\ r.body = "superseded" => r.successor \in PubKey \ {r.key}

(***************************************************************************)
(* Delegation and SignedRecord.                                            *)
(***************************************************************************)
delegation_expired(r, now) == r.not_after # U64Max /\ now >= r.not_after

verify(r) == r.delegated_by = r.identity /\ r.signed_by = expected_signer(r)
=============================================================================
