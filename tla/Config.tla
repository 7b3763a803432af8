-------------------------------- MODULE Config ------------------------------
(***************************************************************************)
(* The configuration of a program (internal/config/config.go): the JSON    *)
(* file is decoded into a structure, the defaults are filled in, the       *)
(* server's UUIDs are decoded, and only then is the result published.      *)
(*                                                                         *)
(* A file maps the keys it gives to JSON values; 0 stands for the zero     *)
(* value of a number or a string.  ip_strategy is no key of a structure    *)
(* (its field has no tag), so it is ignored like any other unknown key.    *)
(***************************************************************************)
EXTENDS Integers, Sequences, SequencesExt

CONSTANTS
  Given,           \* the keys a file can give, some of Keys
  Uuids,           \* the UUIDs a file can list: [digits, hex]
  MaxUuids         \* bound: UUIDs in a file

Durations == {"dial_timeout", "keep_alive_interval"}
Sizes == {"up_pack", "chunk_ms", "concur", "max_queue_bytes", "read_buf"}
Names == {"utls_fingerprint", "dns_server", "ech_domain"}
DnSizes == {"dn_pack", "dn_tail", "dn_qr"}

CommonKeys == Durations \cup Sizes \cup Names
Keys == CommonKeys \cup DnSizes

\* What a program runs with when its file says nothing.
Default == "default"

\* A structure that was never loaded.
Nil == "nil"

Json ==
  [kind : {"string"}, value : {0, 1}] \cup [kind : {"number"}, value : {-1, 0, 1}]

VARIABLES
  file,            \* the values of the keys the file gives
  uuids,           \* its auth_uuids
  program,         \* which program loads it
  err,             \* what the load has returned
  ClientConf,      \* the published configurations
  ServerConf,
  AuthUUIDBin      \* the UUIDs the server admits

vars == <<file, uuids, program, err, ClientConf, ServerConf, AuthUUIDBin>>

Init ==
  /\ \E keys \in SUBSET Given : file \in [keys -> Json]
  /\ uuids \in BoundedSeq(Uuids, MaxUuids)
  /\ program \in {"client", "server"}
  /\ err = "loading"
  /\ ClientConf = Nil /\ ServerConf = Nil /\ AuthUUIDBin = <<>>

\* The decoder takes a string for a string and a number for an integer, and
\* time.Duration is an integer.
Fits(key) == file[key].kind = IF key \in Names THEN "string" ELSE "number"

Decodes(keys) == \A key \in keys \cap DOMAIN file : Fits(key)

Value(key) == IF key \in DOMAIN file THEN file[key].value ELSE 0

\* setCommonDefaults replaces zero values only, negative ones stay.
CommonValue(key) == IF Value(key) = 0 THEN Default ELSE Value(key)
DnValue(key) == IF Value(key) <= 0 THEN Default ELSE Value(key)

\* A UUID has 32 hexadecimal digits once its hyphens are removed.
Decodable(u) == u.digits = 32 /\ u.hex

LoadClientConfig ==
  /\ program = "client" /\ err = "loading"
  /\ IF Decodes(CommonKeys)
     THEN /\ err' = "ok"
          /\ ClientConf' = [key \in CommonKeys |-> CommonValue(key)]
     ELSE err' = "decode" /\ UNCHANGED ClientConf
  /\ UNCHANGED <<file, uuids, program, ServerConf, AuthUUIDBin>>

LoadServerConfig ==
  /\ program = "server" /\ err = "loading"
  /\ IF Decodes(Keys) /\ \A i \in DOMAIN uuids : Decodable(uuids[i])
     THEN /\ err' = "ok"
          /\ ServerConf' = [key \in Keys |-> IF key \in DnSizes THEN DnValue(key)
                                             ELSE CommonValue(key)]
          /\ AuthUUIDBin' = uuids
     ELSE /\ err' = IF Decodes(Keys) THEN "uuid" ELSE "decode"
          /\ UNCHANGED <<ServerConf, AuthUUIDBin>>
  /\ UNCHANGED <<file, uuids, program, ClientConf>>

Next == LoadClientConfig \/ LoadServerConfig

Spec == Init /\ [][Next]_vars
-----------------------------------------------------------------------------
(* Properties *)

\* Durations are written as strings, such as "10s", everything else as the type
\* of its field, and every UUID is one.
AsDocumented ==
  /\ \A key \in DOMAIN file :
       /\ file[key].kind = IF key \in Durations \cup Names THEN "string" ELSE "number"
       /\ key \in Durations => file[key].value # 0
  /\ \A i \in DOMAIN uuids : Decodable(uuids[i])

\* A file that is written as the comment of CommonConfig asks, and as both
\* example files are, is loaded.
DocumentedLoads == AsDocumented => err \in {"loading", "ok"}
=============================================================================
