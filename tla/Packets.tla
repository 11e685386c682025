------------------------------ MODULE Packets ------------------------------
(***************************************************************************)
(* VarInts (protocol/varint.rs: 7 bits a byte, least significant first, at *)
(* most 5 bytes) and the packets framed by them.  A byte is a number below *)
(* 256.                                                                    *)
(***************************************************************************)
EXTENDS Integers, Sequences

LOCAL INSTANCE FiniteSetsExt

Incomplete == [ok |-> FALSE, error |-> "Incomplete", value |-> 0, used |-> 0]

TooBig == [Incomplete EXCEPT !.error = "TooBig"]

\* The value of 5 groups of 7 bits as an i32: the top 3 bits of the last are shifted out.
Signed(d) ==
    d[1] + d[2] * 2^7 + d[3] * 2^14 + d[4] * 2^21
      + (IF d[5] % 16 >= 8 THEN (d[5] % 16) - 16 ELSE d[5] % 16) * 2^28

read_var_int(b) ==
    LET ends == {i \in 1..Min({5, Len(b)}) : b[i] < 128}
        n == Min(ends)
    IN  IF ends # {}
          THEN [ok |-> TRUE, error |-> "none", used |-> n,
                value |-> Signed([i \in 1..5 |-> IF i <= n THEN b[i] % 128 ELSE 0])]
          ELSE IF Len(b) < 5 THEN Incomplete ELSE TooBig

write_var_int(v) ==
    LET digit == [i \in 1..5 |-> IF i < 5 THEN (v \div 2^(7 * (i - 1))) % 128
                                 ELSE (v \div 2^28) % 16]
        n == Max({1} \cup {i \in 1..5 : digit[i] # 0})
    IN  [i \in 1..n |-> IF i < n THEN digit[i] + 128 ELSE digit[i]]

length_prefix(payload) == write_var_int(Len(payload)) \o payload

encode_handshake(h) ==
    length_prefix(<<0>> \o write_var_int(h.protocol) \o write_var_int(Len(h.host)) \o h.host
                  \o <<h.port \div 256, h.port % 256>> \o write_var_int(h.next))
=============================================================================
