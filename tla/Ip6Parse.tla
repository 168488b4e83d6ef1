------------------------------ MODULE Ip6Parse -------------------------------
(***************************************************************************)
(* unformat_ip6_address (udp-echo/main.c), which session_connected_handler *)
(* uses through unformat_uri on the URI of a connect: a scanner with a     *)
(* handful of counters that stores quads as it goes and moves those behind *)
(* the "::" to the end.                                                    *)
(*                                                                         *)
(* A pure algorithm, for any number of quads and of digits in a quad; the  *)
(* code has 8 and 4, and base 16.  A character is a digit's value, COLON,  *)
(* or anything else, which ends the address.                               *)
(***************************************************************************)
EXTENDS Integers, SequencesExt, FiniteSetsExt

CONSTANTS
    Quads,       \* ARRAY_LEN(hex_quads)
    QuadDigits,  \* hex digits in a quad
    Base         \* 16

ASSUME ParseAssumption ==
    Quads \in Nat \ {0} /\ QuadDigits \in Nat \ {0} /\ Base \in Nat \ {0, 1}

Digits == 0..(Base - 1)
COLON  == -1
Alphabet == Digits \cup {COLON}

-----------------------------------------------------------------------------
(* The scanner: stored are hex_quads[0 .. n_hex_quads-1], colons is        *)
(* n_colon, double is double_colon_index; rest holds the characters left   *)
(* to the caller once the scanner has stopped.                             *)
Start6 ==
    [result |-> "scan", stored |-> <<>>, quad |-> 0, digits |-> 0,
     colons |-> 0, double |-> Quads, rest |-> <<>>]

(* The colon that was just read makes a "::".                              *)
SaveDoubleColon(st) ==
    IF st.colons # 2 THEN st
    ELSE IF st.double < Quads THEN [st EXCEPT !.result = "fail"]
    ELSE [st EXCEPT !.double = Len(st.stored)]

EndQuadMutant(st) ==  \* hex_quad is not cleared
    IF st.digits = 0 THEN st
    ELSE [st EXCEPT !.stored = Append(@, st.quad), !.digits = 0]

(* A colon ends a quad.                                                    *)
EndQuad(st) ==
    IF st.digits = 0 THEN st
    ELSE [st EXCEPT !.stored = Append(@, st.quad), !.quad = 0, !.digits = 0]

(* One turn of the while loop, for the character c.                        *)
Scan(st, c) ==
    IF st.result = "fail" THEN st
    ELSE IF st.result = "stop" \/ c \notin Alphabet \/ (c = COLON /\ st.colons = 2)
      THEN [st EXCEPT !.result = "stop", !.rest = Append(@, c)]
    ELSE IF Len(st.stored) >= Quads \/ (c # COLON /\ st.digits >= QuadDigits)
      THEN [st EXCEPT !.result = "fail"]
    ELSE IF c = COLON
      THEN EndQuad(SaveDoubleColon([st EXCEPT !.colons = @ + 1]))
    ELSE [st EXCEPT !.quad = @ * Base + c, !.digits = @ + 1, !.colons = 0]

(* The quads after the "::" was expanded to zeros.                         *)
Expand(quads, double) ==
    IF double = Quads THEN quads
    ELSE SubSeq(quads, 1, double)
            \o [i \in 1..(Quads - Len(quads)) |-> 0]
            \o SubSeq(quads, double + 1, Len(quads))

Fails == [ok |-> FALSE, addr |-> <<>>, rest |-> <<>>]

Unformat(text) ==
    LET st    == FoldLeft(Scan, Start6, text)
        last  == EndQuad(st)
        quads == Expand(last.stored, last.double)
    IN  IF st.result = "fail" \/ Len(quads) < Quads THEN Fails
        ELSE [ok |-> TRUE, addr |-> quads, rest |-> st.rest]

(* In a URI the address is followed by a slash.                            *)
Understood(text) == Unformat(text).ok /\ Unformat(text).rest = <<>>

-----------------------------------------------------------------------------
(* The textual form of an address, stated without the scanner: groups of   *)
(* digits joined by colons, where a "::" stands for groups of zeros.       *)

Groups == UNION {[1..n -> Digits] : n \in 1..QuadDigits}
Value(group) == FoldLeft(LAMBDA v, d : v * Base + d, 0, group)
Values(gs) == [i \in DOMAIN gs |-> Value(gs[i])]

GroupSeqs(n) == [1..n -> Groups]

Join(gs) ==
    FoldLeft(LAMBDA text, g : (IF text = <<>> THEN <<>> ELSE Append(text, COLON)) \o g,
             <<>>, gs)

Zeros(n) == [i \in 1..n |-> 0]

(* Addresses written in full, and those with "::" for at least zeros many  *)
(* groups.                                                                 *)
Full == {[text |-> Join(gs), addr |-> Values(gs)] : gs \in GroupSeqs(Quads)}
Short(zeros) ==
    UNION {{[text |-> Join(l) \o <<COLON, COLON>> \o Join(r),
             addr |-> Values(l) \o Zeros(Quads - n[1] - n[2]) \o Values(r)] :
                l \in GroupSeqs(n[1]), r \in GroupSeqs(n[2])} :
           n \in {p \in (0..Quads) \X (0..Quads) : p[1] + p[2] + zeros =< Quads}}

(* Every address in its textual form is understood as what it says.        *)
Complete ==
    \A a \in Full \cup Short(1) : Understood(a.text) /\ Unformat(a.text).addr = a.addr

(* Whatever else is understood is such an address with a lone colon before *)
(* or behind it, or with a "::" that stands for no group at all.           *)
Sound ==
    LET forms   == Full \cup Short(0)
        longest == Quads * (QuadDigits + 1) + 1
        texts   == UNION {[1..n -> Alphabet] : n \in 0..(longest - 1)}
        Before(t) == IF t # <<>> /\ Head(t) = COLON THEN Tail(t) ELSE t
        Behind(t) == IF t # <<>> /\ t[Len(t)] = COLON
                     THEN SubSeq(t, 1, Len(t) - 1) ELSE t
        Spelt(t) == \E u \in {t, Before(t), Behind(t), Before(Behind(t))} :
                        [text |-> u, addr |-> Unformat(t).addr] \in forms
    IN  \A t \in texts : Understood(t) => Spelt(t)
=============================================================================
