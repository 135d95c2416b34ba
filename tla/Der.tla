--------------------------------- MODULE Der ---------------------------------
(***************************************************************************)
(* Encoded structures as bcder's encoders and decoders see them: a         *)
(* sequence of elements <<tag, body>>.  The body of a SEQUENCE, a SET or   *)
(* an explicit tag is a sequence of elements again, that of a primitive    *)
(* element its value.  A structure that nobody looks into is one element   *)
(* that names its type (Opaque).                                           *)
(*                                                                         *)
(* Bytes are elements together with their form: "der", or "ber" for an     *)
(* encoding that only a BER decoder accepts (an indefinite length, a       *)
(* constructed string).                                                    *)
(***************************************************************************)
EXTENDS Naturals, Sequences, FiniteSets, SequencesExt

CONSTANTS
  None,       (* Option::None                                              *)
  Malformed,  (* what a decoder returns when it fails                      *)
  BerOnly     (* captured values whose bytes are BER and not DER           *)

Opaque(type, value) == << <<type, value>> >>

(* The value of an opaque structure of this type. *)
Within(type, body) ==
  IF body = None THEN None
    ELSE IF Len(body) = 1 /\ body[1][1] = type THEN body[1][2] ELSE Malformed

(* What an encoder writes: one row after the other, if its value is there. *)
Present(rows) ==
  LET written[i \in 0..Len(rows)] ==
        IF i = 0 THEN <<>>
          ELSE IF rows[i][2] = None THEN written[i - 1] ELSE Append(written[i - 1], rows[i])
  IN  written[Len(rows)]

(* A body that is written only if a value is there. *)
Explicit(tag, body) == IF body = None THEN None ELSE << <<tag, body>> >>
Inner(tag, body) ==
  IF body = None THEN None
    ELSE IF Len(body) = 1 /\ body[1][1] = tag THEN body[1][2] ELSE Malformed

One(tag) == [tag |-> tag, optional |-> FALSE]
Opt(tag) == [tag |-> tag, optional |-> TRUE]

(* cons.take_from(tag) or cons.take_opt_from(tag): the next element, if it *)
(* has the tag.                                                            *)
TakeRow(state, elements, row) ==
  LET next == state.taken + 1
  IN  IF state.taken < Len(elements) /\ elements[next][1] = row.tag
        THEN [taken |-> next, got |-> Append(state.got, elements[next][2])]
        ELSE [taken |-> state.taken, got |-> Append(state.got, None)]

(* The bodies that a decoder of these rows gets.  It fails when one that   *)
(* must be there is missing, and take_sequence when anything is left over. *)
AllTaken(end, rows, elements) ==
  IF end.taken = Len(elements) /\ \A i \in DOMAIN rows : end.got[i] = None => rows[i].optional
    THEN end.got ELSE Malformed

Fields(rows, elements) ==
  LET read[i \in 0..Len(rows)] ==
        IF i = 0 THEN [taken |-> 0, got |-> <<>>] ELSE TakeRow(read[i - 1], elements, rows[i])
  IN  AllTaken(read[Len(rows)], rows, elements)

(* A value all of whose fields, or elements, could be decoded. *)
Sound(v) == IF \E field \in DOMAIN v : v[field] = Malformed THEN Malformed ELSE v

(* A decoder of these rows, and the value it makes of their bodies. *)
Made(f, Value(_)) == IF f = Malformed THEN Malformed ELSE Sound(Value(f))

Decoded(rows, elements, Value(_)) == Made(Fields(rows, elements), Value)

(* A decoded value, and the checks that are made of it afterwards. *)
Obeying(v, Rules(_)) ==
  IF v = Malformed THEN Malformed ELSE IF Rules(v) THEN v ELSE Malformed

(* An optional body, decoded if it is there. *)
Optional(body, Item(_)) == IF body \in {None, Malformed} THEN body ELSE Item(body)

OneOf(values, v) == IF v \in values THEN v ELSE Malformed

(* The elements all have this tag. *)
AllTagged(elements, tag) == \A i \in DOMAIN elements : elements[i][1] = tag

(* Whether a body is made of elements. *)
IsSequence(s) == IsFiniteSet(DOMAIN s) /\ DOMAIN s = 1..Cardinality(DOMAIN s)

(* Any number of elements of a tag, each decoded; a body that is not made  *)
(* of elements, that of a primitive, is refused.                           *)
DecodeEach(tag, body, Item(_)) ==
  IF IsSequence(body) /\ AllTagged(body, tag) THEN Sound([i \in DOMAIN body |-> Item(body[i][2])]) ELSE Malformed

(* Captured elements of a type: any number of them, kept as they are. *)
DecodeOpaqueList(type, body) ==
  Optional(body, LAMBDA b : DecodeEach("SEQUENCE", b, LAMBDA v : Within(type, v)))

EncodeOpaqueList(type, values) ==
  IF values = None THEN None
    ELSE [i \in DOMAIN values |-> <<"SEQUENCE", Opaque(type, values[i])>>]
==============================================================================
