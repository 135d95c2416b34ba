-------------------------------- MODULE Names --------------------------------
(***************************************************************************)
(* X.501 names and general names (rfc3280.rs): a name is a sequence of     *)
(* relative distinguished names, each a sequence of attributes of a type   *)
(* and a captured value, which is an element of any tag.                   *)
(***************************************************************************)
EXTENDS Der

CONSTANTS
  Text,           (* strings                                               *)
  PrintableText,  (* the strings PrintableString has the characters of     *)
  TwoOctets       (* the strings of two octets                             *)

ASSUME TextAssumption ==
  /\ PrintableText \subseteq Text /\ TwoOctets \subseteq Text
  /\ None \notin Text /\ Malformed \notin Text

Attribute(typ, value) == [typ |-> typ, value |-> value]

EncodeAttribute(a) == << <<"OID", a.typ>>, a.value >>

(* Exactly one value, of any tag, captured. *)
DecodeAttribute(elements) ==
  IF Len(elements) = 2 /\ elements[1][1] = "OID"
    THEN Attribute(elements[1][2], elements[2]) ELSE Malformed

EncodeRdn(rdn) == [i \in DOMAIN rdn |-> <<"SEQUENCE", EncodeAttribute(rdn[i])>>]

(* A SET OF in the order it is written in, which no decoder looks at. *)
DecodeRdn(body) == DecodeEach("SEQUENCE", body, DecodeAttribute)

EncodeName(name) == [i \in DOMAIN name |-> <<"SET", EncodeRdn(name[i])>>]

DecodeName(body) == DecodeEach("SET", body, DecodeRdn)

(* iter_attributes. *)
Attributes(name) == FlattenSeq(name)

----------------------------------------------------------------------------
(* Reading a name. *)

(* iter_by_oid, find_attribute and its special cases. *)
ByOid(name, oid) ==
  LET all == Attributes(name)
  IN  FlattenSeq([i \in DOMAIN all |-> IF all[i].typ = oid THEN <<all[i]>> ELSE <<>>])

(* AttributeValue::to_string: the string types it tries, in its order,     *)
(* each of which has its characters.  The last resort, a DirectoryString,  *)
(* decodes two of them again.                                              *)
StringTags == <<"NumericString", "PrintableString", "Utf8String", "Ia5String">>

AttributeText(value) ==
  LET characters == IF value[1] = "PrintableString" THEN PrintableText ELSE Text
  IN  IF Contains(StringTags, value[1]) /\ value[2] \in characters THEN value[2] ELSE Malformed

(* find_first_attribute_string, subject_common_name. *)
FirstString(name, oid) ==
  LET found == ByOid(name, oid)
  IN  IF found = <<>> THEN None ELSE AttributeText(found[1].value)

(* user_friendly_str prints these types, in this order. *)
FriendlyOrder == <<"CN", "OU", "O", "L", "S", "C">>

UserFriendly(name) ==
  LET printed == FlattenSeq([i \in DOMAIN FriendlyOrder |-> ByOid(name, FriendlyOrder[i])])
  IN  IF \E i \in DOMAIN printed : AttributeText(printed[i].value) = Malformed THEN Malformed
        ELSE [i \in DOMAIN printed |-> <<printed[i].typ, AttributeText(printed[i].value)>>]

----------------------------------------------------------------------------
(* Changing a name. *)

(* new_printable_string and new_utf8_string: any string is UTF-8. *)
NewPrintable(s) == IF s \in PrintableText THEN <<"PrintableString", s>> ELSE Malformed
NewUtf8(s) == <<"Utf8String", s>>

(* Every append_ method adds an RDN of one attribute at the end, or leaves *)
(* the name as it is and fails.                                            *)
AppendValue(name, oid, value) ==
  IF value = Malformed THEN name ELSE Append(name, << Attribute(oid, value) >>)

AppendUtf8String(name, oid, s) == AppendValue(name, oid, NewUtf8(s))
AppendPrintableString(name, oid, s) == AppendValue(name, oid, NewPrintable(s))

M_AppendCountryPrintable_AnyLength(name, s) == AppendPrintableString(name, "C", s)
AppendCountryPrintable(name, s) ==
  IF s \in TwoOctets THEN AppendPrintableString(name, "C", s) ELSE name

(* iter_mut_by_oid with set_utf8_string_value on the first attribute. *)
FirstOf(indices) == CHOOSE i \in indices : \A j \in indices : i <= j

SetFirst(name, oid, s) ==
  LET has(rdn) == {j \in DOMAIN rdn : rdn[j].typ = oid}
      rdns == {i \in DOMAIN name : has(name[i]) # {}}
      i == FirstOf(rdns)
  IN  IF rdns = {} THEN name ELSE [name EXCEPT ![i][FirstOf(has(name[i]))].value = NewUtf8(s)]

----------------------------------------------------------------------------
(* General names. *)

(* The tags that GeneralName::take_opt_from tries, in its order. *)
GeneralNameChoice ==
  <<"otherName", "rfc822Name", "dnsName", "x400Address", "directoryName",
    "ediPartyName", "uniformResourceIdentifier", "ipAddress", "registeredId">>
GeneralNameTag == <<"0", "1", "2", "3", "4", "5", "6", "7", "8">>

(* DirectoryString: the two forms that are implemented, both ways. *)
DirectoryStringTags == {"PrintableString", "Utf8String"}

EncodeGeneralName(n) ==
  CASE n.choice = "otherName" -> <<"0", << <<"OID", n.name.typeId>>, <<"0", Opaque("Any", n.name.value)>> >> >>
    [] n.choice = "rfc822Name" -> <<"1", n.name>>
    [] n.choice = "dnsName" -> <<"2", n.name>>
    [] n.choice = "x400Address" -> <<"3", Opaque("Any", n.name)>>
    [] n.choice = "directoryName" -> <<"4", << <<"SEQUENCE", EncodeName(n.name)>> >> >>
    [] n.choice = "ediPartyName" ->
         <<"5", Present(<< <<"0", IF n.name.nameAssigner = None THEN None ELSE <<n.name.nameAssigner>> >>,
                           <<"1", <<n.name.partyName>> >> >>)>>
    [] n.choice = "uniformResourceIdentifier" -> <<"6", n.name>>
    [] n.choice = "ipAddress" -> <<"7", n.name>>
    [] n.choice = "registeredId" -> <<"8", n.name>>

DecodeOtherName(body) ==
  Decoded(<<One("OID"), One("0")>>, body,
          LAMBDA f : [typeId |-> f[1], value |-> Within("Any", f[2])])

DecodeDirectoryString(body) ==
  IF Len(body) = 1 /\ body[1][1] \in DirectoryStringTags THEN body[1] ELSE Malformed

DecodeEdiPartyName(body) ==
  Decoded(<<Opt("0"), One("1")>>, body,
          LAMBDA f : [nameAssigner |-> Optional(f[1], DecodeDirectoryString),
                      partyName    |-> DecodeDirectoryString(f[2])])

DecodeChoice(choice, body) ==
  CASE choice = "otherName"     -> DecodeOtherName(body)
    [] choice = "x400Address"   -> Within("Any", body)
    [] choice = "directoryName" -> LET name == Inner("SEQUENCE", body)
                                   IN  IF name = Malformed THEN Malformed ELSE DecodeName(name)
    [] choice = "ediPartyName"  -> DecodeEdiPartyName(body)
    [] OTHER                    -> body

DecodeGeneralName(element) ==
  LET known == {i \in DOMAIN GeneralNameTag : GeneralNameTag[i] = element[1]}
      choice == GeneralNameChoice[CHOOSE i \in known : TRUE]
  IN  IF known = {} THEN Malformed
        ELSE Sound([choice |-> choice, name |-> DecodeChoice(choice, element[2])])
==============================================================================
