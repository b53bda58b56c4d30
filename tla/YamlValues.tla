----------------------------- MODULE YamlValues -----------------------------
(***************************************************************************)
(* The typed getters of dse/clib/util/yaml.c on one scalar of a document,  *)
(* with interpolation: once the caller has set it, every read of the       *)
(* scalar replaces the string by an expanded one and frees the old, and    *)
(* most getters read more than once.                                       *)
(*                                                                         *)
(* A text is known by what it reads as; the string that holds it, by how   *)
(* many there have been before.  The search for the node is in Yaml, the   *)
(* expansion in Ini, whose code it repeats.                                *)
(***************************************************************************)
EXTENDS Integers

CONSTANTS
  Texts,
  Number,     (* text -> what strtol makes of all of it, or NoValue        *)
  Truth,      (* text -> 0 or 1 for the words of a bool, or NoValue        *)
  Decimal,    (* text -> it has a digit or a point                         *)
  Expands,    (* text -> text                                              *)
  NoValue,    (* EINVAL, and a value left as it was                        *)
  UintMax,    (* UINT_MAX; INT_MAX is half of it                           *)
  MaxStrings  (* bound: strings that hold the scalar, one after the other  *)

ASSUME TextsAssumption == Expands \in [Texts -> Texts] /\ Decimal \in [Texts -> BOOLEAN]
ASSUME NumberAssumption ==
  \A t \in Texts : Number[t] \in Int \cup {NoValue} /\ Truth[t] \in {0, 1, NoValue}
ASSUME WidthAssumption ==
  UintMax \in Nat /\ UintMax > 1 /\ UintMax % 2 = 1 /\ MaxStrings \in Nat
ASSUME NoValueAssumption == NoValue \notin Int

VARIABLES
  text,       (* n->scalar, the content                                    *)
  string,     (* and the string that has it                                *)
  inter,      (* node->__inter__ is dse_yaml_interpolate_env               *)
  handed,     (* history: the strings the caller was given                 *)
  answer      (* history: the last call, the text of its first read, and   *)
              (* what it answered                                          *)

valueVars == <<text, string, inter, handed, answer>>

(* dse_yaml_get_scalar, the n-th read of a call: the text and the string.  *)
TextAt ==
  LET Read[n \in Nat] == IF n = 0 \/ ~inter THEN text ELSE Expands[Read[n - 1]] IN Read
StringAt(n) == IF inter THEN string + n ELSE string
ReadsTextAlways(n) ==
  /\ string + n <= MaxStrings
  /\ text' = TextAt[n] /\ string' = string + n
  /\ UNCHANGED inter
ReadsText(n) ==
  /\ StringAt(n) <= MaxStrings
  /\ text' = TextAt[n] /\ string' = StringAt(n)
  /\ UNCHANGED inter
Answered(call, value) ==
  answer' = [call |-> call, text |-> TextAt[1], value |-> value]

(* int _int = strtol(...): the low half of a long.                         *)
Wrapped(long) ==
  LET low == long % (UintMax + 1) IN IF low > UintMax \div 2 THEN low - (UintMax + 1) ELSE low

GetScalar ==
  /\ ReadsText(1)
  /\ Answered("scalar", StringAt(1))
  /\ handed' = handed \cup {StringAt(1)}

GetBool ==
  /\ ReadsText(1)
  /\ Answered("bool", Truth[TextAt[1]])
  /\ UNCHANGED handed

(* dse_yaml_get_int, whose first read is the n-th: a number, or a bool in  *)
(* a second read.                                                          *)
IsNumber(n) == Number[TextAt[n]] # NoValue
IntAt(n) == IF IsNumber(n) THEN Wrapped(Number[TextAt[n]]) ELSE Truth[TextAt[n + 1]]
GetInt ==
  /\ ReadsText(IF IsNumber(1) THEN 1 ELSE 2)
  /\ Answered("int", IntAt(1))
  /\ UNCHANGED handed

GetUint ==
  LET isUint == IsNumber(1) /\ Wrapped(Number[TextAt[1]]) >= 0
  IN /\ ReadsText(IF isUint THEN 1 ELSE 2)
     /\ Answered("uint", IF isUint THEN IntAt(1) ELSE Truth[TextAt[2]])
     /\ UNCHANGED handed

(* dse_yaml_get_string keeps the string of its first read while it tries   *)
(* the other types.                                                        *)
GetString ==
  LET isInt == IntAt(2) # NoValue
      isBool == Truth[TextAt[4]] # NoValue
  IN /\ ReadsText(IF IsNumber(2) THEN 2 ELSE IF isInt THEN 3 ELSE 4)
     /\ Answered("string", IF isInt \/ isBool THEN NoValue ELSE StringAt(1))
     /\ handed' = IF isInt \/ isBool THEN handed ELSE handed \cup {StringAt(1)}

(* dse_yaml_get_double converts whatever has a digit.                      *)
GetDouble ==
  /\ ReadsText(1)
  /\ Answered("double", IF Decimal[TextAt[1]] THEN 1 ELSE NoValue)
  /\ UNCHANGED handed

(* The caller sets the interpolation, or destroys the document and loads   *)
(* one again.                                                              *)
SetInter ==
  /\ inter' = TRUE
  /\ UNCHANGED <<text, string, handed, answer>>
Reload(t) ==
  /\ text' = t /\ string' = 0 /\ inter' = FALSE
  /\ handed' = {}
  /\ answer' = [call |-> "load", text |-> t, value |-> NoValue]

ValuesInit ==
  /\ text \in Texts /\ string = 0 /\ inter = FALSE
  /\ handed = {}
  /\ answer = [call |-> "load", text |-> text, value |-> NoValue]

ValuesNext ==
  \/ GetScalar \/ GetBool \/ GetInt \/ GetUint \/ GetString \/ GetDouble
  \/ SetInter
  \/ \E t \in Texts : Reload(t)

-----------------------------------------------------------------------------
(* Properties.                                                             *)

(* What the caller got stays true.  A string lives as long as the document *)
(* unless interpolation is set; then it lives until the next read, so that *)
(* the one of dse_yaml_get_scalar is there when the call returns (that of  *)
(* dse_yaml_get_string is not: its later reads have freed it).  A number   *)
(* that its type can hold is exact, except that an unsigned one beyond     *)
(* INT_MAX is refused or taken for a bool; any other is its low bits.      *)
(* Without interpolation a text is a string or a number, not both.         *)
AnswersHold ==
  LET number == Number[answer.text]
      is(value) == number # NoValue /\ answer.value = value
  IN /\ ~inter => handed \subseteq {string}
     /\ answer.call = "scalar" => answer.value = string
     /\ answer.call = "int" /\ number # NoValue =>
          /\ number \in -(UintMax \div 2) - 1..UintMax \div 2 => is(number)
          /\ (answer.value - number) % (UintMax + 1) = 0
     /\ answer.call = "uint" /\ number # NoValue =>
          /\ number \in 0..UintMax \div 2 => is(number)
          /\ number \in UintMax \div 2 + 1..UintMax => ~is(number)
          /\ number \in -(UintMax \div 2) - 1.. -1 => ~is(number)
     /\ answer.call = "string" /\ ~inter =>
          (answer.value # NoValue <=> number = NoValue /\ Truth[answer.text] = NoValue)

=============================================================================
