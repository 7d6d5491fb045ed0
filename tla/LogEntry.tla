------------------------------- MODULE LogEntry -------------------------------
(***************************************************************************)
(* The text of a journal line: Log_Entry.C, and what Loggable.C does with a  *)
(* line's arguments.  Module Journal takes a line for the states before and   *)
(* after it; here the states are written out as text and read back.           *)
(*                                                                         *)
(* One object with a string and a number as journaled members is created,     *)
(* changed, destroyed, and the last line undone.  A character is a member of  *)
(* Char; the separator " << " counts as one, "mark".  The three tokens in     *)
(* front of the arguments (class, id, command) hold no special character and  *)
(* are kept apart from the text.                                              *)
(***************************************************************************)
EXTENDS Integers, Sequences, SequencesExt, FiniteSetsExt

CONSTANTS
  Chars,  \* characters the program's strings may hold
  MaxLen, \* bound: length of a string
  Digit,  \* one-digit numbers, as characters
  Nil     \* no object, no line

Char == {"x", "n", "p", "q", "back", "quote", "nl", "sp", "colon", "mark"} \cup Digit

ASSUME LogEntryAssumption ==
  /\ Chars \subseteq Char \ Digit /\ MaxLen \in Nat /\ Digit # {}
  /\ Digit \cap {"x", "n", "p", "q", "back", "quote", "nl", "sp", "colon", "mark"} = {}

String == UNION {[1..n -> Chars] : n \in 0..MaxLen}

(* the members of the object, in the order in which get() adds them *)
State == [str : String, num : Digit]

StrName == <<"colon", "p">>
NumName == <<"colon", "q">>

VARIABLES
  obj,  \* the object, or Nil
  was,  \* history: the object before the last line was written, or Nil
  line  \* the last line of the journal: [cmd, text], or Nil

vars == <<obj, was, line>>

-----------------------------------------------------------------------------
(* Writing *)

EscapeChar(c) ==
  CASE c = "nl" -> <<"back", "n">>
    [] c = "quote" -> <<"back", "quote">>
    [] OTHER -> <<c>>

Escape(s) == FlattenSeq([k \in DOMAIN s |-> EscapeChar(s[k])])

(* A pair of a Log_Entry.  add() of a string escapes and quotes it. *)
Pair(n, v) == [name |-> n, value |-> v]
StringPair(n, s) == Pair(n, <<"quote">> \o Escape(s) \o <<"quote">>)

(* get() of the program *)
Get(s) == <<StringPair(StrName, s.str), Pair(NumName, <<s.num>>)>>

(* the elements of e at the places where the two entries differ *)
Differing(e, e1, e2) ==
  FlattenSeq([k \in DOMAIN e1 |-> IF e1[k] = e2[k] THEN <<>> ELSE <<e[k]>>])

(* mutant: the pairs kept move to the front of the new entry only *)
DiffMisaligned(e1, e2) ==
  LET kept == Differing(e2, e1, e2) IN <<SubSeq(e1, 1, Len(kept)), kept>>

(* mutant: pairs are compared by name only from the second on *)
DiffKeepsAll(e1, e2) == IF e1 = e2 THEN <<<<>>, <<>>>> ELSE <<e1, e2>>

(* diff(): both entries without the pairs they agree on, place by place. *)
Diff(e1, e2) == <<Differing(e1, e1, e2), Differing(e2, e1, e2)>>

(* print() and log_print() of one entry: names and values with spaces between *)
Printed(e) ==
  FlattenSeq([k \in DOMAIN e |->
    e[k].name \o <<"sp">> \o e[k].value \o (IF k = Len(e) THEN <<>> ELSE <<"sp">>)])

CreateLine(s) == [cmd |-> "create", text |-> Printed(Get(s)) \o <<"nl">>]

DestroyLine(s) == [cmd |-> "destroy", text |-> <<"mark">> \o Printed(Get(s)) \o <<"nl">>]

(* log_print( old, new ) *)
SetLine(d) == [cmd |-> "set", text |-> Printed(d[2]) \o <<"mark">> \o Printed(d[1]) \o <<"nl">>]

-----------------------------------------------------------------------------
(* Reading *)

(* A place of a text stands for a pointer into it, Len + 1 for its end.  The    *)
(* first place from k on with one of the characters of C, or the end.           *)
FirstOf(s, k, C) == Min({Len(s) + 1} \cup {j \in k..Len(s) : s[j] \in C})

SkipSpaces(s, k) == FirstOf(s, k, Char \ {"sp"})

(* The places whose character belongs to the backslash before it, in a text     *)
(* read from k on.                                                             *)
Escaped(s, k) ==
  LET escaped[j \in k..Len(s)] == j > k /\ s[j - 1] = "back" /\ ~escaped[j - 1]
  IN {j \in k..Len(s) : escaped[j]}

(* what the place j of s becomes; a backslash at the end stays *)
UnescapeAt(s, j) ==
  IF j \in Escaped(s, 1) THEN <<IF s[j] = "n" THEN "nl" ELSE s[j]>>
  ELSE IF s[j] = "back" /\ j < Len(s) THEN <<>> ELSE <<s[j]>>

Unescape(s) == FlattenSeq([j \in DOMAIN s |-> UnescapeAt(s, j)])

TrimTrailingSpaces(s) == SubSeq(s, 1, Max({0} \cup {j \in DOMAIN s : s[j] # "sp"}))

(* mutant: any quote ends the value *)
ClosingQuoteFirst(s, k) == FirstOf(s, k, {"quote"})

(* where the value in quotes that begins at k ends *)
ClosingQuote(s, k) ==
  Min({Len(s) + 1} \cup {j \in k..Len(s) \ Escaped(s, k) : s[j] = "quote"})

(* where the value without quotes that begins at k ends: at spaces with a colon  *)
(* behind them                                                                  *)
BareEnd(s, k) ==
  Min({Len(s) + 1} \cup {j \in k..Len(s) :
    s[j] = "sp" /\ SkipSpaces(s, j) \in DOMAIN s /\ s[SkipSpaces(s, j)] = "colon"})

(* parse_one_pair() with its name at k: the pair, and where the text goes on *)
PairAt(s, k) ==
  LET nameEnd == FirstOf(s, k, {"sp"})
      value == SkipSpaces(s, nameEnd)
      quoted == value \in DOMAIN s /\ s[value] = "quote"
      end == IF quoted THEN ClosingQuote(s, value + 1) ELSE BareEnd(s, value)
      raw == IF quoted THEN SubSeq(s, value + 1, end - 1)
             ELSE TrimTrailingSpaces(SubSeq(s, value, end - 1))
  IN [pair |-> Pair(SubSeq(s, k, nameEnd - 1), Unescape(raw)),
      next |-> IF quoted /\ end \in DOMAIN s THEN end + 1 ELSE end]

(* parse_alist(): pairs until one does not begin with a colon *)
Parse(s) ==
  LET pairs[p \in 1..Len(s) + 1] ==
        LET k == SkipSpaces(s, p)
        IN IF k \in DOMAIN s /\ s[k] = "colon"
           THEN <<PairAt(s, k).pair>> \o pairs[PairAt(s, k).next]
           ELSE <<>>
  IN pairs[1]

(* replay() reads up to the first newline; forward arguments end at the first   *)
(* separator, if there is one.                                                  *)
ForwardArguments(s) ==
  LET t == SubSeq(s, 1, FirstOf(s, 1, {"nl"}) - 1) IN SubSeq(t, 1, FirstOf(t, 1, {"mark"}) - 1)

(* backwards_afgets() leaves the newline in; reverse arguments begin behind the *)
(* first separator and are missing without one.                                 *)
ReverseArguments(s) == SubSeq(s, FirstOf(s, 1, {"mark"}) + 1, Len(s))

-----------------------------------------------------------------------------
(* The program *)

(* atoi() of a value, which takes the digits at its head *)
Number(v) == IF v # <<>> /\ Head(v) \in Digit THEN Head(v) ELSE CHOOSE d \in Digit : TRUE

ValueOf(e, n) == e[Max({k \in DOMAIN e : e[k].name = n})].value
Names(e) == {e[k].name : k \in DOMAIN e}

(* set() of the program: each member the entry names *)
SetMembers(s, e) ==
  [str |-> IF StrName \in Names(e) THEN ValueOf(e, StrName) ELSE s.str,
   num |-> IF NumName \in Names(e) THEN Number(ValueOf(e, NumName)) ELSE s.num]

Constructed == [str |-> <<>>, num |-> CHOOSE d \in Digit : TRUE]

(* do_this( line, false ) on object s, and do_this( line, true ) *)
DoForward(s, l) ==
  CASE l.cmd = "create" -> SetMembers(Constructed, Parse(ForwardArguments(l.text)))
    [] l.cmd = "set" -> SetMembers(s, Parse(ForwardArguments(l.text)))
    [] l.cmd = "destroy" -> Nil

DoReverse(s, l) ==
  CASE l.cmd = "create" -> Nil
    [] l.cmd = "set" -> SetMembers(s, Parse(ReverseArguments(l.text)))
    [] l.cmd = "destroy" -> SetMembers(Constructed, Parse(ReverseArguments(l.text)))

(* The object becomes s, and the line that says so is written. *)
Becomes(s) ==
  /\ s # obj
  /\ obj' = s /\ was' = obj
  /\ line' = IF obj = Nil THEN CreateLine(s)
             ELSE IF s = Nil THEN DestroyLine(obj)
             ELSE SetLine(Diff(Get(obj), Get(s)))

Create(s) == obj = Nil /\ Becomes(s)
Destroy == obj # Nil /\ Becomes(Nil)

(* log_start(), a change, log_end() *)
Change(s) == obj # Nil /\ Becomes(s)

Undo == line # Nil /\ Becomes(DoReverse(obj, line))

Init == obj = Nil /\ was = Nil /\ line = Nil

Next == (\E s \in State : Create(s) \/ Change(s)) \/ Destroy \/ Undo

Spec == Init /\ [][Next]_vars
-----------------------------------------------------------------------------
(* Properties *)

(* What log_print() wrote, replay() reads: the new members, whatever spaces,    *)
(* quotes, colons and newlines their text holds ("all special characters        *)
(* escaped").                                                                   *)
ForwardRestores == line # Nil => DoForward(was, line) = obj

(* The same text read backwards gives the object before the change, although    *)
(* its newline comes along.                                                     *)
ReverseRestores == line # Nil => DoReverse(obj, line) = was

(* A line of a change names the members that changed and no other, on both      *)
(* sides alike (diff), so that undo does not touch the rest.                    *)
LineNamesTheChange ==
  line # Nil /\ line.cmd = "set" =>
    LET changed == {n \in {StrName, NumName} :
                      IF n = StrName THEN was.str # obj.str ELSE was.num # obj.num}
    IN /\ Names(Parse(ForwardArguments(line.text))) = changed
       /\ Names(Parse(ReverseArguments(line.text))) = changed
=============================================================================
