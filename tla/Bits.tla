-------------------------------- MODULE Bits --------------------------------
(***************************************************************************)
(* Bit vectors (Bit.cc): numbers of a fixed width, kept in words, of which *)
(* a statement takes a part by subscripts, x[msb][lsb] or x[bit].  The     *)
(* subscripts are state of the vector, which the operation of the statement*)
(* has to clear; what one leaves set, the next statement meets.            *)
(*                                                                         *)
(* A vector is [num, on, msb, lsb, subscripts]: mNumBits, the places that  *)
(* are 1 in the words (a word also has places above the width), mMsbBit,   *)
(* mLsbBit and mBitRangeState, as the number of subscripts given.  Where   *)
(* the code asserts, an action is not enabled.  operator[] has no return   *)
(* statement; as compiled it returns the vector it is called for.          *)
(***************************************************************************)
EXTENDS Integers, Sequences, SequencesExt, FiniteSets, FiniteSetsExt

CONSTANTS
  Vectors,
  Width,           \* of each; 0: it is sized when it is first assigned
  WordSize, WordSizeLog,
  Numbers,         \* the numbers that vectors are assigned and compared with
  Uses             \* what programs do although the code gets it wrong (see Avoids)

\* "straddling": numbers are assigned to, and taken from, parts in two words, by shifts
\*               too where 0 is then cut (see Cut);
\* "low":        parts that begin at bit 0 of a wider vector are read;
\* "explicit":   the whole of a vector is written as a part;
\* "layouts":    > and < are used of different widths, or beyond one word;
\* "parts":      parts are compared with numbers or combined by &, |, ^ and ~;
\* "high":       bits from WordSizeLog on are combined by &, |, ^ and ~;
\* "xor":        ^ is used at all;
\* "still":      a vector is shifted by 0;
\* "kept":       a part is compared with an empty vector, tested by !, or copied by the copy
\*               constructor: its subscripts stay set;
\* "emptied":    an empty vector is assigned to one that has words, or to a part of one: all
\*               the words are deleted, mpWords still points to them, and subscripts stay;
\* "filled":     BitSetAll and BitClearAll are used of widths that fill their words.
AllUses == {"straddling", "low", "explicit", "layouts", "parts", "high", "xor", "still", "filled",
            "kept", "emptied"}

ASSUME BitsAssumption ==
  /\ Width \in [Vectors -> 0 .. 2 * WordSize] /\ WordSize = 2 ^ WordSizeLog /\ WordSizeLog \in Nat
  /\ Numbers \subseteq 0 .. 2 ^ WordSize - 1 /\ Uses \subseteq AllUses

VARIABLES
  bits,
  freed            \* the vectors whose mpWords points to words that were deleted
vars == <<bits, freed>>

Avoids(use, condition) == condition => use \in Uses

-----------------------------------------------------------------------------
(* Words, subscripts and parts.                                            *)

WordOf(i) == i \div WordSize
LastPlace == 2 * WordSize - 1            \* no vector has more than two words
NumberOf == [places \in SUBSET (0 .. LastPlace) |-> SumSet({2 ^ i : i \in places})]
Number(places) == NumberOf[places]
Word(x, w) == Number({i - w * WordSize : i \in {j \in x.on : WordOf(j) = w}})
PlacesOf == [n \in 0 .. 2 ^ WordSize - 1 |-> {i \in 0 .. WordSize - 1 : (n \div 2 ^ i) % 2 = 1}]
Places(n) == PlacesOf[n]

Sized(width) == [num |-> width, on |-> {}, msb |-> width - 1, lsb |-> 0, subscripts |-> 0]
IsEmptyBit(x) == x.num = 0
ResetBitRange(x) == [x EXCEPT !.lsb = 0, !.msb = x.num - 1, !.subscripts = 0]

\* operator[]: a third and a fourth subscript change nothing that is used.
Subscript(x, i) ==
  CASE x.subscripts = 0 -> [x EXCEPT !.msb = i, !.lsb = i, !.subscripts = 1]
    [] x.subscripts = 1 -> [x EXCEPT !.lsb = i, !.subscripts = 2]
    [] OTHER -> [x EXCEPT !.subscripts = @ + 1]
Subscripted(x, part) == FoldLeft(Subscript, x, part)

\* The parts a statement may take of a vector: all of it, a bit, or from a bit to a lower one.
Parts(x) == {<< >>} \cup {<<i>> : i \in 0 .. x.num - 1}
                    \cup {<<i, j>> : i \in 1 .. x.num - 1, j \in 0 .. x.num - 2}
High(x, part) == IF part = << >> THEN x.num - 1 ELSE part[1]
Low(x, part) == IF part = << >> THEN 0 ELSE part[Len(part)]
IsAll(x, part) == High(x, part) - Low(x, part) + 1 = x.num
ProperParts(x) == {p \in Parts(x) : /\ p = << >> \/ Low(x, p) <= High(x, p)
                                    /\ Avoids("explicit", p # << >> /\ IsAll(x, p))}

PartOf(x, low, high) == {i - low : i \in x.on \cap (low .. high)}
Taken(x) == PartOf(x, x.lsb, x.msb)
WidthOf(x) == x.msb - x.lsb + 1
IsWhole(x) == x.lsb = 0 /\ x.msb = x.num - 1
OneWord(x) == WordOf(x.lsb) = WordOf(x.msb)

-----------------------------------------------------------------------------
(* Assignment; of [to, from].                                              *)

SameLayout(x, y) == x.msb = y.msb /\ x.lsb = y.lsb
WordsOf(x, y) == {i \in y.on : WordOf(i) <= WordOf(x.num - 1)}

Store(x, places) == [x EXCEPT !.on = (@ \ (x.lsb .. x.msb)) \cup {i + x.lsb : i \in places}]

\* operator=(Bit&): of an empty vector, all that there was is deleted; of the same layout, the
\* words are copied; in both cases the subscripts stay.  (Nothing uses the msb of an empty vector.)
Emptied(x) == [Sized(0) EXCEPT !.subscripts = x.subscripts]
AssignUnpadded(x, y) ==     \* mutant
  LET to == IF IsEmptyBit(x) THEN Sized(WidthOf(y)) ELSE x
  IN IF IsEmptyBit(y) THEN [to |-> Emptied(x), from |-> y]
     ELSE IF SameLayout(to, y) /\ to.num = WidthOf(to) THEN [to |-> [to EXCEPT !.on = WordsOf(to, y)], from |-> y]
     ELSE [to |-> ResetBitRange([to EXCEPT !.on = (@ \ (to.lsb .. to.lsb + WidthOf(y) - 1))
                                                    \cup {i + to.lsb : i \in Taken(y)}]),
           from |-> ResetBitRange(y)]
Assign(x, y) ==
  LET to == IF IsEmptyBit(x) THEN Sized(WidthOf(y)) ELSE x
  IN IF IsEmptyBit(y) THEN [to |-> Emptied(x), from |-> y]
     ELSE IF SameLayout(to, y) /\ to.num = WidthOf(to) THEN [to |-> [to EXCEPT !.on = WordsOf(to, y)], from |-> y]
     ELSE [to |-> ResetBitRange(Store(to, Taken(y))), from |-> ResetBitRange(y)]
Fits(x, y) == IsEmptyBit(x) \/ IsEmptyBit(y) \/ WidthOf(y) <= WidthOf(x)

\* operator=(const Bit&), of a result of &, |, ^ or ~ to a vector of its width, or of none: the
\* words are copied.  (To a wider one it would not pad, and could read beyond the words.)
AssignResult(x, y) ==
  LET to == IF IsEmptyBit(x) THEN Sized(WidthOf(y)) ELSE x IN [to EXCEPT !.on = WordsOf(to, y)]

\* operator=(unsigned): of a part in two words, as many places of the upper one are cleared
\* as the part has in the lower, and one more.  From bit 0 of a word, any may be: the code
\* reads past the masks.
FirstOfWord(i) == WordOf(i) * WordSize
Cleared(x) ==
  IF OneWord(x) THEN x.lsb .. x.msb
  ELSE {i \in x.lsb .. 2 * FirstOfWord(x.msb) - x.lsb : WordOf(i) <= WordOf(x.msb)}
StoreNumber(x, n) == [x EXCEPT !.on = (@ \ Cleared(x)) \cup {i + x.lsb : i \in Places(n)}]
AssignNumberUnreset(x, n) == StoreNumber(IF IsEmptyBit(x) THEN Sized(WordSize) ELSE x, n)     \* mutant
AssignNumber(x, n) ==
  ResetBitRange(StoreNumber(IF IsEmptyBit(x) THEN Sized(WordSize) ELSE x, n))
NumberFits(x, n) == IsEmptyBit(x) \/ n < 2 ^ WidthOf(x)

-----------------------------------------------------------------------------
(* Comparison, with a vector and with a number.                            *)

EqualsFirstWord(x, y) ==     \* mutant
  IF IsEmptyBit(x) \/ IsEmptyBit(y) THEN IsEmptyBit(x) /\ IsEmptyBit(y)
  ELSE IF SameLayout(x, y) /\ x.lsb = 0 THEN Word(x, 0) = Word(y, 0) ELSE Taken(x) = Taken(y)
Equals(x, y) ==
  IF IsEmptyBit(x) \/ IsEmptyBit(y) THEN IsEmptyBit(x) /\ IsEmptyBit(y)
  ELSE IF SameLayout(x, y) /\ x.lsb = 0 THEN \A w \in 0 .. WordOf(x.msb) : Word(x, w) = Word(y, w)
  ELSE Taken(x) = Taken(y)

\* The subscripts of both are cleared, unless one is empty.
Compared(x, y) ==
  IF IsEmptyBit(x) \/ IsEmptyBit(y) THEN <<x, y>> ELSE <<ResetBitRange(x), ResetBitRange(y)>>

\* A word, and then a bit, that is greater decides, whatever precedes it.
Greater(x, y) ==
  IF SameLayout(x, y) /\ x.lsb = 0 THEN \E w \in 0 .. WordOf(x.msb) : Word(x, w) > Word(y, w)
  ELSE \/ \E i \in Taken(x) : i >= WidthOf(y)
       \/ (\A i \in Taken(y) : i < WidthOf(x)) /\ Taken(x) \ Taken(y) # {}
Less(x, y) ==
  IF SameLayout(x, y) /\ x.lsb = 0 THEN \E w \in 0 .. WordOf(x.msb) : Word(x, w) < Word(y, w)
  ELSE /\ ~\E i \in Taken(x) : i >= WidthOf(y)
       /\ (\E i \in Taken(y) : i >= WidthOf(x)) \/ Taken(y) \ Taken(x) # {}

\* With a number the word of the part is compared, all of it except by operator>(int).
MayCompare(x) == x.num <= WordSize
EqualsNumber(x, n) == Word(x, 0) = n
GreaterNumber(x, n) == Word(x, 0) > n
GreaterInt(x, n) == Number({i \in x.on : i <= x.msb}) \div 2 ^ x.lsb > n
LessNumber(x, n) == Word(x, 0) < n

\* Conversion to unsigned, of a part in one word or, wrongly, in two.
ToUnsigned(x) ==
  LET w0 == WordOf(x.lsb)
      upper == WordSize - (x.lsb % WordSize)
      kept == {i \in x.on : WordOf(i) = WordOf(x.msb) /\ i <= x.msb}
  IN IF OneWord(x) THEN Number(Taken(x))
     ELSE Number({i - w0 * WordSize : i \in {j \in x.on : WordOf(j) = w0 /\ j >= x.lsb}}
                 \cup {i - WordOf(x.msb) * WordSize + upper : i \in kept})

-----------------------------------------------------------------------------
(* Bits combined and shifted.                                              *)

\* The place of the result that is written for place i.
Written(i) == WordOf(i) * WordSize + (i % WordSizeLog)

\* A copy is as wide as the part, and has the words of the whole.
CopyOf(x) == [Sized(WidthOf(x)) EXCEPT !.on = WordsOf(Sized(WidthOf(x)), x)]
\* For ^, "is not set" is whether any other bit of the word is.
Others(on, i) == {j \in on : WordOf(j) = WordOf(i)} \ {i} # {}
BecomesSet(operator, on, i, y, j) ==
  CASE operator = "&" -> i \in on /\ j \in y.on
    [] operator = "|" -> i \in on \/ j \in y.on
    [] operator = "^" -> (i \in on /\ Others(y.on, j)) \/ (Others(on, i) /\ j \in y.on)
    [] operator = "~" -> i \notin on
Combined(x, y, operator) ==
  LET copy == CopyOf(x)
      places == [n \in 1 .. copy.msb - x.lsb + 1 |-> x.lsb + n - 1]
      Place(on, i) == IF BecomesSet(operator, on, i, y, i - x.lsb + y.lsb) THEN on \cup {Written(i)} ELSE on \ {Written(i)}
  IN [copy EXCEPT !.on = FoldLeft(Place, copy.on, places)]
And(x, y) == Combined(x, y, "&")
Or(x, y) == Combined(x, y, "|")
Xor(x, y) == Combined(x, y, "^")
Not(x) == Combined(x, x, "~")

\* By one place or more, of a whole vector.
ShiftRightDragging(x, u) ==     \* mutant
  IF u > x.msb THEN AssignNumber(x, 0)
  ELSE Assign(Subscripted(x, <<x.msb - u, 0>>), Assign(Sized(x.msb + 1 - u), Subscripted(x, <<x.msb, u>>)).to).to
ShiftRight(x, u) ==
  LET b == Assign(Sized(x.msb + 1 - u), Subscripted(x, <<x.msb, u>>))
      low == Assign(Subscripted(b.from, <<x.msb - u, 0>>), b.to).to
  IN IF u > x.msb THEN AssignNumber(x, 0)
     ELSE AssignNumber(Subscripted(low, <<x.msb, x.msb - u + 1>>), 0)
ShiftLeft(x, u) ==
  LET b == Assign(Sized(x.msb + 1 - u), Subscripted(x, <<x.msb - u, 0>>))
      high == Assign(Subscripted(ResetBitRange(b.from), <<x.msb, u>>), b.to).to
  IN IF u > x.msb THEN AssignNumber(x, 0)
     ELSE AssignNumber(Subscripted(high, <<u - 1, 0>>), 0)

\* One bit, and all of them: of the last word, those below the width modulo the word size.
SetBit(x, i) == [x EXCEPT !.on = @ \cup {i}]
ClearBit(x, i) == [x EXCEPT !.on = @ \ {i}]
IsBitSet(x, i) == i \in x.on
InLastWord(x) == {i \in 0 .. x.num + WordSize : WordOf(i) = WordOf(x.num - 1)}
BitSetAll(x) == [x EXCEPT !.on = {i \in 0 .. x.num - 1 : i \notin InLastWord(x)}
                                   \cup (IF x.num % WordSize = 0 THEN x.on \cap InLastWord(x)
                                         ELSE InLastWord(x) \cap (0 .. x.num - 1))]
BitClearAll(x) == [x EXCEPT !.on = IF x.num % WordSize = 0 THEN x.on \cap InLastWord(x) ELSE {}]

-----------------------------------------------------------------------------
(* Statements.  The first vector is assigned to; a vector is not assigned  *)
(* parts of itself, which the code leaves unfinished, nor compared with    *)
(* itself.  To assign to deleted words is undefined: no statement does.    *)

Taking(v, part) == Subscripted(bits[v], part)
PartsOf(v) == ProperParts(bits[v])

\* Parts of one layout, from bit 0, of which one has more bits above.
LowOfWider(v, p, w, q) ==
  /\ Low(bits[w], q) = 0 /\ Low(bits[v], p) = 0 /\ ~(IsAll(bits[v], p) /\ IsAll(bits[w], q))
  /\ IsEmptyBit(bits[v]) \/ High(bits[v], p) = High(bits[w], q)

Empties(v, w) == IsEmptyBit(bits[w]) /\ ~IsEmptyBit(bits[v])
MayAssign(v, p, w, q) ==
  /\ v # w /\ v \notin freed /\ Fits(Taking(v, p), Taking(w, q))
  /\ Avoids("emptied", Empties(v, w))
  /\ Avoids("low", LowOfWider(v, p, w, q) /\ (IsEmptyBit(bits[v]) \/ IsAll(bits[v], p)))
MayAssignNumber(v, p, n) ==
  /\ v \notin freed /\ NumberFits(Taking(v, p), n)
  /\ Avoids("straddling", ~IsEmptyBit(bits[v]) /\ ~OneWord(Taking(v, p)))

Set(v, x) == bits' = [bits EXCEPT ![v] = x] /\ UNCHANGED freed

AssignPart(v, p, w, q) ==
  LET r == Assign(Taking(v, p), Taking(w, q))
  IN /\ MayAssign(v, p, w, q)
     /\ bits' = [bits EXCEPT ![v] = r.to, ![w] = r.from]
     /\ freed' = IF Empties(v, w) THEN freed \cup {v} ELSE freed
AssignPartNumber(v, p, n) == MayAssignNumber(v, p, n) /\ Set(v, AssignNumber(Taking(v, p), n))

\* A conversion, or a comparison with a number, clears the subscripts of what it takes; so does
\* a comparison of vectors, of both, but with an empty one; and ! and the copy constructor do not.
Read(v, p) == ~IsEmptyBit(bits[v]) /\ Set(v, ResetBitRange(Taking(v, p)))
Compare(v, p, w, q) ==
  LET compared == Compared(Taking(v, p), Taking(w, q))
  IN /\ v # w
     /\ Avoids("kept", (IsEmptyBit(bits[v]) \/ IsEmptyBit(bits[w])) /\ (p # << >> \/ q # << >>))
     /\ bits' = [bits EXCEPT ![v] = compared[1], ![w] = compared[2]]
     /\ UNCHANGED freed
Peek(v, p) == Avoids("kept", p # << >>) /\ Set(v, Taking(v, p))

MayCombine(v, w) ==
  /\ ~IsEmptyBit(bits[v]) /\ bits[v].num = bits[w].num
  /\ Avoids("high", bits[v].num > WordSizeLog)
\* What a shift brings in is assigned 0, which may clear too little, or what it should not.
Cut(low, high) ==
  /\ WordOf(low) # WordOf(high)
  /\ low % WordSize = 0 \/ WordSize - (low % WordSize) < high % WordSize
MayShift(v, u, low, high) ==
  ~IsEmptyBit(bits[v]) /\ Avoids("still", u = 0) /\ Avoids("straddling", Cut(low, high))
MayShiftRight(v, u) == MayShift(v, u, bits[v].num - u, bits[v].num - 1)
MayShiftLeft(v, u) == MayShift(v, u, 0, u - 1)

\* A combination is assigned to a vector of its width.
Combine(v, w, z) ==
  /\ v # w /\ v \notin freed /\ MayCombine(w, z) /\ bits[v].num \in {0, bits[w].num}
  /\ \E x \in {And(bits[w], bits[z]), Or(bits[w], bits[z]), Not(bits[w])}
               \cup (IF "xor" \in Uses THEN {Xor(bits[w], bits[z])} ELSE {}) : Set(v, AssignResult(bits[v], x))
Shift(v, u) == \/ MayShiftRight(v, u) /\ Set(v, ShiftRight(bits[v], u))
               \/ MayShiftLeft(v, u) /\ Set(v, ShiftLeft(bits[v], u))
ChangeBit(v, i) == i < bits[v].num /\ (Set(v, SetBit(bits[v], i)) \/ Set(v, ClearBit(bits[v], i)))
ChangeAll(v) ==
  /\ ~IsEmptyBit(bits[v]) /\ Avoids("filled", bits[v].num % WordSize = 0)
  /\ Set(v, BitSetAll(bits[v])) \/ Set(v, BitClearAll(bits[v]))

Init == bits = [v \in Vectors |-> Sized(Width[v])] /\ freed = {}

Next ==
  \E v \in Vectors :
    \/ \E w \in Vectors, p \in PartsOf(v) : \E q \in PartsOf(w) : AssignPart(v, p, w, q) \/ Compare(v, p, w, q)
    \/ \E p \in PartsOf(v), n \in Numbers : AssignPartNumber(v, p, n)
    \/ \E p \in PartsOf(v) : Read(v, p) \/ Peek(v, p)
    \/ \E w \in Vectors, z \in Vectors : Combine(v, w, z)
    \/ \E u \in 0 .. bits[v].num : Shift(v, u)
    \/ \E i \in 0 .. bits[v].num - 1 : ChangeBit(v, i)
    \/ ChangeAll(v)

Spec == Init /\ [][Next]_vars

-----------------------------------------------------------------------------
(* Properties.  A part has the value of its bits, whatever it is part of.  *)

Meant(v, p) == PartOf(bits[v], Low(bits[v], p), High(bits[v], p))
ValueOf(v, p) == Number(Meant(v, p))
With(v, p, places) ==
  (bits[v].on \ (Low(bits[v], p) .. High(bits[v], p))) \cup {i + Low(bits[v], p) : i \in places}

\* A type invariant, and no bit is on above the width, where comparisons of whole words
\* would see it (Bit.h).
BitsTypeOK ==
  /\ freed \subseteq Vectors
  /\ \A v \in Vectors : /\ bits[v].num \in Nat /\ bits[v].on \subseteq 0 .. bits[v].num - 1
                        /\ bits[v].subscripts \in 0 .. 4

\* No statement but those of Uses leaves subscripts set for the next one
\* (Bit::ResetBitRange), or deletes words that the vector is to have (Bit::operator=).
SubscriptsCleared == \A v \in Vectors : bits[v] = ResetBitRange(bits[v])
WordsAreHeld == freed = {}

\* Between statements the vectors are in order.
WellFormed == BitsTypeOK /\ SubscriptsCleared /\ WordsAreHeld

\* An assignment, of a part of a vector or of a number, changes the part assigned to and
\* nothing else: it gets the value, padded with zeros (Bit::operator=).  Uses names those
\* that do not: of a number to a part in two words, of a low part, and of an empty vector.
AssignsThePart ==
  \A v \in Vectors : \A p \in PartsOf(v) :
    /\ \A w \in Vectors \ {v} : \A q \in PartsOf(w) :
         MayAssign(v, p, w, q) =>
           LET r == Assign(Taking(v, p), Taking(w, q))
           IN r.from.on = bits[w].on /\ r.to.on = With(v, p, Meant(w, q))
    /\ \A n \in Numbers :
         MayAssignNumber(v, p, n) => AssignNumber(Taking(v, p), n).on = With(v, p, Places(n))

\* Comparisons of vectors are of values, for parts of any widths for ==, and an empty vector
\* is equal to an empty one only (Bit::operator==, >, <).
VectorsCompare ==
  \A v \in Vectors : \A w \in Vectors \ {v} :
    /\ \A p \in PartsOf(v) :
         LET x == Taking(v, p)
             value == ValueOf(v, p)
         IN \A q \in PartsOf(w) :
              Avoids("low", LowOfWider(v, p, w, q)) =>
                (Equals(x, Taking(w, q)) <=> /\ value = ValueOf(w, q)
                                             /\ IsEmptyBit(bits[v]) <=> IsEmptyBit(bits[w]))
    /\ /\ bits[v].num > 0 /\ bits[w].num > 0
       /\ Avoids("layouts", bits[v].num # bits[w].num \/ bits[v].num > WordSize)
       => /\ Greater(bits[v], bits[w]) <=> ValueOf(v, << >>) > ValueOf(w, << >>)
          /\ Less(bits[v], bits[w]) <=> ValueOf(v, << >>) < ValueOf(w, << >>)

\* So are comparisons with numbers, and a conversion gives the value (Bit::operator unsigned).
NumbersCompare ==
  \A v \in Vectors : \A p \in PartsOf(v) : bits[v].num > 0 =>
    LET x == Taking(v, p)
    IN /\ Avoids("straddling", ~OneWord(x)) => ToUnsigned(x) = ValueOf(v, p)
       /\ MayCompare(x) => \A n \in Numbers :
            /\ GreaterInt(x, n) <=> ValueOf(v, p) > n
            /\ Avoids("parts", ~IsWhole(x)) =>
                 /\ EqualsNumber(x, n) <=> ValueOf(v, p) = n
                 /\ GreaterNumber(x, n) <=> ValueOf(v, p) > n
                 /\ LessNumber(x, n) <=> ValueOf(v, p) < n

\* However vectors are compared, with each other or with numbers, it is by value.
ComparesValues == VectorsCompare /\ NumbersCompare

\* Shifts divide and multiply, modulo what the width holds, &, | and ~ are bit by bit, and
\* all bits are set and cleared (Bit::operator>>, <<, &, |, ~, BitSetAll, BitClearAll).
ShiftsAndCombines ==
  \A v \in Vectors :
    /\ Avoids("filled", bits[v].num % WordSize = 0) =>
         BitSetAll(bits[v]).on = 0 .. bits[v].num - 1 /\ BitClearAll(bits[v]).on = {}
    /\ \A u \in 0 .. bits[v].num :
         /\ MayShiftRight(v, u) => Number(ShiftRight(bits[v], u).on) = ValueOf(v, << >>) \div 2 ^ u
         /\ MayShiftLeft(v, u) =>
              Number(ShiftLeft(bits[v], u).on) = (ValueOf(v, << >>) * 2 ^ u) % 2 ^ bits[v].num
    /\ \A w \in Vectors :
         MayCombine(v, w) => /\ And(bits[v], bits[w]).on = bits[v].on \cap bits[w].on
                             /\ Or(bits[v], bits[w]).on = bits[v].on \cup bits[w].on
                             /\ "xor" \in Uses => Xor(bits[v], bits[w]).on = (bits[v].on \cup bits[w].on) \ (bits[v].on \cap bits[w].on)
                             /\ Not(bits[v]).on = (0 .. bits[v].num - 1) \ bits[v].on
=============================================================================
