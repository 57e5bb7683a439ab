-------------------------- MODULE TokenizerProofs --------------------------
(***************************************************************************)
(* The tokenizer's cursor, its list, its buffers and its lines, and that   *)
(* it implements Lexer, for every source, buffer size and first capacity.  *)
(***************************************************************************)
EXTENDS TokenizerProperties, BoundedInduction, SequenceTheorems, FiniteSetTheorems

\* A list whose items are inside its block of memory.
IsList(l) ==
  /\ l = [length |-> l.length, capacity |-> l.capacity, items |-> l.items]
  /\ l.length \in Nat /\ l.capacity \in Nat \ {0} /\ l.length <= l.capacity
  /\ l.items = [k \in 0..l.capacity - 1 |-> l.items[k]]

\* A cursor at the k-th character of the source.
IsAt(c, k) == k \in Nat /\ c = Cursor(Beyond(k), CharAt(k), k)

phases == {"scan", "word", "number", "fraction", "string", "comment", "done", "exit", "overrun"}

IInv ==
  /\ source \in Sources
  /\ phase \in phases
  /\ phase # "fraction" =>
       /\ IsAt(at, at.cur_idx)
       /\ start_idx \in Nat /\ start_idx <= at.cur_idx
  /\ phase \in {"word", "number", "string"} =>
       start_idx < at.cur_idx /\ at.cur_idx <= filesize
  /\ phase = "comment" =>
       /\ Len(lexeme) \in Nat /\ Len(lexeme) <= MAX_LEXEME
       /\ start_idx < filesize /\ at.cur_idx = start_idx + 2 + Len(lexeme)
       /\ \E S : lexeme \in Seq(S)
  /\ IsList(list)
  /\ LexemesFit

-----------------------------------------------------------------------------
(* The list *)

\* A full list grows; the new item comes after the others, which stay.
LEMMA Adding ==
  ASSUME NEW l, IsList(l), NEW item
  PROVE  LET m == add_list(l, item)
         IN /\ IsList(m) /\ m.length = l.length + 1
            /\ \A k \in 0..l.length :
                 get_list(m, k) = IF k = l.length THEN item ELSE get_list(l, k)
<1> DEFINE n == l.length
           room == IF n = l.capacity THEN grow(l) ELSE l
           m == add_list(l, item)
<1>1. /\ IsList(room) /\ room.length = n /\ n < room.capacity
      /\ \A k \in 0..n - 1 : room.items[k] = l.items[k]
  <2>1. CASE n = l.capacity
    <3> DEFINE newcap == l.capacity * RESIZE_MUL
    <3>1. newcap \in Nat \ {0} /\ n < newcap
      BY <2>1 DEF IsList, RESIZE_MUL
    <3> HIDE DEF newcap
    <3>2. grow(l) = [length |-> n, capacity |-> newcap, items |-> Block(newcap, l.items)]
      BY DEF grow, newcap
    <3>3. \A k \in 0..n - 1 : Block(newcap, l.items)[k] = l.items[k]
      BY <3>1, <2>1 DEF Block, IsList
    <3>4. Block(newcap, l.items) = [k \in 0..newcap - 1 |-> Block(newcap, l.items)[k]]
      BY DEF Block
    <3> QED BY <2>1, <3>1, <3>2, <3>3, <3>4 DEF IsList
  <2>2. CASE n # l.capacity
    BY <2>2 DEF IsList
  <2> QED BY <2>1, <2>2
<1>2. m = [room EXCEPT !.items[room.length] = item, !.length = @ + 1]
  BY DEF add_list
<1> HIDE DEF room
<1> DEFINE items == [room.items EXCEPT ![n] = item]
<1>3. m = [length |-> n + 1, capacity |-> room.capacity, items |-> items]
  BY <1>1, <1>2 DEF IsList
<1>4. /\ items = [k \in 0..room.capacity - 1 |-> items[k]]
      /\ \A k \in 0..n : items[k] = IF k = n THEN item ELSE l.items[k]
  <2>1. n \in Nat /\ room.capacity \in Nat /\ n < room.capacity
    BY <1>1 DEF IsList
  <2>2. \A k \in 0..n : k \in 0..room.capacity - 1 /\ (k # n => k \in 0..n - 1)
    BY <2>1
  <2>3. room.items = [k \in 0..room.capacity - 1 |-> room.items[k]]
    BY <1>1 DEF IsList
  <2>4. /\ items = [k \in 0..room.capacity - 1 |-> items[k]]
        /\ \A k \in 0..room.capacity - 1 : items[k] = IF k = n THEN item ELSE room.items[k]
    BY <2>3
  <2> QED BY <1>1, <2>2, <2>4
<1> HIDE DEF items
<1>5. IsList(m) /\ m.length = n + 1
  BY <1>1, <1>3, <1>4 DEF IsList
<1>6. \A k \in 0..n : get_list(m, k) = IF k = n THEN item ELSE get_list(l, k)
  <2>1. n \in Nat
    BY DEF IsList
  <2>2. \A k \in 0..n : k < n + 1 /\ (k # n => k < n)
    BY <2>1
  <2>3. \A k : get_list(m, k) = IF k < n + 1 THEN items[k] ELSE NoItem
    BY <1>3 DEF get_list
  <2>4. \A k : get_list(l, k) = IF k < n THEN l.items[k] ELSE NoItem
    BY DEF get_list
  <2> QED BY <1>4, <2>2, <2>3, <2>4
<1> QED BY <1>5, <1>6

\* A list stays within its lexemes' size when a token that fits is added.
LEMMA AddFits ==
  ASSUME IsList(list), LexemesFit, NEW token, Len(token.lexeme) < MAX_LEXEME,
         list' = add_list(list, token)
  PROVE  IsList(list)' /\ LexemesFit'
<1>1. /\ IsList(list') /\ list'.length = list.length + 1
      /\ \A k \in 0..list.length :
           get_list(list', k) = IF k = list.length THEN token ELSE get_list(list, k)
  BY Adding
<1>2. \A k \in 0..list'.length - 1 : k \in 0..list.length /\ (k # list.length => k \in 0..list.length - 1)
  BY <1>1 DEF IsList
<1>3. \A k \in 0..list'.length - 1 : Len(get_list(list', k).lexeme) < MAX_LEXEME
  BY <1>1, <1>2 DEF LexemesFit
<1> QED BY <1>1, <1>3 DEF LexemesFit, IsList

-----------------------------------------------------------------------------
(* The cursor *)

LEMMA Sizes ==
  ASSUME source \in Sources
  PROVE  /\ source \in Seq(STRING) /\ Len(source) \in Nat
         /\ filesize \in Nat /\ filesize <= Len(source)
         /\ MAX_LEXEME \in Nat /\ MAX_LEXEME > 2 /\ IdxBound \in Nat
         /\ IdxBound > Len(source) + MAX_LEXEME + 1
<1> DEFINE K == {k \in 0..Len(source) : \A j \in 1..k : source[j] # EOF}
<1>1. source \in Seq(STRING) /\ Len(source) \in Nat
  BY BoundsAssumption
<1>2. K \subseteq 0..Len(source) /\ 0 \in K
  BY <1>1
<1>3. filesize = Max(K)
  BY DEF filesize, getFileCharCount
<1> HIDE DEF K
<1>4. Max(K) \in K
  BY <1>1, <1>2, Greatest DEF Max
<1>5. Max(K) \in 0..Len(source)
  BY <1>2, <1>4
<1>6. filesize \in Nat /\ filesize <= Len(source)
  BY <1>1, <1>3, <1>5
<1> QED BY <1>1, <1>6, BoundsAssumption

\* advance goes to the next character, or stays after the last.
LEMMA Advances ==
  ASSUME source \in Sources, NEW c, NEW k \in Nat, IsAt(c, k), k + 1 < IdxBound
  PROVE  IsAt(advance(c), k + 1) /\ advance(c).cur_idx = k + 1
<1>1. c.pos = Beyond(k) /\ c.cur_idx = k
  BY DEF IsAt, Cursor
<1>2. (k + 1) % IdxBound = k + 1
  BY Sizes
<1>3. Beyond(Beyond(k)) = Beyond(k + 1) /\ CharAt(Beyond(k)) = CharAt(k + 1)
  BY Sizes DEF Beyond, CharAt
<1> QED BY <1>1, <1>2, <1>3 DEF advance, IsAt, Cursor

\* At the end no loop over characters goes on.
LEMMA AtEnd ==
  ~InWord(NUL) /\ ~InNumber(NUL) /\ ~InString(NUL) /\ NUL # Quote /\ NUL # "."
<1>1. ~isalpha(NUL) /\ ~isdigit(NUL)
  BY DEF isalpha, isdigit, NUL, Letter, Digit
<1> QED BY <1>1 DEF InWord, InNumber, InString, NUL, Quote

LEMMA WordLen ==
  ASSUME source \in Sources, NEW start \in Nat, NEW c, c.cur_idx \in Nat,
         start <= c.cur_idx, c.cur_idx <= Len(source)
  PROVE  Len(Word(start, c)) = c.cur_idx - start
<1> DEFINE m == start + 1
           n == c.cur_idx
<1>1. /\ m \in Int /\ n \in Int /\ m <= n + 1
      /\ \A k \in m..n : source[k] \in STRING
  BY Sizes
<1>2. Len(SubSeq(source, m, n)) = IF m <= n THEN n - m + 1 ELSE 0
  BY <1>1, SubSeqProperties
<1> QED BY <1>1, <1>2 DEF Word

-----------------------------------------------------------------------------
(* Steps *)

\* The list is left alone.
LEMMA SameList == ASSUME IInv, UNCHANGED list PROVE IsList(list)' /\ LexemesFit'
BY DEF IInv, LexemesFit, IsList

\* What the invariant says of the cursor, and of the next one.
LEMMA Here ==
  ASSUME IInv, phase # "fraction"
  PROVE  /\ source \in Sources /\ at.cur_idx \in Nat /\ IsAt(at, at.cur_idx)
         /\ start_idx \in Nat /\ start_idx <= at.cur_idx
         /\ filesize \in Nat /\ filesize <= Len(source) /\ Len(source) \in Nat
         /\ peek(at) # NUL => at.cur_idx < filesize
         /\ at.cur_idx < filesize =>
              IsAt(advance(at), at.cur_idx + 1) /\ advance(at).cur_idx = at.cur_idx + 1
<1>1. source \in Sources /\ at.cur_idx \in Nat /\ IsAt(at, at.cur_idx)
      /\ start_idx \in Nat /\ start_idx <= at.cur_idx
  BY DEF IInv, IsAt
<1>2. filesize \in Nat /\ filesize <= Len(source) /\ Len(source) \in Nat
  BY <1>1, Sizes
<1>3. peek(at) # NUL => at.cur_idx < filesize
  BY <1>1, <1>2 DEF peek
<1>4. at.cur_idx < filesize => at.cur_idx + 1 < IdxBound
  BY <1>1, <1>2, Sizes
<1> QED BY <1>1, <1>2, <1>3, <1>4, Advances

\* A loop over the characters of a word, a number or a string goes on.
LEMMA AdvanceInv ==
  ASSUME IInv, phase \in {"word", "number", "string"}, at.cur_idx < filesize, Advance
  PROVE  IInv'
<1>1. /\ at' = advance(at) /\ UNCHANGED <<source, start_idx, list, lexeme, phase>>
  BY DEF Advance
<1>2. filesize' = filesize
  BY <1>1 DEF filesize
<1>3. IsAt(at', at'.cur_idx) /\ at'.cur_idx = at.cur_idx + 1
  BY <1>1, Here
<1>4. at'.cur_idx \in Nat /\ start_idx < at'.cur_idx /\ at'.cur_idx <= filesize
  BY <1>3, Here
<1>5. IsAt(at, at.cur_idx)'
  BY <1>1, <1>3 DEF IsAt, Beyond, CharAt
<1> QED BY <1>1, <1>2, <1>4, <1>5, Here, SameList DEF IInv

\* A token is added, and the tokenizer goes on between two tokens.
LEMMA AddInv ==
  ASSUME IInv, phase # "fraction", NEW token, Len(token.lexeme) < MAX_LEXEME, NEW c, NEW k,
         IsAt(c, k), NEW start \in Nat, start <= k, start_idx' = start, at' = c,
         list' = add_list(list, token), phase' = "scan", UNCHANGED source
  PROVE  IInv'
<1>1. IsAt(at, at.cur_idx)' /\ at'.cur_idx = k
  BY DEF IsAt, Beyond, CharAt, Cursor
<1>2. IsList(list)' /\ LexemesFit'
  BY AddFits DEF IInv
<1> QED BY <1>1, <1>2 DEF IInv, phases

\* A lexeme from `start` on is added, or is found too long.
LEMMA CreateTokenInv ==
  ASSUME IInv, phase \in {"word", "number", "string"}, NEW type, NEW start \in Nat,
         start <= at.cur_idx, NEW c, NEW k \in Nat, IsAt(c, k), at.cur_idx <= k,
         createToken(type, start, c)
  PROVE  IInv'
<1>1. CASE Fits(start, at) /\ Add(Token(type, Word(start, at), cur_line, at.cur_idx), c)
  <2> DEFINE token == Token(type, Word(start, at), cur_line, at.cur_idx)
  <2>1. at.cur_idx <= Len(source)
    BY Here DEF IInv
  <2>2. Len(Word(start, at)) = at.cur_idx - start
    BY <2>1, Here, WordLen
  <2>3. Len(token.lexeme) < MAX_LEXEME
    BY <1>1, <2>2 DEF Fits, Token
  <2>4. start_idx' \in Nat /\ start_idx' <= k
    BY <1>1, Here DEF Add
  <2>5. at' = c /\ list' = add_list(list, token) /\ phase' = "scan" /\ UNCHANGED <<source, start_idx>>
    BY <1>1 DEF Add
  <2> HIDE DEF token
  <2> QED BY <2>3, <2>4, <2>5, Here, AddInv
<1>2. CASE Overrun
  <2>1. phase' = "overrun" /\ UNCHANGED <<source, at, start_idx, list>>
    BY <1>2 DEF Overrun, Go
  <2>2. IsAt(at, at.cur_idx)'
    BY <2>1, Here DEF IsAt, Beyond, CharAt
  <2> QED BY <2>1, <2>2, Here, SameList DEF IInv, phases
<1> QED BY <1>1, <1>2 DEF createToken

LEMMA CreateIdentiferInv == ASSUME IInv, createIdentifer PROVE IInv'
<1>1. phase = "word"
  BY DEF createIdentifer
<1>2. CASE InWord(peek(at)) /\ Advance
  BY <1>1, <1>2, AtEnd, Here, AdvanceInv
<1>3. CASE createToken(word_type(Word(start_idx, at)), start_idx, SeekBack(at))
  BY <1>1, <1>3, Here, CreateTokenInv DEF SeekBack
<1> QED BY <1>2, <1>3 DEF createIdentifer

LEMMA CreateStringInv == ASSUME IInv, createString PROVE IInv'
<1>1. phase = "string" /\ start_idx < at.cur_idx
  BY DEF createString, IInv
<1>2. CASE InString(peek(at)) /\ Advance
  BY <1>1, <1>2, AtEnd, Here, AdvanceInv
<1>3. CASE createToken("T_UNKNOWN", start_idx, SeekBack(at))
  BY <1>1, <1>3, Here, CreateTokenInv DEF SeekBack
<1>4. CASE peek(at) = Quote /\ createToken("T_STRING_LIT", start_idx + 1, advance(SeekBack(at)))
  <2>1. /\ start_idx + 1 \in Nat /\ start_idx + 1 <= at.cur_idx
        /\ at.cur_idx + 1 \in Nat /\ at.cur_idx <= at.cur_idx + 1
    BY <1>1, Here
  <2>2. IsAt(advance(at), at.cur_idx + 1)
    BY <1>1, <1>4, AtEnd, Here
  <2>3. createToken("T_STRING_LIT", start_idx + 1, advance(at))
    BY <1>4 DEF SeekBack
  <2> QED BY <1>1, <2>1, <2>2, <2>3, CreateTokenInv
<1> QED BY <1>2, <1>3, <1>4 DEF createString

LEMMA CreateNumberInv == ASSUME IInv, createNumber PROVE IInv'
<1>1. phase = "number"
  BY DEF createNumber
<1>2. CASE InNumber(peek(at)) /\ Advance
  BY <1>1, <1>2, AtEnd, Here, AdvanceInv
<1>3. CASE phase' = "fraction" /\ UNCHANGED <<source, start_idx, cur_line, list, lexeme>>
  BY <1>3, SameList DEF IInv, phases
<1>4. CASE createToken("T_NUMBER_LIT", start_idx, SeekBack(at))
  BY <1>1, <1>4, Here, CreateTokenInv DEF SeekBack
<1> QED BY <1>2, <1>3, <1>4 DEF createNumber

LEMMA CreateFractionInv == ASSUME IInv, createFraction PROVE IInv'
BY SameList DEF IInv, createFraction, Advance, phases

LEMMA CreateCommentInv == ASSUME IInv, createCommentToken PROVE IInv'
<1>1. /\ phase = "comment" /\ Len(lexeme) \in Nat /\ start_idx < filesize
      /\ at.cur_idx = start_idx + 2 + Len(lexeme)
  BY DEF createCommentToken, IInv
<1>2. CASE /\ Len(lexeme) < MAX_LEXEME /\ lexeme' = Append(lexeme, peek(at)) /\ at' = advance(at)
           /\ UNCHANGED <<source, start_idx, cur_line, list, phase>>
  <2>1. PICK S : lexeme \in Seq(S)
    BY <1>1 DEF IInv
  <2>2. lexeme' \in Seq(S \cup {peek(at)}) /\ Len(lexeme') = Len(lexeme) + 1
    BY <1>2, <2>1
  <2>3. at.cur_idx + 1 < IdxBound
    BY <1>1, <1>2, Here, Sizes
  <2>4. IsAt(at', at.cur_idx + 1) /\ at'.cur_idx = at.cur_idx + 1
    BY <1>1, <1>2, <2>3, Here, Advances
  <2>5. IsAt(at, at.cur_idx)'
    BY <1>2, <2>4 DEF IsAt, Beyond, CharAt
  <2>6. filesize' = filesize
    BY <1>2 DEF filesize
  <2>7. /\ Len(lexeme') \in Nat /\ Len(lexeme') <= MAX_LEXEME
        /\ at'.cur_idx = start_idx + 2 + Len(lexeme') /\ start_idx <= at'.cur_idx
    <3>1. MAX_LEXEME \in Nat /\ start_idx \in Nat
      BY <1>1, Here, Sizes
    <3>2. ASSUME NEW n \in Nat, n < MAX_LEXEME, NEW m, m = n + 1, NEW k, k = start_idx + 2 + n + 1
          PROVE  m \in Nat /\ m <= MAX_LEXEME /\ k = start_idx + 2 + m /\ start_idx <= k
      BY <3>1, <3>2
    <3> QED BY <1>1, <1>2, <2>2, <2>4, <3>2
  <2>8. (\E T : lexeme \in Seq(T))'
    BY <2>2
  <2> QED BY <1>1, <1>2, <2>5, <2>6, <2>7, <2>8, Here, SameList DEF IInv, phases
<1>3. CASE /\ Len(lexeme) < MAX_LEXEME
           /\ Add(Token("T_COMMENT", lexeme, at.cur_idx, cur_line), at)
  <2> DEFINE token == Token("T_COMMENT", lexeme, at.cur_idx, cur_line)
  <2>1. Len(token.lexeme) < MAX_LEXEME
    BY <1>3 DEF Token
  <2>2. /\ at' = at /\ list' = add_list(list, token) /\ phase' = "scan"
        /\ UNCHANGED <<source, start_idx>>
    BY <1>3 DEF Add
  <2> HIDE DEF token
  <2> QED BY <1>1, <2>1, <2>2, Here, AddInv
<1>4. CASE Overrun
  <2>1. phase' = "overrun" /\ UNCHANGED <<source, at, start_idx, list>>
    BY <1>4 DEF Overrun, Go
  <2>2. IsAt(at, at.cur_idx)'
    BY <1>1, <2>1, Here DEF IsAt, Beyond, CharAt
  <2> QED BY <1>1, <2>1, <2>2, Here, SameList DEF IInv, phases
<1> QED BY <1>2, <1>3, <1>4 DEF createCommentToken

LEMMA ScanningAt ==
  ASSUME IInv, Scanning
  PROVE  /\ phase = "scan" /\ at.cur_idx < filesize
         /\ IsAt(next, at.cur_idx + 1) /\ next.cur_idx = at.cur_idx + 1
         /\ IsAt(advance(next), at.cur_idx + 2) /\ advance(next).cur_idx = at.cur_idx + 2
<1>1. /\ source \in Sources /\ at.cur_idx \in Nat /\ phase = "scan" /\ at.cur_idx < filesize
      /\ IsAt(next, at.cur_idx + 1) /\ next.cur_idx = at.cur_idx + 1
  BY Here DEF Scanning, next
<1>2. at.cur_idx + 1 \in Nat /\ at.cur_idx + 1 + 1 < IdxBound /\ at.cur_idx + 1 + 1 = at.cur_idx + 2
  BY <1>1, Sizes
<1> HIDE DEF next
<1> QED BY <1>1, <1>2, Advances

LEMMA AddSymbolInv ==
  ASSUME IInv, Scanning, NEW type, NEW c, NEW k \in {at.cur_idx + 1, at.cur_idx + 2},
         IsAt(c, k), k <= filesize, AddSymbol(type, c)
  PROVE  IInv'
<1> DEFINE token == Token(type, Word(at.cur_idx, c), cur_line, c.cur_idx)
<1>1. c.cur_idx = k /\ k \in Nat /\ at.cur_idx \in Nat /\ at.cur_idx <= k
  BY ScanningAt, Here DEF IsAt, Cursor
<1>a. phase # "fraction"
  BY ScanningAt
<1>b. source \in Sources /\ filesize \in Nat /\ filesize <= Len(source) /\ Len(source) \in Nat
  BY <1>a, Here
<1>c. k <= Len(source)
  BY <1>1, <1>b
<1>2. Len(Word(at.cur_idx, c)) = k - at.cur_idx
  BY <1>1, <1>b, <1>c, WordLen
<1>3. k - at.cur_idx < MAX_LEXEME
  BY <1>1, ScanningAt, Here, Sizes
<1>4. Len(token.lexeme) < MAX_LEXEME
  BY <1>2, <1>3 DEF Token
<1>5. /\ list' = add_list(list, token) /\ start_idx' = at.cur_idx /\ at' = c
      /\ phase' = "scan" /\ UNCHANGED source
  BY ScanningAt DEF AddSymbol, SeekBack
<1> HIDE DEF token
<1> QED BY <1>1, <1>4, <1>5, ScanningAt, AddInv

\* Doubled only when there is another character.
LEMMA DoubledInside ==
  ASSUME IInv, Scanning, Doubled
  PROVE  at.cur_idx + 1 < filesize
BY ScanningAt DEF Doubled, match

LEMMA ScanSymbolInv == ASSUME IInv, ScanSymbol PROVE IInv'
<1>1. Scanning
  BY DEF ScanSymbol
<1>2. /\ at.cur_idx + 1 <= filesize /\ (Doubled => at.cur_idx + 2 <= filesize)
  BY <1>1, ScanningAt, DoubledInside, Here
<1>3. CASE AddSymbol(single[at.cur], next)
  BY <1>1, <1>2, <1>3, ScanningAt, AddSymbolInv
<1>4. CASE Doubled /\ \E c \in Longer : AddSymbol(double[<<at.cur, c>>], advance(next))
  BY <1>1, <1>2, <1>4, ScanningAt, AddSymbolInv
<1> QED BY <1>3, <1>4 DEF ScanSymbol

LEMMA EnterInv ==
  ASSUME IInv, Scanning, NEW fn, NEW c, NEW k \in Nat, IsAt(c, k), Enter(fn, c),
         \/ fn \in {"word", "number", "string"} /\ k = at.cur_idx + 1
         \/ fn = "comment" /\ k = at.cur_idx + 2
  PROVE  IInv'
<1>1. /\ start_idx' = at.cur_idx /\ at' = c /\ lexeme' = <<>> /\ phase' = fn
      /\ UNCHANGED <<source, list>>
  BY DEF Enter
<1>2. IsAt(at, at.cur_idx)' /\ at'.cur_idx = k /\ filesize' = filesize
  BY <1>1 DEF IsAt, Beyond, CharAt, Cursor, filesize
<1>3. Len(lexeme') = 0 /\ lexeme' \in Seq({})
  BY <1>1
<1>4. source \in Sources /\ at.cur_idx \in Nat /\ at.cur_idx < filesize /\ filesize \in Nat
      /\ MAX_LEXEME \in Nat /\ phase = "scan"
  BY ScanningAt, Here, Sizes
<1>5. /\ start_idx' \in Nat /\ start_idx' <= at'.cur_idx
      /\ fn # "comment" => start_idx' < at'.cur_idx /\ at'.cur_idx <= filesize
      /\ fn = "comment" => at'.cur_idx = start_idx' + 2 + 0
  BY <1>1, <1>2, <1>4
<1>6. fn = "comment" => \/ fn \notin {"word", "number", "string"}
  OBVIOUS
<1>7. (\E S : lexeme \in Seq(S))'
  BY <1>3
<1> QED BY <1>1, <1>2, <1>3, <1>4, <1>5, <1>7, SameList DEF IInv, phases

LEMMA ScanLongerInv == ASSUME IInv, ScanLonger PROVE IInv'
<1>1. Scanning
  BY DEF ScanLonger
<1>2. at.cur_idx + 1 \in Nat /\ at.cur_idx + 2 \in Nat
  BY <1>1, ScanningAt, Here
<1>3. CASE Enter("comment", advance(next))
  BY <1>1, <1>2, <1>3, ScanningAt, EnterInv
<1>4. CASE \E fn \in {"word", "number", "string"} : Enter(fn, next)
  BY <1>1, <1>2, <1>4, ScanningAt, EnterInv
<1> QED BY <1>3, <1>4 DEF ScanLonger

LEMMA ScanOtherInv == ASSUME IInv, ScanBlank \/ ScanUnknown PROVE IInv'
<1>1. /\ Scanning /\ start_idx' = at.cur_idx /\ at' = next /\ phase' \in {"scan", "exit"}
      /\ UNCHANGED <<source, list>>
  BY DEF ScanBlank, ScanUnknown, Scanning
<1>2. IsAt(at, at.cur_idx)' /\ at'.cur_idx = at.cur_idx + 1 /\ at.cur_idx \in Nat
  BY <1>1, ScanningAt, Here DEF IsAt, Beyond, CharAt
<1>3. at.cur_idx <= at'.cur_idx /\ source \in Sources
  BY <1>1, <1>2, ScanningAt, Here
<1> QED BY <1>1, <1>2, <1>3, SameList DEF IInv, phases

LEMMA FinishInv == ASSUME IInv, Finish PROVE IInv'
<1>1. /\ phase = "scan" /\ list' = add_list(list, Token("T_EOF", <<>>, -1, -1)) /\ phase' = "done"
      /\ UNCHANGED <<source, at, start_idx>>
  BY DEF Finish
<1>2. Len(Token("T_EOF", <<>>, -1, -1).lexeme) < MAX_LEXEME
  BY BoundsAssumption DEF Token
<1>3. IsList(list)' /\ LexemesFit'
  BY <1>1, <1>2, AddFits DEF IInv
<1>4. IsAt(at, at.cur_idx)'
  BY <1>1, Here DEF IsAt, Beyond, CharAt
<1> QED BY <1>1, <1>3, <1>4, Here DEF IInv, phases

-----------------------------------------------------------------------------
(* The invariant *)

LEMMA Starts == Init => IInv
<1> SUFFICES ASSUME Init PROVE IInv
  OBVIOUS
<1>1. IsAt(at, at.cur_idx) /\ at.cur_idx = 0 /\ start_idx = 0
  BY DEF Init, IsAt, Cursor
<1>2. list = [length |-> 0, capacity |-> Capacity, items |-> Block(Capacity, <<>>)]
  BY DEF Init, init_list
<1>3. Block(Capacity, <<>>) = [k \in 0..Capacity - 1 |-> Block(Capacity, <<>>)[k]]
  BY DEF Block
<1>4. IsList(list)
  BY <1>2, <1>3, BoundsAssumption DEF IsList
<1>5. LexemesFit
  BY <1>2, <1>4 DEF LexemesFit, IsList
<1> QED BY <1>1, <1>4, <1>5 DEF Init, IInv, phases

LEMMA Inductive == IInv /\ [Next]_vars => IInv'
<1> SUFFICES ASSUME IInv, [Next]_vars PROVE IInv'
  OBVIOUS
<1>1. CASE scanToken
  BY <1>1, ScanSymbolInv, ScanLongerInv, ScanOtherInv DEF scanToken
<1>2. CASE create
  BY <1>2, CreateIdentiferInv, CreateStringInv, CreateNumberInv, CreateFractionInv, CreateCommentInv
     DEF create
<1>3. CASE UNCHANGED vars
  <2>1. UNCHANGED <<source, at, start_idx, list, lexeme, phase>>
    BY <1>3 DEF vars
  <2>2. filesize' = filesize
    BY <2>1 DEF filesize
  <2> QED BY <2>1, <2>2, SameList DEF IInv, IsAt, Beyond, CharAt
<1> QED BY <1>1, <1>2, <1>3, FinishInv DEF Next, tokenize, Terminated

-----------------------------------------------------------------------------
(* Texts, and the longest runs of their characters *)

\* The characters of words and of numbers.
Alnum == Letter \cup Digit
Digits == Digit \cup {"_"}

\* How far s is made of characters of C.
RunOf(s, C) == Max({k \in 0..Len(s) : \A j \in 1..k : s[j] \in C})

LEMMA RunIs ==
  ASSUME NEW s, NEW C, NEW n \in Nat, Len(s) \in Nat, n <= Len(s),
         \A j \in 1..n : s[j] \in C, n < Len(s) => s[n + 1] \notin C
  PROVE  RunOf(s, C) = n
<1> DEFINE K == {k \in 0..Len(s) : \A j \in 1..k : s[j] \in C}
<1>1. n \in K /\ K \subseteq 0..Len(s)
  OBVIOUS
<1>2. \A k \in K : k <= n
  <2> SUFFICES ASSUME NEW k \in K, k > n PROVE FALSE
    BY <1>1
  <2>1. n + 1 \in 1..k /\ n < Len(s)
    OBVIOUS
  <2> QED BY <2>1
<1>3. RunOf(s, C) = Max(K)
  BY DEF RunOf
<1>4. \A k \in K : n >= k
  <2>1. \A k \in K : k \in Nat
    BY <1>1
  <2> QED BY <1>2, <2>1
<1> HIDE DEF K
<1>5. K \subseteq Int
  BY <1>1
<1>6. Max(K) \in K /\ \A k \in K : Max(K) >= k
  BY <1>1, <1>4 DEF Max
<1>7. n >= Max(K) /\ Max(K) >= n /\ Max(K) \in Int
  BY <1>1, <1>4, <1>5, <1>6
<1>8. Max(K) = n
  BY <1>7
<1> QED BY <1>3, <1>8

\* The text from the c-th character on.
From(c) == SubSeq(source, c + 1, filesize)

LEMMA FromIs ==
  ASSUME source \in Sources, NEW c \in Nat, c <= filesize
  PROVE  /\ From(c) \in Seq(STRING) /\ Len(From(c)) = filesize - c
         /\ \A j \in 1..filesize - c : From(c)[j] = source[c + j]
<1> DEFINE m == c + 1
           n == filesize
<1>1. source \in Seq(STRING) /\ filesize \in Nat /\ filesize <= Len(source) /\ Len(source) \in Nat
  BY Sizes
<1>2. /\ m \in Int /\ n \in Int /\ m <= n + 1
      /\ \A k \in m..n : source[k] \in STRING
  BY <1>1
<1>3. /\ SubSeq(source, m, n) \in Seq(STRING)
      /\ Len(SubSeq(source, m, n)) = IF m <= n THEN n - m + 1 ELSE 0
      /\ \A i \in 1..n - m + 1 : SubSeq(source, m, n)[i] = source[m + i - 1]
  BY <1>2, SubSeqProperties
<1>4. From(c) = SubSeq(source, m, n)
  BY DEF From
<1>5. Len(From(c)) = filesize - c
  BY <1>1, <1>3, <1>4
<1>6. ASSUME NEW j \in 1..filesize - c PROVE From(c)[j] = source[c + j]
  BY <1>1, <1>3, <1>4
<1> QED BY <1>3, <1>4, <1>5, <1>6

LEMMA SubFrom ==
  ASSUME source \in Sources, NEW c \in Nat, NEW a \in Nat, NEW b \in Nat,
         c <= filesize, a <= b, c + b <= filesize
  PROVE  /\ SubSeq(From(c), a + 1, b) = SubSeq(source, c + a + 1, c + b)
         /\ SubSeq(From(c), a + 1, b) \in Seq(STRING)
         /\ Len(SubSeq(From(c), a + 1, b)) = b - a
         /\ \A i \in 1..b - a : SubSeq(From(c), a + 1, b)[i] = source[c + a + i]
<1> DEFINE s == From(c)
           u == SubSeq(s, a + 1, b)
           v == SubSeq(source, c + a + 1, c + b)
<1>1. source \in Seq(STRING) /\ filesize \in Nat /\ filesize <= Len(source) /\ Len(source) \in Nat
  BY Sizes
<1>2. /\ s \in Seq(STRING) /\ Len(s) = filesize - c
      /\ \A j \in 1..filesize - c : s[j] = source[c + j]
  BY FromIs
<1> HIDE DEF s
<1>3. /\ u \in Seq(STRING) /\ Len(u) = b - a
      /\ \A i \in 1..b - a : u[i] = s[a + i]
  <2>1. a + 1 \in Int /\ b \in Int /\ a + 1 <= b + 1 /\ \A k \in a + 1..b : s[k] \in STRING
    BY <1>1, <1>2
  <2>2. /\ u \in Seq(STRING)
        /\ Len(u) = IF a + 1 <= b THEN b - (a + 1) + 1 ELSE 0
        /\ \A i \in 1..b - (a + 1) + 1 : u[i] = s[(a + 1) + i - 1]
    BY <2>1, SubSeqProperties
  <2> HIDE DEF u
  <2> QED BY <2>2
<1>4. /\ v \in Seq(STRING) /\ Len(v) = b - a
      /\ \A i \in 1..b - a : v[i] = source[c + a + i]
  <2> DEFINE m == c + a + 1
             n == c + b
  <2>1. m \in Int /\ n \in Int /\ m <= n + 1 /\ \A k \in m..n : source[k] \in STRING
    BY <1>1
  <2>2. /\ v \in Seq(STRING)
        /\ Len(v) = IF m <= n THEN n - m + 1 ELSE 0
        /\ \A i \in 1..n - m + 1 : v[i] = source[m + i - 1]
    BY <2>1, SubSeqProperties
  <2> HIDE DEF v
  <2> QED BY <2>2
<1> HIDE DEF u, v
<1>5. \A i \in 1..b - a : u[i] = v[i] /\ u[i] = source[c + a + i]
  <2> SUFFICES ASSUME NEW i \in 1..b - a PROVE u[i] = v[i] /\ u[i] = source[c + a + i]
    OBVIOUS
  <2>1. a + i \in 1..filesize - c /\ c + (a + i) = c + a + i
    BY <1>1
  <2> QED BY <1>2, <1>3, <1>4, <2>1
<1>6. u = v
  BY <1>3, <1>4, <1>5
<1> QED BY <1>3, <1>5, <1>6 DEF u, v, s

LEMMA FunctionSeq ==
  ASSUME NEW T, NEW m \in Nat, NEW f \in [1..m -> T]
  PROVE  f \in Seq(T) /\ Len(f) = m
OBVIOUS

\* t is s of length n with one more item.
OneMore(n, s, t, e) ==
  /\ n \in Nat /\ s = [i \in 1..n |-> s[i]] /\ t = [i \in 1..n + 1 |-> t[i]]
  /\ (\A i \in 1..n : t[i] = s[i]) /\ t[n + 1] = e

LEMMA Appended ==
  ASSUME NEW n, NEW s, NEW t, NEW e, OneMore(n, s, t, e)
  PROVE  t = Append(s, e)
<1>0. /\ n \in Nat /\ s = [i \in 1..n |-> s[i]] /\ t = [i \in 1..n + 1 |-> t[i]]
      /\ (\A i \in 1..n : t[i] = s[i]) /\ t[n + 1] = e
  BY DEF OneMore
<1> DEFINE T == {s[i] : i \in 1..n} \cup {e}
<1>1. \A i \in 1..n + 1 : t[i] = IF i = n + 1 THEN e ELSE s[i]
  <2> SUFFICES ASSUME NEW i \in 1..n + 1 PROVE t[i] = IF i = n + 1 THEN e ELSE s[i]
    OBVIOUS
  <2>1. i # n + 1 => i \in 1..n
    BY <1>0
  <2> QED BY <1>0, <2>1
<1>2. s \in Seq(T) /\ Len(s) = n /\ e \in T
  <2>1. \A i \in 1..n : s[i] \in T
    BY <1>0
  <2> HIDE DEF T
  <2>0. n \in Nat
    BY <1>0
  <2>2. s \in [1..n -> T]
    BY <1>0, <2>1
  <2>3. s \in Seq(T) /\ Len(s) = n
    BY ONLY <2>0, <2>2, FunctionSeq
  <2>4. e \in T
    BY DEF T
  <2> QED BY <2>3, <2>4
<1>3. t \in Seq(T) /\ Len(t) = n + 1
  <2>1. \A i \in 1..n + 1 : t[i] \in T
    <3> SUFFICES ASSUME NEW i \in 1..n + 1 PROVE t[i] \in T
      OBVIOUS
    <3>1. i # n + 1 => i \in 1..n
      BY <1>0
    <3> QED BY <1>1, <3>1
  <2> HIDE DEF T
  <2>2. t \in [1..n + 1 -> T]
    BY <1>0, <2>1
  <2>3. n + 1 \in Nat
    BY <1>0
  <2> QED BY ONLY <2>2, <2>3, FunctionSeq
<1> HIDE DEF T
<1>4. /\ Append(s, e) \in Seq(T) /\ Len(Append(s, e)) = n + 1
      /\ \A i \in 1..n + 1 : Append(s, e)[i] = IF i = n + 1 THEN e ELSE s[i]
  BY <1>0, <1>2
<1>5. \A i \in 1..Len(t) : t[i] = Append(s, e)[i]
  BY <1>0, <1>1, <1>3, <1>4
<1> QED BY <1>3, <1>4, <1>5, SeqEqual

\* What is unread k characters later.
LEMMA Onward ==
  ASSUME source \in Sources, NEW c \in Nat, NEW k \in Nat, c + k <= filesize
  PROVE  From(c + k) = SubSeq(From(c), k + 1, Len(From(c)))
<1>1. filesize \in Nat
  BY Sizes
<1>2. PICK m \in Nat : m = filesize - c
  BY <1>1
<1>3. c <= filesize /\ k <= m /\ c + m = filesize
  BY <1>1, <1>2
<1>4. Len(From(c)) = m
  BY <1>2, <1>3, FromIs
<1>5. SubSeq(From(c), k + 1, m) = SubSeq(source, c + k + 1, c + m)
  BY <1>3, SubFrom
<1> QED BY <1>3, <1>4, <1>5 DEF From

-----------------------------------------------------------------------------
(* The tables of symbols *)

LEMMA SameTables ==
  /\ L!single = single /\ L!double = double
  /\ L!Starts = Known
  /\ \A w : L!word_type(w) = word_type(w)
BY DEF L!single, single, L!singles, singles, L!double, double, L!doubles, doubles, L!Starts, Known, L!Letter, Letter, L!Digit, Digit,
       L!Blank, Blank, L!Newline, Newline, L!Quote, Quote, L!word_type, word_type, L!keyword, keyword, L!keywords, keywords, L!Table, Table

\* The two characters of a longer symbol, its second being that of the first.
Pairs ==
  {<<"-", "-">>, <<"+", "+">>, <<"/", "/">>, <<"!", "=">>, <<">", "=">>, <<"<", "=">>, <<"=", "=">>}

LEMMA Domains ==
  /\ DOMAIN double = Pairs
  /\ {"-", "+", "/", "!", ">", "<", "="} \subseteq DOMAIN single
  /\ \A w \in Pairs : double[w] = "T_COMMENT" <=> w = <<"/", "/">>
<1>1. double = Table(doubles)
  BY DEF double
<1>2. DOMAIN double = {e[1] : e \in doubles}
  BY <1>1 DEF Table
<1>3. {e[1] : e \in doubles} = Pairs
  BY DEF Pairs, doubles
<1>4. {"-", "+", "/", "!", ">", "<", "="} \subseteq DOMAIN single
  BY DEF single, singles, Table
<1>5. ASSUME NEW w \in Pairs PROVE double[w] = "T_COMMENT" <=> w = <<"/", "/">>
  <2>1. PICK e \in doubles : e[1] = w /\ double[w] = e[2]
    BY <1>1, <1>3 DEF Table
  <2> QED BY <2>1 DEF doubles
<1> QED BY <1>2, <1>3, <1>4, <1>5

-----------------------------------------------------------------------------
(* Steps of the lexer *)

Reads ==
  [k \in 1..list.length |->
     LET token == get_list(list, k - 1) IN [type |-> token.type, text |-> token.lexeme]]

LEMMA LexVars ==
  ASSUME UNCHANGED <<Unread, Reads>>, phase \notin {"done", "exit"}, phase' \notin {"done", "exit"}
  PROVE  UNCHANGED L!lexVars
BY DEF L!lexVars, Reads

\* A token more is read.
LEMMA ReadsMore ==
  ASSUME IInv, NEW token, list' = add_list(list, token)
  PROVE  Reads' = Append(Reads, [type |-> token.type, text |-> token.lexeme])
<1> DEFINE entry == [type |-> token.type, text |-> token.lexeme]
<1>1. /\ IsList(list') /\ list'.length = list.length + 1 /\ list.length \in Nat
      /\ \A i \in 0..list.length :
           get_list(list', i) = IF i = list.length THEN token ELSE get_list(list, i)
  <2>1. IsList(list)
    BY DEF IInv
  <2>2. list.length \in Nat
    BY <2>1 DEF IsList
  <2> QED BY <2>1, <2>2, Adding
<1>2. Reads' = Append(Reads, entry)
  <2> DEFINE n == list.length
             Item(l, i) == [type |-> get_list(l, i - 1).type, text |-> get_list(l, i - 1).lexeme]
             s == [i \in 1..n |-> Item(list, i)]
             t == [i \in 1..n + 1 |-> Item(list', i)]
  <2>1. Reads = s
    BY DEF Reads
  <2>2. Reads' = [i \in 1..list'.length |-> Item(list', i)]
    BY DEF Reads
  <2>3. Reads' = t
    BY <1>1, <2>2
  <2>4. \A i \in 1..n + 1 : Item(list', i) = IF i = n + 1 THEN entry ELSE Item(list, i)
    <3> SUFFICES ASSUME NEW i \in 1..n + 1
                 PROVE  Item(list', i) = IF i = n + 1 THEN entry ELSE Item(list, i)
      OBVIOUS
    <3>1. i - 1 \in 0..n /\ (i - 1 = n <=> i = n + 1)
      BY <1>1
    <3>2. get_list(list', i - 1) = IF i = n + 1 THEN token ELSE get_list(list, i - 1)
      BY <1>1, <3>1
    <3> QED BY <3>2
  <2>5. s = [i \in 1..n |-> s[i]] /\ t = [i \in 1..n + 1 |-> t[i]]
    OBVIOUS
  <2>6. (\A i \in 1..n : t[i] = s[i]) /\ t[n + 1] = entry
    <3>1. \A i \in 1..n : i \in 1..n + 1 /\ i # n + 1
      BY <1>1
    <3>2. n + 1 \in 1..n + 1
      BY <1>1
    <3> HIDE DEF Item, entry
    <3> QED BY <2>4, <3>1, <3>2
  <2>a. n \in Nat
    BY <1>1
  <2> HIDE DEF Item, entry, s, t, n
  <2>b. OneMore(n, s, t, entry)
    BY <2>5, <2>6, <2>a DEF OneMore
  <2>7. t = Append(s, entry)
    BY <2>b, Appended
  <2> QED BY <2>1, <2>3, <2>7
<1> QED BY <1>2

\* A token is added after k characters more: the lexer takes them.
LEMMA Taken ==
  ASSUME IInv, phase \notin {"done", "exit"}, Consumed \in Nat, NEW k \in Nat,
         Consumed + k <= filesize, Consumed' = Consumed + k, NEW token,
         list' = add_list(list, token), phase' = "scan", UNCHANGED source
  PROVE  L!Take(k, token.type, token.lexeme)
<1> DEFINE entry == [type |-> token.type, text |-> token.lexeme]
<1>1. source \in Sources /\ filesize \in Nat /\ filesize' = filesize
  BY Sizes DEF IInv, filesize
<1>2. Unread' = SubSeq(Unread, k + 1, Len(Unread))
  <2>1. Unread = From(Consumed)
    BY DEF Unread, From
  <2>2. Unread' = From(Consumed + k)
    BY <1>1 DEF Unread, From
  <2>3. From(Consumed + k) = SubSeq(From(Consumed), k + 1, Len(From(Consumed)))
    BY <1>1, Onward
  <2> QED BY <2>1, <2>2, <2>3
<1>3. Reads' = Append(Reads, entry)
  BY ReadsMore
<1>4. phase' \notin {"done", "exit"}
  OBVIOUS
<1> QED BY <1>2, <1>3, <1>4 DEF L!Take, L!After, L!Lexeme, Reads

\* What is in strings and in comments.
Inside == STRING \ {Quote, NUL}
Line == STRING \ {Newline}

\* The lexer's longest runs.
LEMMA Runs ==
  ASSUME NEW s \in Seq(STRING)
  PROVE  /\ L!Run(s, LAMBDA c : L!isalpha(c) \/ L!isdigit(c)) = RunOf(s, Alnum)
         /\ L!Run(s, LAMBDA c : L!isdigit(c) \/ c = "_") = RunOf(s, Digits)
         /\ L!Run(s, L!isdigit) = RunOf(s, Digit)
         /\ L!Run(s, LAMBDA c : c # L!Quote /\ c # L!NUL) = RunOf(s, Inside)
         /\ L!Run(s, LAMBDA c : c # L!Newline) = RunOf(s, Line)
         /\ L!Run(s, InWord) = RunOf(s, Alnum)
         /\ L!Run(s, InNumber) = RunOf(s, Digits)
         /\ L!Run(s, InString) = RunOf(s, Inside)
<1>1. \A k \in 0..Len(s) : \A j \in 1..k : s[j] \in STRING
  OBVIOUS
<1>2. {k \in 0..Len(s) : \A j \in 1..k : s[j] \in Inside} =
      {k \in 0..Len(s) : \A j \in 1..k : s[j] # Quote /\ s[j] # NUL}
  BY <1>1 DEF Inside
<1>3. {k \in 0..Len(s) : \A j \in 1..k : s[j] \in Line} =
      {k \in 0..Len(s) : \A j \in 1..k : s[j] # Newline}
  BY <1>1 DEF Line
<1>4. L!Run(s, LAMBDA c : L!isalpha(c) \/ L!isdigit(c)) = RunOf(s, Alnum)
  BY DEF L!Run, L!Max, Max, RunOf, Alnum, L!isalpha, L!isdigit, L!Letter, L!Digit, Letter, Digit
<1>5. L!Run(s, LAMBDA c : L!isdigit(c) \/ c = "_") = RunOf(s, Digits)
  BY DEF L!Run, L!Max, Max, RunOf, Digits, L!isdigit, L!Digit, Digit
<1>6. L!Run(s, L!isdigit) = RunOf(s, Digit)
  BY DEF L!Run, L!Max, Max, RunOf, L!isdigit, L!Digit, Digit
<1>7. L!Run(s, LAMBDA c : c # L!Quote /\ c # L!NUL) = RunOf(s, Inside)
  BY <1>2 DEF L!Run, L!Max, Max, RunOf, L!Quote, L!NUL, Quote, NUL
<1>8. L!Run(s, LAMBDA c : c # L!Newline) = RunOf(s, Line)
  BY <1>3 DEF L!Run, L!Max, Max, RunOf, L!Newline, Newline
<1>9. L!Run(s, InWord) = RunOf(s, Alnum)
  BY DEF L!Run, L!Max, Max, RunOf, InWord, Alnum, isalpha, isdigit
<1>10. L!Run(s, InNumber) = RunOf(s, Digits)
  BY DEF L!Run, L!Max, Max, RunOf, InNumber, Digits, isdigit
<1>11. L!Run(s, InString) = RunOf(s, Inside)
  BY <1>2 DEF L!Run, L!Max, Max, RunOf, InString
<1> QED BY <1>4, <1>5, <1>6, <1>7, <1>8, <1>9, <1>10, <1>11

LEMMA FirstTwo ==
  ASSUME NEW s \in Seq(STRING), Len(s) >= 2
  PROVE  SubSeq(s, 1, 2) = <<s[1], s[2]>>
<1>1. \A i \in 1..2 : s[i] \in STRING
  OBVIOUS
<1>2. /\ SubSeq(s, 1, 2) \in Seq(STRING) /\ Len(SubSeq(s, 1, 2)) = IF 1 <= 2 THEN 2 - 1 + 1 ELSE 0
      /\ \A i \in 1..2 - 1 + 1 : SubSeq(s, 1, 2)[i] = s[1 + i - 1]
  BY <1>1, SubSeqProperties
<1> DEFINE u == SubSeq(s, 1, 2)
           v == <<s[1], s[2]>>
<1>3. v \in Seq(STRING) /\ Len(v) = 2 /\ v[1] = s[1] /\ v[2] = s[2]
  BY <1>1
<1> HIDE DEF u, v
<1>4. u \in Seq(STRING) /\ Len(u) = 2
  BY <1>2 DEF u
<1>5. u[1] = s[1] /\ u[2] = s[2]
  <2>1. u[1] = s[1 + 1 - 1] /\ u[2] = s[1 + 2 - 1]
    BY <1>2 DEF u
  <2> QED BY <2>1
<1>6. \A i \in 1..Len(u) : u[i] = v[i]
  BY <1>3, <1>4, <1>5
<1>7. u = v
  BY <1>3, <1>4, <1>6, SeqEqual
<1> QED BY <1>7 DEF u, v

LEMMA LexWord ==
  ASSUME Unread \in Seq(STRING), Unread # <<>>, isalpha(Unread[1]), NEW k \in Nat, k <= Len(Unread),
         k = RunOf(Unread, Alnum), L!Take(k, word_type(SubSeq(Unread, 1, k)), SubSeq(Unread, 1, k))
  PROVE  L!Word
<1>1. L!Start(k) = SubSeq(Unread, 1, k)
  BY DEF L!Start
<1>2. L!isalpha(Unread[1])
  BY DEF L!isalpha, isalpha, L!Letter, Letter
<1>3. L!word_type(L!Start(k)) = word_type(SubSeq(Unread, 1, k))
  BY <1>1, SameTables
<1>4. L!Run(Unread, LAMBDA c : L!isalpha(c) \/ L!isdigit(c)) = k
  BY Runs
<1> HIDE DEF Unread
<1> QED BY <1>1, <1>2, <1>3, <1>4 DEF L!Word

LEMMA LexNumber ==
  ASSUME Unread \in Seq(STRING), Unread # <<>>, isdigit(Unread[1]), NEW k \in Nat, k <= Len(Unread),
         k = RunOf(Unread, Digits),
         ~(k + 1 < Len(Unread) /\ Unread[k + 1] = "." /\ isdigit(Unread[k + 2])),
         L!Take(k, "T_NUMBER_LIT", SubSeq(Unread, 1, k))
  PROVE  L!Number
<1>1. L!Start(k) = SubSeq(Unread, 1, k)
  BY DEF L!Start
<1>2. L!isdigit(Unread[1])
  BY DEF L!isdigit, isdigit, L!Digit, Digit
<1>3. L!Run(Unread, LAMBDA c : L!isdigit(c) \/ c = "_") = k
  BY Runs
<1>4. ASSUME Len(Unread) > k, Unread[k + 1] = "."
      PROVE  L!Run(L!After(k + 1), L!isdigit) = 0
  <2> DEFINE a == k + 1
             m == a + 1
             n == Len(Unread)
             s == SubSeq(Unread, m, n)
  <2>1. L!After(a) = s
    BY DEF L!After
  <2>2. n \in Nat /\ m \in Int /\ m = k + 2 /\ \A i \in m..n : Unread[i] \in STRING
    OBVIOUS
  <2>3. /\ s \in Seq(STRING) /\ Len(s) = IF m <= n THEN n - m + 1 ELSE 0
        /\ \A i \in 1..n - m + 1 : s[i] = Unread[m + i - 1]
    BY <2>2, SubSeqProperties
  <2> HIDE DEF s, m
  <2>4. 0 < Len(s) => s[1] = Unread[k + 2] /\ k + 1 < n
    <3> SUFFICES ASSUME 0 < Len(s) PROVE s[1] = Unread[k + 2] /\ k + 1 < n
      OBVIOUS
    <3>1. m <= n
      BY <2>2, <2>3
    <3>2. 1 \in 1..n - m + 1 /\ m + 1 - 1 = k + 2
      BY <2>2, <3>1
    <3>3. s[1] = Unread[m + 1 - 1]
      BY <2>3, <3>2
    <3>4. s[1] = Unread[k + 2]
      BY ONLY <3>2, <3>3
    <3>5. k + 1 < n
      BY ONLY <2>2, <3>1
    <3> QED BY <3>4, <3>5
  <2>5. 0 < Len(s) => s[0 + 1] \notin Digit
    BY <1>4, <2>4 DEF isdigit
  <2>6. Len(s) \in Nat /\ 0 <= Len(s) /\ \A j \in 1..0 : s[j] \in Digit
    BY <2>3
  <2>7. RunOf(s, Digit) = 0
    BY ONLY <2>5, <2>6, RunIs
  <2> QED BY <2>1, <2>3, <2>7, Runs
<1> HIDE DEF Unread
<1> QED BY <1>1, <1>2, <1>3, <1>4 DEF L!Number

LEMMA LexString ==
  ASSUME Unread \in Seq(STRING), Unread # <<>>, Unread[1] = Quote, NEW k \in Nat, 1 + k <= Len(Unread),
         k = RunOf(SubSeq(Unread, 2, Len(Unread)), Inside),
         IF Len(Unread) > 1 + k /\ Unread[2 + k] = Quote
         THEN L!Take(2 + k, "T_STRING_LIT", SubSeq(Unread, 2, 1 + k))
         ELSE L!Take(1 + k, "T_UNKNOWN", SubSeq(Unread, 1, 1 + k))
  PROVE  L!String
<1>1. L!Start(1 + k) = SubSeq(Unread, 1, 1 + k)
  BY DEF L!Start
<1>2. Unread[1] = L!Quote /\ L!Quote = Quote
  BY DEF L!Quote, Quote
<1>3. L!After(1) = SubSeq(Unread, 2, Len(Unread))
  BY DEF L!After
<1>4. SubSeq(Unread, 2, Len(Unread)) \in Seq(STRING)
  <2>1. Len(Unread) \in Int /\ \A i \in 2..Len(Unread) : Unread[i] \in STRING
    OBVIOUS
  <2> QED BY <2>1, SubSeqProperties
<1>5. L!Run(L!After(1), LAMBDA c : c # L!Quote /\ c # L!NUL) = k
  BY <1>3, <1>4, Runs
<1> HIDE DEF Unread
<1> QED BY <1>1, <1>2, <1>5 DEF L!String

LEMMA LexComment ==
  ASSUME Unread \in Seq(STRING), Len(Unread) >= 2, Unread[1] = "/", Unread[2] = "/",
         NEW k \in Nat, k = RunOf(SubSeq(Unread, 3, Len(Unread)), Line),
         L!Take(2 + k, "T_COMMENT", SubSeq(Unread, 3, 2 + k))
  PROVE  L!Comment
<1>1. L!Start(2) = <<"/", "/">>
  BY FirstTwo DEF L!Start
<1>2. L!After(2) = SubSeq(Unread, 3, Len(Unread))
  BY DEF L!After
<1>3. SubSeq(Unread, 3, Len(Unread)) \in Seq(STRING)
  <2>1. Len(Unread) \in Int /\ \A i \in 3..Len(Unread) : Unread[i] \in STRING
    OBVIOUS
  <2> QED BY <2>1, SubSeqProperties
<1>4. L!Run(L!After(2), LAMBDA c : c # L!Newline) = k
  BY <1>2, <1>3, Runs
<1> HIDE DEF Unread
<1> QED BY <1>1, <1>4 DEF L!Comment

-----------------------------------------------------------------------------
(* What has been read of a token *)

\* From the a-th to the b-th there are characters of C only.
Only(a, b, C) == \A j \in a + 1..b : source[j] \in C
\* The text from the a-th on does not start with one of C.
Stops(a, C) == a < filesize => source[a + 1] \notin C

LEMMA FromRun ==
  ASSUME source \in Sources, NEW a \in Nat, NEW b \in Nat, a <= b, b <= filesize, NEW C,
         Only(a, b, C), Stops(b, C)
  PROVE  RunOf(From(a), C) = b - a
<1> DEFINE s == From(a)
           n == b - a
<1>1. filesize \in Nat /\ a <= filesize
  BY Sizes
<1>2. /\ Len(s) = filesize - a
      /\ \A j \in 1..filesize - a : s[j] = source[a + j]
  BY <1>1, FromIs
<1>3. n \in Nat /\ Len(s) \in Nat /\ n <= Len(s)
  BY <1>1, <1>2
<1>4. \A j \in 1..n : s[j] \in C
  <2> SUFFICES ASSUME NEW j \in 1..n PROVE s[j] \in C
    OBVIOUS
  <2>1. j \in 1..filesize - a /\ a + j \in a + 1..b
    BY <1>1
  <2> QED BY <1>2, <2>1 DEF Only
<1>5. n < Len(s) => s[n + 1] \notin C
  <2> SUFFICES ASSUME n < Len(s) PROVE s[n + 1] \notin C
    OBVIOUS
  <2>1. n + 1 \in 1..filesize - a /\ a + (n + 1) = b + 1 /\ b < filesize
    BY <1>1, <1>2
  <2>2. s[n + 1] = source[a + (n + 1)]
    BY <1>2, <2>1
  <2> QED BY <2>1, <2>2 DEF Stops
<1> HIDE DEF s, n
<1>6. RunOf(s, C) = n
  BY <1>3, <1>4, <1>5, RunIs
<1> QED BY <1>6 DEF s, n

LEMMA FromRunAtLeast ==
  ASSUME source \in Sources, NEW a \in Nat, NEW b \in Nat, a <= b, b <= filesize, NEW C,
         Only(a, b, C)
  PROVE  RunOf(From(a), C) \in Nat /\ RunOf(From(a), C) >= b - a
<1> DEFINE s == From(a)
           n == b - a
           K == {k \in 0..Len(s) : \A j \in 1..k : s[j] \in C}
<1>1. filesize \in Nat /\ a <= filesize
  BY Sizes
<1>2. /\ Len(s) = filesize - a
      /\ \A j \in 1..filesize - a : s[j] = source[a + j]
  BY <1>1, FromIs
<1>3. n \in Nat /\ Len(s) \in Nat /\ n <= Len(s)
  BY <1>1, <1>2
<1>4. \A j \in 1..n : s[j] \in C
  <2> SUFFICES ASSUME NEW j \in 1..n PROVE s[j] \in C
    OBVIOUS
  <2>1. j \in 1..filesize - a /\ a + j \in a + 1..b
    BY <1>1
  <2> QED BY <1>2, <2>1 DEF Only
<1> HIDE DEF s, n
<1>5. n \in K /\ K \subseteq 0..Len(s) /\ K # {}
  BY <1>3, <1>4
<1>6. RunOf(s, C) = Max(K)
  BY DEF RunOf
<1> HIDE DEF K
<1>7. PICK m \in K : \A k \in K : m >= k
  BY <1>3, <1>5, Greatest
<1>8. Max(K) \in K /\ \A k \in K : Max(K) >= k
  BY <1>7 DEF Max
<1>9. Max(K) \in 0..Len(s) /\ Max(K) >= n
  BY <1>5, <1>8
<1>10. Max(K) \in Nat
  BY <1>3, <1>9
<1> QED BY <1>6, <1>9, <1>10 DEF s, n

LEMMA Peeks ==
  ASSUME IInv, phase # "fraction"
  PROVE  /\ at.cur_idx < filesize => peek(at) = source[at.cur_idx + 1] /\ at.cur = source[at.cur_idx + 1]
         /\ ~(at.cur_idx < filesize) => peek(at) = NUL
<1>1. /\ at.cur_idx \in Nat /\ IsAt(at, at.cur_idx) /\ filesize \in Nat
      /\ filesize <= Len(source) /\ Len(source) \in Nat
  BY Here
<1>2. at.cur = CharAt(at.cur_idx)
  BY <1>1 DEF IsAt, Cursor
<1>3. at.cur_idx < filesize => CharAt(at.cur_idx) = source[at.cur_idx + 1]
  BY <1>1 DEF CharAt
<1>4. at.cur_idx < filesize => ~(at.cur_idx >= filesize)
  BY <1>1
<1>5. ~(at.cur_idx < filesize) => at.cur_idx >= filesize
  BY <1>1
<1> QED BY <1>2, <1>3, <1>4, <1>5 DEF peek

\* While a token is read, all that has been read of it belongs to it; what
\* the comment's lexeme holds is what stands in the text, as far as it goes.
TextInv ==
  /\ phase = "word" => isalpha(source[start_idx + 1]) /\ Only(start_idx, at.cur_idx, Alnum)
  /\ phase = "number" => isdigit(source[start_idx + 1]) /\ Only(start_idx, at.cur_idx, Digits)
  /\ phase = "string" => source[start_idx + 1] = Quote /\ Only(start_idx + 1, at.cur_idx, Inside)
  /\ phase = "comment" =>
       /\ start_idx + 2 <= filesize /\ source[start_idx + 1] = "/" /\ source[start_idx + 2] = "/"
       /\ \A j \in 1..Len(lexeme) :
            start_idx + 2 + j <= filesize =>
              lexeme[j] # Newline /\ lexeme[j] = source[start_idx + 2 + j]
  /\ OverrunsExplained

\* A step as the lexer sees it.
LexStep == L!LexNext \/ UNCHANGED L!lexVars

\* The rest of the text, at a token's start.
LEMMA AtStart ==
  ASSUME IInv, phase \notin {"scan", "done"}, start_idx \in Nat, start_idx < filesize
  PROVE  /\ Consumed = start_idx /\ Unread = From(start_idx) /\ Unread \in Seq(STRING)
         /\ Len(Unread) = filesize - start_idx /\ Unread # <<>>
         /\ \A j \in 1..filesize - start_idx : Unread[j] = source[start_idx + j]
<1>1. source \in Sources /\ filesize \in Nat
  BY Sizes DEF IInv
<1>2. Consumed = start_idx /\ Unread = From(start_idx)
  BY DEF Consumed, Unread, From
<1>3. /\ From(start_idx) \in Seq(STRING) /\ Len(From(start_idx)) = filesize - start_idx
      /\ \A j \in 1..filesize - start_idx : From(start_idx)[j] = source[start_idx + j]
  BY <1>1, FromIs
<1>4. Unread # <<>>
  BY <1>1, <1>2, <1>3
<1> QED BY <1>2, <1>3, <1>4

\* What getCurWord reads.
LEMMA GetCurWord ==
  ASSUME source \in Sources, NEW a \in Nat, NEW k \in Nat, NEW n \in Nat, a <= k, k <= n, n <= filesize,
         NEW c, c.cur_idx = n
  PROVE  Word(k, c) = SubSeq(From(a), k - a + 1, n - a)
<1>1. PICK i \in Nat, j \in Nat : i = k - a /\ j = n - a
  OBVIOUS
<1>2. i <= j /\ a + j = n /\ a + j <= filesize /\ a + i = k /\ a <= filesize
  BY <1>1, Sizes
<1>3. SubSeq(From(a), i + 1, j) = SubSeq(source, a + i + 1, a + j)
  BY <1>2, SubFrom
<1> QED BY <1>1, <1>2, <1>3 DEF Word

\* Nothing happens to the lexer.
LEMMA Stutters ==
  ASSUME UNCHANGED <<source, list>>, Consumed' = Consumed,
         phase \notin {"done", "exit"}, phase' \notin {"done", "exit"}
  PROVE  Unread' = Unread /\ UNCHANGED L!lexVars
<1>1. Unread' = Unread
  BY DEF Unread, filesize
<1>2. Reads' = Reads
  BY DEF Reads
<1> QED BY <1>1, <1>2, LexVars

\* A token that fits.
LEMMA Added ==
  ASSUME IInv, phase \notin {"scan", "done", "exit"}, start_idx \in Nat, NEW token, NEW c, Add(token, c),
         NEW k \in Nat, start_idx + k <= filesize, c.cur_idx = start_idx + k
  PROVE  /\ L!Take(k, token.type, token.lexeme)
         /\ phase' = "scan" /\ UNCHANGED source
<1>1. /\ list' = add_list(list, token) /\ at' = c /\ phase' = "scan" /\ UNCHANGED source
  BY DEF Add
<1>2. Consumed = start_idx /\ Consumed' = start_idx + k
  BY <1>1 DEF Consumed
<1> QED BY <1>1, <1>2, Taken

\* A token that does not.
LEMMA TooLong ==
  ASSUME phase \notin {"scan", "done", "exit"}, Overrun
  PROVE  Unread' = Unread /\ LexStep /\ phase' = "overrun"
<1>1. phase' = "overrun" /\ UNCHANGED <<source, list, start_idx>>
  BY DEF Overrun, Go
<1>2. Consumed' = Consumed
  BY <1>1 DEF Consumed
<1> QED BY <1>1, <1>2, Stutters DEF LexStep

LEMMA Unexplained == ASSUME phase' # "overrun" PROVE OverrunsExplained'
BY DEF OverrunsExplained

LEMMA BackToScan == ASSUME phase' = "scan" PROVE TextInv'
BY Unexplained DEF TextInv

LEMMA NowOverrun == ASSUME phase' = "overrun", OverrunsExplained' PROVE TextInv'
BY DEF TextInv

LEMMA IdentifierLex == ASSUME IInv, TextInv, createIdentifer PROVE TextInv' /\ LexStep
<1> DEFINE a == start_idx
           b == at.cur_idx
<1>1. phase = "word" /\ isalpha(source[a + 1]) /\ Only(a, b, Alnum)
  BY DEF createIdentifer, TextInv
<1>2. a \in Nat /\ b \in Nat /\ a < b /\ b <= filesize /\ filesize \in Nat /\ source \in Sources
  BY <1>1, Here DEF IInv
<1>3. /\ Consumed = a /\ Unread = From(a) /\ Unread \in Seq(STRING)
      /\ Len(Unread) = filesize - a /\ Unread # <<>> /\ Unread[1] = source[a + 1]
  BY <1>1, <1>2, AtStart
<1>4. CASE InWord(peek(at)) /\ Advance
  <2>1. /\ at' = advance(at) /\ UNCHANGED <<source, start_idx, list, phase>>
    BY <1>4 DEF Advance
  <2>2. b < filesize /\ at'.cur_idx = b + 1 /\ source[b + 1] \in Alnum
    BY <1>1, <1>4, <2>1, AtEnd, Here, Peeks DEF InWord, Alnum, isalpha, isdigit
  <2>3. Only(a, b + 1, Alnum)
    BY <1>1, <1>2, <2>2 DEF Only
  <2>4. Only(start_idx, at.cur_idx, Alnum)'
    BY <2>1, <2>2, <2>3 DEF Only
  <2>5. Consumed' = Consumed
    BY <1>1, <2>1 DEF Consumed
  <2>6. UNCHANGED L!lexVars
    BY <1>1, <2>1, <2>5, Stutters
  <2>7. TextInv'
    BY <1>1, <2>1, <2>4, Unexplained DEF TextInv
  <2> QED BY <2>6, <2>7 DEF LexStep
<1>5. CASE ~InWord(peek(at)) /\ createToken(word_type(Word(start_idx, at)), start_idx, SeekBack(at))
  <2>1. PICK k \in Nat : k = b - a
    BY <1>2
  <2>2. Stops(b, Alnum)
    BY <1>1, <1>5, Peeks DEF Stops, InWord, Alnum, isalpha, isdigit
  <2>3. RunOf(Unread, Alnum) = k
    BY <1>1, <1>2, <1>3, <2>1, <2>2, FromRun
  <2>4. Word(a, at) = SubSeq(Unread, 1, k)
    <3>1. Word(a, at) = SubSeq(From(a), a - a + 1, b - a)
      BY <1>2, GetCurWord
    <3>2. a - a + 1 = 1 /\ b - a = k
      BY ONLY <1>2, <2>1
    <3> QED BY ONLY <1>3, <3>1, <3>2
  <2>5. CASE Fits(a, at) /\ Add(Token(word_type(Word(a, at)), Word(a, at), cur_line, b), at)
    <3> DEFINE token == Token(word_type(Word(a, at)), Word(a, at), cur_line, b)
    <3>1. L!Take(k, token.type, token.lexeme) /\ phase' = "scan"
      <4>1. a + k <= filesize /\ at.cur_idx = a + k /\ Add(token, at)
        BY <1>2, <2>1, <2>5
      <4> HIDE DEF token
      <4> QED BY <1>1, <1>2, <4>1, Added
    <3>2. token.type = word_type(SubSeq(Unread, 1, k)) /\ token.lexeme = SubSeq(Unread, 1, k)
      BY <2>4 DEF Token
    <3> HIDE DEF token
    <3>3. k <= Len(Unread)
      BY <1>2, <1>3, <2>1
    <3>4. L!Word
      BY <1>1, <1>3, <2>3, <3>1, <3>2, <3>3, LexWord
    <3> QED BY <1>1, <3>1, <3>4, BackToScan DEF LexStep, L!LexNext
  <2>6. CASE ~Fits(a, at) /\ Overrun
    <3>1. Unread' = Unread /\ LexStep /\ phase' = "overrun"
      BY <1>1, <2>6, TooLong
    <3>2. RunOf(Unread, Alnum) >= MAX_LEXEME
      BY <1>2, <2>1, <2>3, <2>6, Sizes DEF Fits
    <3>3. L!Run(Unread, InWord) = RunOf(Unread, Alnum)
      BY <1>3, Runs
    <3>4. OverrunsExplained'
      BY <3>1, <3>2, <3>3 DEF OverrunsExplained
    <3> QED BY <3>1, <3>4, NowOverrun
  <2> QED BY <1>5, <2>5, <2>6 DEF createToken, SeekBack
<1> QED BY <1>4, <1>5 DEF createIdentifer

LEMMA NumberLex == ASSUME IInv, TextInv, createNumber PROVE TextInv' /\ LexStep
<1> DEFINE a == start_idx
           b == at.cur_idx
<1>1. phase = "number" /\ isdigit(source[a + 1]) /\ Only(a, b, Digits)
  BY DEF createNumber, TextInv
<1>2. a \in Nat /\ b \in Nat /\ a < b /\ b <= filesize /\ filesize \in Nat /\ source \in Sources
  BY <1>1, Here DEF IInv
<1>3. /\ Consumed = a /\ Unread = From(a) /\ Unread \in Seq(STRING)
      /\ Len(Unread) = filesize - a /\ Unread # <<>> /\ Unread[1] = source[a + 1]
      /\ \A j \in 1..filesize - a : Unread[j] = source[a + j]
  BY <1>1, <1>2, AtStart
<1>4. CASE InNumber(peek(at)) /\ Advance
  <2>1. /\ at' = advance(at) /\ UNCHANGED <<source, start_idx, list, phase>>
    BY <1>4 DEF Advance
  <2>2. b < filesize /\ at'.cur_idx = b + 1 /\ source[b + 1] \in Digits
    BY <1>1, <1>4, <2>1, AtEnd, Here, Peeks DEF InNumber, Digits, isdigit
  <2>3. Only(a, b + 1, Digits)
    BY <1>1, <1>2, <2>2 DEF Only
  <2>4. Only(start_idx, at.cur_idx, Digits)'
    BY <2>1, <2>2, <2>3 DEF Only
  <2>5. Consumed' = Consumed
    BY <1>1, <2>1 DEF Consumed
  <2>6. UNCHANGED L!lexVars
    BY <1>1, <2>1, <2>5, Stutters
  <2>7. TextInv'
    BY <1>1, <2>1, <2>4, Unexplained DEF TextInv
  <2> QED BY <2>6, <2>7 DEF LexStep
<1>5. CASE /\ Fraction /\ phase' = "fraction" /\ UNCHANGED <<source, start_idx, cur_line, list, lexeme>>
  <2>1. Consumed' = Consumed
    BY <1>1, <1>5 DEF Consumed
  <2>2. UNCHANGED L!lexVars
    BY <1>1, <1>5, <2>1, Stutters
  <2>3. TextInv'
    BY <1>5, Unexplained DEF TextInv
  <2> QED BY <2>2, <2>3 DEF LexStep
<1>6. CASE ~InNumber(peek(at)) /\ ~Fraction /\ createToken("T_NUMBER_LIT", start_idx, SeekBack(at))
  <2>1. PICK k \in Nat : k = b - a
    BY <1>2
  <2>2. Stops(b, Digits)
    BY <1>1, <1>6, Peeks DEF Stops, InNumber, Digits, isdigit
  <2>3. RunOf(Unread, Digits) = k
    BY <1>1, <1>2, <1>3, <2>1, <2>2, FromRun
  <2>4. Word(a, at) = SubSeq(Unread, 1, k)
    <3>1. Word(a, at) = SubSeq(From(a), a - a + 1, b - a)
      BY <1>2, GetCurWord
    <3>2. a - a + 1 = 1 /\ b - a = k
      BY ONLY <1>2, <2>1
    <3> QED BY ONLY <1>3, <3>1, <3>2
  <2>5. ~(k + 1 < Len(Unread) /\ Unread[k + 1] = "." /\ isdigit(Unread[k + 2]))
    <3> SUFFICES ASSUME k + 1 < Len(Unread), Unread[k + 1] = "." PROVE ~isdigit(Unread[k + 2])
      OBVIOUS
    <3>1. /\ b + 1 < filesize /\ k + 1 \in 1..filesize - a /\ k + 2 \in 1..filesize - a
          /\ a + (k + 1) = b + 1 /\ a + (k + 2) = b + 2
      <4>1. PICK m \in Nat : m = filesize - a
        BY <1>2
      <4>2. k + 1 < m
        BY <1>3, <4>1
      <4>3. k + 1 \in 1..m /\ k + 2 \in 1..m
        BY <4>2
      <4>4. b + 1 < filesize /\ a + (k + 1) = b + 1 /\ a + (k + 2) = b + 2
        BY ONLY <1>2, <2>1, <4>1, <4>2
      <4> QED BY <4>1, <4>3, <4>4
    <3>2. source[b + 1] = "." /\ Unread[k + 2] = source[b + 2]
      BY <1>3, <3>1
    <3>3. peek(at) = "."
      BY <1>1, <1>2, <3>1, <3>2, Peeks
    <3>4. peekNext(at) = source[b + 2]
      <4>1. at.pos = Beyond(b) /\ filesize <= Len(source) /\ Len(source) \in Nat
        BY <1>1, Here DEF IsAt, Cursor
      <4>2. at.pos = b + 1
        BY <1>2, <3>1, <4>1 DEF Beyond
      <4>3. CharAt(b + 1) = source[b + 2]
        BY <1>2, <3>1, <4>1 DEF CharAt
      <4>4. ~(at.cur_idx + 1 >= filesize)
        BY <1>2, <3>1
      <4> QED BY <4>2, <4>3, <4>4 DEF peekNext
    <3> QED BY <1>6, <3>2, <3>3, <3>4 DEF Fraction
  <2>6. CASE Fits(a, at) /\ Add(Token("T_NUMBER_LIT", Word(a, at), cur_line, b), at)
    <3> DEFINE token == Token("T_NUMBER_LIT", Word(a, at), cur_line, b)
    <3>1. L!Take(k, token.type, token.lexeme) /\ phase' = "scan"
      <4>1. a + k <= filesize /\ at.cur_idx = a + k /\ Add(token, at)
        BY <1>2, <2>1, <2>6
      <4> HIDE DEF token
      <4> QED BY <1>1, <1>2, <4>1, Added
    <3>2. token.type = "T_NUMBER_LIT" /\ token.lexeme = SubSeq(Unread, 1, k)
      BY <2>4 DEF Token
    <3> HIDE DEF token
    <3>3. k <= Len(Unread)
      BY <1>2, <1>3, <2>1
    <3>4. L!Number
      BY <1>1, <1>3, <2>3, <2>5, <3>1, <3>2, <3>3, LexNumber
    <3> QED BY <1>1, <3>1, <3>4, BackToScan DEF LexStep, L!LexNext
  <2>7. CASE ~Fits(a, at) /\ Overrun
    <3>1. Unread' = Unread /\ LexStep /\ phase' = "overrun"
      BY <1>1, <2>7, TooLong
    <3>2. RunOf(Unread, Digits) >= MAX_LEXEME
      BY <1>2, <2>1, <2>3, <2>7, Sizes DEF Fits
    <3>3. L!Run(Unread, InNumber) = RunOf(Unread, Digits)
      BY <1>3, Runs
    <3>4. OverrunsExplained'
      BY <3>1, <3>2, <3>3 DEF OverrunsExplained
    <3> QED BY <3>1, <3>4, NowOverrun
  <2> QED BY <1>6, <2>6, <2>7 DEF createToken, SeekBack
<1> QED BY <1>4, <1>5, <1>6 DEF createNumber

LEMMA StringLex == ASSUME IInv, TextInv, createString PROVE TextInv' /\ LexStep
<1> DEFINE a == start_idx
           b == at.cur_idx
<1>1. phase = "string" /\ source[a + 1] = Quote /\ Only(a + 1, b, Inside)
  BY DEF createString, TextInv
<1>2. a \in Nat /\ b \in Nat /\ a < b /\ b <= filesize /\ filesize \in Nat /\ source \in Sources
  BY <1>1, Here DEF IInv
<1>3. /\ Consumed = a /\ Unread = From(a) /\ Unread \in Seq(STRING)
      /\ Len(Unread) = filesize - a /\ Unread # <<>> /\ Unread[1] = Quote
      /\ \A j \in 1..filesize - a : Unread[j] = source[a + j]
  BY <1>1, <1>2, AtStart
<1>4. b < filesize => source[b + 1] \in STRING /\ peek(at) = source[b + 1]
  <2>1. source \in Seq(STRING) /\ filesize <= Len(source) /\ Len(source) \in Nat
    BY <1>2, Sizes
  <2> QED BY <1>1, <1>2, <2>1, Peeks
<1>5. CASE InString(peek(at)) /\ Advance
  <2>1. /\ at' = advance(at) /\ UNCHANGED <<source, start_idx, list, phase>>
    BY <1>5 DEF Advance
  <2>2. b < filesize /\ at'.cur_idx = b + 1 /\ source[b + 1] \in Inside
    BY <1>1, <1>4, <1>5, <2>1, AtEnd, Here DEF InString, Inside
  <2>3. Only(a + 1, b + 1, Inside)
    BY <1>1, <1>2, <2>2 DEF Only
  <2>4. Only(start_idx + 1, at.cur_idx, Inside)'
    BY <2>1, <2>2, <2>3 DEF Only
  <2>5. Consumed' = Consumed
    BY <1>1, <2>1 DEF Consumed
  <2>6. UNCHANGED L!lexVars
    BY <1>1, <2>1, <2>5, Stutters
  <2>7. TextInv'
    BY <1>1, <2>1, <2>4, Unexplained DEF TextInv
  <2> QED BY <2>6, <2>7 DEF LexStep
<1> DEFINE rest == SubSeq(Unread, 2, Len(Unread))
<1>6. CASE ~InString(peek(at))
  <2>1. PICK k \in Nat : k = b - (a + 1)
    BY <1>2
  <2>2. /\ a + 1 \in Nat /\ a + 1 <= b /\ a + 1 <= filesize /\ b - a = 1 + k /\ b + 1 - a = 2 + k
        /\ 1 + k <= Len(Unread) /\ a + (1 + k) = b /\ a + (2 + k) = b + 1
    <3>1. Len(Unread) = filesize - a
      BY <1>3
    <3>2. a + 1 \in Nat /\ a + 1 <= b /\ a + 1 <= filesize /\ b - a = 1 + k /\ b + 1 - a = 2 + k
      BY ONLY <1>2, <2>1
    <3>3. 1 + k <= filesize - a /\ a + (1 + k) = b /\ a + (2 + k) = b + 1
      BY ONLY <1>2, <2>1
    <3> QED BY ONLY <3>1, <3>2, <3>3
  <2>3. Stops(b, Inside)
    BY <1>4, <1>6 DEF Stops, InString, Inside
  <2>4. rest = From(a + 1)
    <3>1. From(a + 1) = SubSeq(From(a), 1 + 1, Len(From(a)))
      BY <1>2, <2>2, Onward
    <3>2. 1 + 1 = 2
      OBVIOUS
    <3> QED BY <1>3, <3>1, <3>2
  <2>5. k = RunOf(rest, Inside)
    <3>1. PICK m \in Nat : m = a + 1
      BY <1>2
    <3>2. Only(m, b, Inside) /\ m <= b
      BY <1>1, <2>2, <3>1
    <3> HIDE DEF rest
    <3>3. RunOf(From(m), Inside) = b - m
      BY ONLY <1>2, <2>3, <3>1, <3>2, FromRun
    <3> QED BY <2>1, <2>4, <3>1, <3>3
  <2>6. L!Run(L!After(1), InString) = k
    <3>1. rest \in Seq(STRING)
      BY <1>2, <2>2, <2>4, FromIs
    <3>2. L!After(1) = rest
      BY DEF L!After
    <3> HIDE DEF rest
    <3>3. L!Run(rest, InString) = RunOf(rest, Inside)
      BY <3>1, Runs
    <3> QED BY <2>5, <3>2, <3>3
  <2>7. CASE 1 + k >= MAX_LEXEME /\ Overrun
    <3>1. Unread' = Unread /\ LexStep /\ phase' = "overrun"
      BY <1>1, <2>7, TooLong
    <3>2. L!Run(L!After(1), InString)' = L!Run(L!After(1), InString)
      BY <3>1 DEF L!After
    <3>3. OverrunsExplained'
      BY <1>3, <2>6, <2>7, <3>1, <3>2 DEF OverrunsExplained
    <3> QED BY <3>1, <3>3, NowOverrun
  <2>8. CASE peek(at) = NUL /\ createToken("T_UNKNOWN", start_idx, SeekBack(at))
    <3> DEFINE token == Token("T_UNKNOWN", Word(a, at), cur_line, b)
    <3>1. Word(a, at) = SubSeq(Unread, 1, 1 + k)
      <4>1. Word(a, at) = SubSeq(From(a), a - a + 1, b - a)
        BY <1>2, GetCurWord
      <4>2. a - a + 1 = 1 /\ b - a = 1 + k
        BY ONLY <1>2, <2>2
      <4> QED BY ONLY <1>3, <4>1, <4>2
    <3>2. ~(Len(Unread) > 1 + k /\ Unread[2 + k] = Quote)
      <4> SUFFICES ASSUME Len(Unread) > 1 + k PROVE Unread[2 + k] # Quote
        OBVIOUS
      <4>1. 2 + k \in 1..filesize - a /\ b < filesize
        BY <1>2, <1>3, <2>2
      <4> QED BY <1>3, <1>4, <2>2, <2>8, <4>1, AtEnd
    <3>3. CASE Add(token, at)
      <4>1. L!Take(1 + k, token.type, token.lexeme) /\ phase' = "scan"
        <5>1. 1 + k \in Nat /\ a + (1 + k) <= filesize /\ at.cur_idx = a + (1 + k)
          BY <1>2, <2>2
        <5> HIDE DEF token
        <5> QED BY <1>1, <1>2, <3>3, <5>1, Added
      <4>2. L!Take(1 + k, "T_UNKNOWN", SubSeq(Unread, 1, 1 + k))
        BY <3>1, <4>1 DEF Token
      <4>3. L!String
        BY <1>3, <2>2, <2>5, <3>2, <4>2, LexString
      <4> QED BY <1>1, <4>1, <4>3, BackToScan DEF LexStep, L!LexNext
    <3>4. CASE ~Fits(a, at) /\ Overrun
      BY <1>2, <2>2, <2>7, <3>4, Sizes DEF Fits
    <3> QED BY <2>8, <3>3, <3>4 DEF createToken, SeekBack
  <2>9. CASE peek(at) = Quote /\ createToken("T_STRING_LIT", start_idx + 1, advance(SeekBack(at)))
    <3> DEFINE token == Token("T_STRING_LIT", Word(a + 1, at), cur_line, b)
    <3>1. Word(a + 1, at) = SubSeq(Unread, 2, 1 + k)
      <4>1. PICK m \in Nat : m = a + 1
        BY <1>2
      <4>2. a <= m /\ m <= b /\ m - a + 1 = 2
        BY <1>2, <4>1
      <4>3. Word(m, at) = SubSeq(From(a), m - a + 1, b - a)
        BY <1>2, <4>2, GetCurWord
      <4> QED BY ONLY <1>3, <2>2, <4>1, <4>2, <4>3
    <3>2. b < filesize
      BY <1>1, <2>9, AtEnd, Here
    <3>3. Len(Unread) > 1 + k /\ Unread[2 + k] = Quote
      <4>1. 2 + k \in 1..filesize - a
        BY <1>2, <2>2, <3>2
      <4> QED BY <1>2, <1>3, <1>4, <2>2, <2>9, <3>2, <4>1
    <3>4. CASE Add(token, advance(at))
      <4>1. L!Take(2 + k, token.type, token.lexeme) /\ phase' = "scan"
        <5>1. 2 + k \in Nat /\ a + (2 + k) <= filesize /\ advance(at).cur_idx = a + (2 + k)
          BY <1>1, <1>2, <2>2, <3>2, Here
        <5> HIDE DEF token
        <5> QED BY <1>1, <1>2, <3>4, <5>1, Added
      <4>2. L!Take(2 + k, "T_STRING_LIT", SubSeq(Unread, 2, 1 + k))
        BY <3>1, <4>1 DEF Token
      <4>3. L!String
        BY <1>3, <2>2, <2>5, <3>3, <4>2, LexString
      <4> QED BY <1>1, <4>1, <4>3, BackToScan DEF LexStep, L!LexNext
    <3>5. CASE ~Fits(a + 1, at) /\ Overrun
      BY <1>2, <2>1, <2>7, <3>5, Sizes DEF Fits
    <3> QED BY <2>9, <3>4, <3>5 DEF createToken, SeekBack
  <2> QED BY <1>6, <2>8, <2>9 DEF createString
<1> QED BY <1>5, <1>6 DEF createString, InString

LEMMA CommentLex == ASSUME IInv, TextInv, createCommentToken PROVE TextInv' /\ LexStep
<1> DEFINE a == start_idx
           b == at.cur_idx
           n == Len(lexeme)
           rest == SubSeq(Unread, 3, Len(Unread))
<1>1. /\ phase = "comment" /\ a + 2 <= filesize /\ source[a + 1] = "/" /\ source[a + 2] = "/"
      /\ \A j \in 1..n : a + 2 + j <= filesize => lexeme[j] # Newline /\ lexeme[j] = source[a + 2 + j]
  BY DEF createCommentToken, TextInv
<1>2. /\ a \in Nat /\ b \in Nat /\ n \in Nat /\ n <= MAX_LEXEME /\ b = a + 2 + n /\ a < filesize
      /\ filesize \in Nat /\ source \in Sources /\ \E S : lexeme \in Seq(S)
  BY <1>1, Here DEF IInv
<1>3. /\ Consumed = a /\ Unread = From(a) /\ Unread \in Seq(STRING)
      /\ Len(Unread) = filesize - a
      /\ \A j \in 1..filesize - a : Unread[j] = source[a + j]
  BY <1>1, <1>2, AtStart
<1>4. Len(Unread) >= 2 /\ Unread[1] = "/" /\ Unread[2] = "/"
  <2>1. 1 \in 1..filesize - a /\ 2 \in 1..filesize - a
    BY <1>1, <1>2
  <2> QED BY <1>1, <1>2, <1>3, <2>1
<1>5. a + 2 \in Nat /\ rest = From(a + 2)
  <2>1. From(a + 2) = SubSeq(From(a), 2 + 1, Len(From(a)))
    BY <1>1, <1>2, Onward
  <2>2. 2 + 1 = 3
    OBVIOUS
  <2>3. a + 2 \in Nat
    BY ONLY <1>2
  <2>4. rest = SubSeq(From(a), 3, Len(From(a)))
    BY <1>3
  <2> QED BY ONLY <2>1, <2>2, <2>3, <2>4
<1>6. L!After(2) = rest /\ rest \in Seq(STRING)
  <2>1. L!After(2) = rest
    BY DEF L!After
  <2> QED BY <1>1, <1>2, <1>5, <2>1, FromIs
<1>7. b <= filesize => Only(a + 2, b, Line)
  <2> SUFFICES ASSUME b <= filesize, NEW j \in a + 2 + 1..b PROVE source[j] \in Line
    BY DEF Only
  <2>1. PICK i \in Nat : i = j - (a + 2)
    BY <1>2
  <2>2. i \in 1..n /\ a + 2 + i = j /\ a + 2 + i <= filesize
    BY <1>2, <2>1
  <2>3. source[j] # Newline
    BY <1>1, <2>2
  <2>4. source \in Seq(STRING) /\ filesize <= Len(source) /\ Len(source) \in Nat
    BY <1>2, Sizes
  <2>5. source[j] \in STRING
    BY <1>2, <2>2, <2>4
  <2> QED BY <2>3, <2>5 DEF Line
<1>8. CASE /\ peek(at) # Newline /\ lexeme' = Append(lexeme, peek(at)) /\ at' = advance(at)
           /\ UNCHANGED <<source, start_idx, cur_line, list, phase>>
  <2>1. PICK S : lexeme \in Seq(S)
    BY <1>2
  <2>2. /\ Len(lexeme') = n + 1
        /\ \A j \in 1..n + 1 : lexeme'[j] = IF j = n + 1 THEN peek(at) ELSE lexeme[j]
    <3>1. lexeme \in Seq(S \cup {peek(at)})
      BY <2>1
    <3> QED BY <1>8, <3>1
  <2>3. ASSUME NEW j \in 1..n + 1, a + 2 + j <= filesize
        PROVE  lexeme'[j] # Newline /\ lexeme'[j] = source[a + 2 + j]
    <3>1. CASE j = n + 1
      <4>1. b < filesize /\ a + 2 + j = b + 1
        BY <1>2, <2>3, <3>1
      <4> QED BY <1>1, <1>8, <2>2, <3>1, <4>1, Peeks
    <3>2. CASE j # n + 1
      <4>1. j \in 1..n
        BY <1>2, <3>2
      <4> QED BY <1>1, <2>2, <2>3, <3>2, <4>1
    <3> QED BY <3>1, <3>2
  <2>4. filesize' = filesize
    BY <1>8 DEF filesize
  <2>5. Consumed' = Consumed
    BY <1>1, <1>8 DEF Consumed
  <2>6. UNCHANGED L!lexVars
    BY <1>1, <1>8, <2>5, Stutters
  <2>7. TextInv'
    BY <1>1, <1>8, <2>2, <2>3, <2>4, Unexplained DEF TextInv
  <2> QED BY <2>6, <2>7 DEF LexStep
<1>9. CASE peek(at) = Newline /\ Add(Token("T_COMMENT", lexeme, at.cur_idx, cur_line), at)
  <2> DEFINE token == Token("T_COMMENT", lexeme, at.cur_idx, cur_line)
  <2>1. b < filesize /\ source[b + 1] = Newline
    <3>1. Newline # NUL
      BY DEF Newline, NUL
    <3> QED BY <1>1, <1>9, <3>1, Here, Peeks
  <2>2. Stops(b, Line) /\ a + 2 <= b /\ b <= filesize /\ b - (a + 2) = n
    BY <1>2, <2>1 DEF Stops, Line
  <2>3. n = RunOf(rest, Line)
    BY <1>2, <1>5, <1>7, <2>2, FromRun
  <2>4. lexeme = SubSeq(Unread, 3, 2 + n)
    <3>1. PICK k \in Nat : k = 2 + n
      BY <1>2
    <3>2. 2 <= k /\ a + k <= filesize /\ k - 2 = n /\ a <= filesize
      BY <1>2, <2>1, <3>1
    <3> DEFINE u == SubSeq(From(a), 2 + 1, k)
    <3>3. u \in Seq(STRING) /\ Len(u) = n /\ \A i \in 1..n : u[i] = source[a + 2 + i]
      <4>1. /\ u \in Seq(STRING) /\ Len(u) = k - 2
            /\ \A i \in 1..k - 2 : u[i] = source[a + 2 + i]
        <5>1. source \in Sources /\ a \in Nat /\ 2 \in Nat /\ k \in Nat
          BY <1>2
        <5> HIDE DEF a, n
        <5> QED BY ONLY <3>2, <5>1, SubFrom
      <4> QED BY ONLY <3>2, <4>1
    <3>4. u = SubSeq(Unread, 3, 2 + n)
      <4>1. 2 + 1 = 3
        OBVIOUS
      <4> QED BY <1>3, <3>1, <4>1
    <3>5. PICK S : lexeme \in Seq(S)
      BY <1>2
    <3> HIDE DEF u
    <3>6. \A i \in 1..n : lexeme[i] = u[i]
      <4> SUFFICES ASSUME NEW i \in 1..n PROVE lexeme[i] = u[i]
        OBVIOUS
      <4>1. a + 2 + i <= filesize
        BY <1>2, <2>1
      <4> QED BY <1>1, <3>3, <4>1
    <3>7. lexeme \in Seq(S \cup STRING) /\ u \in Seq(S \cup STRING)
      BY <3>3, <3>5
    <3>8. lexeme = u
      BY <3>3, <3>6, <3>7, SeqEqual
    <3> QED BY <3>4, <3>8
  <2>5. L!Take(2 + n, token.type, token.lexeme) /\ phase' = "scan"
    <3>1. 2 + n \in Nat /\ a + (2 + n) <= filesize /\ at.cur_idx = a + (2 + n) /\ Add(token, at)
      BY <1>2, <1>9, <2>1
    <3> HIDE DEF token
    <3> QED BY <1>1, <1>2, <3>1, Added
  <2>6. L!Take(2 + n, "T_COMMENT", SubSeq(Unread, 3, 2 + n))
    BY <2>4, <2>5 DEF Token
  <2>7. L!Comment
    BY <1>2, <1>3, <1>4, <2>3, <2>6, LexComment
  <2> QED BY <1>1, <2>5, <2>7, BackToScan DEF LexStep, L!LexNext
<1>10. CASE n = MAX_LEXEME /\ Overrun
  <2>1. Unread' = Unread /\ LexStep /\ phase' = "overrun"
    BY <1>1, <1>10, TooLong
  <2>2. L!Run(L!After(2), LAMBDA c : c # Newline) = RunOf(rest, Line)
    <3>1. L!Newline = Newline
      BY DEF L!Newline, Newline
    <3> HIDE DEF rest
    <3>2. L!Run(rest, LAMBDA c : c # L!Newline) = RunOf(rest, Line)
      BY <1>6, Runs
    <3> QED BY <1>6, <3>1, <3>2 DEF L!Run
  <2>3. RunOf(rest, Line) >= MAX_LEXEME \/ 2 + RunOf(rest, Line) = Len(Unread)
    <3>1. CASE b <= filesize
      <4>1. a + 2 <= b /\ b - (a + 2) = n
        BY <1>2
      <4>2. RunOf(rest, Line) >= n
        BY <1>2, <1>5, <1>7, <3>1, <4>1, FromRunAtLeast
      <4> QED BY <1>10, <4>2
    <3>2. CASE b > filesize
      <4>1. Only(a + 2, filesize, Line)
        <5> SUFFICES ASSUME NEW j \in a + 2 + 1..filesize PROVE source[j] \in Line
          BY DEF Only
        <5>1. PICK i \in Nat : i = j - (a + 2)
          BY <1>2
        <5>2. i \in 1..n /\ a + 2 + i = j /\ a + 2 + i <= filesize
          BY <1>2, <3>2, <5>1
        <5>3. source[j] # Newline
          BY <1>1, <5>2
        <5>4. source \in Seq(STRING) /\ filesize <= Len(source) /\ Len(source) \in Nat
          BY <1>2, Sizes
        <5>5. source[j] \in STRING
          BY <1>2, <5>2, <5>4
        <5> QED BY <5>3, <5>5 DEF Line
      <4>2. Stops(filesize, Line)
        BY <1>2 DEF Stops
      <4>3. RunOf(rest, Line) = filesize - (a + 2)
        <5>1. PICK f \in Nat : f = filesize
          BY <1>2
        <5>2. Only(a + 2, f, Line) /\ Stops(f, Line) /\ a + 2 <= f /\ f <= filesize
          BY <1>1, <4>1, <4>2, <5>1
        <5>3. RunOf(From(a + 2), Line) = f - (a + 2)
          BY <1>2, <1>5, <5>2, FromRun
        <5> QED BY <1>5, <5>1, <5>3
      <4> QED BY <1>1, <1>2, <1>3, <4>3
    <3> QED BY <1>2, <3>1, <3>2
  <2>4. L!Start(2) = <<"/", "/">>
    BY <1>3, <1>4, FirstTwo DEF L!Start
  <2>5. OverrunsExplained'
    <3>1. L!After(2)' = L!After(2) /\ L!Start(2)' = L!Start(2)
      BY <2>1 DEF L!After, L!Start
    <3>2. L!Run(L!After(2), LAMBDA c : c # Newline)' = L!Run(L!After(2), LAMBDA c : c # Newline)
      BY <3>1 DEF L!Run
    <3> QED BY <2>1, <2>2, <2>3, <2>4, <3>1, <3>2 DEF OverrunsExplained
  <2> QED BY <2>1, <2>5, NowOverrun
<1> QED BY <1>8, <1>9, <1>10 DEF createCommentToken

\* The rest of the text, between two tokens.
LEMMA AtScan ==
  ASSUME IInv, Scanning
  PROVE  /\ at.cur_idx \in Nat /\ at.cur_idx < filesize /\ filesize \in Nat /\ source \in Sources
         /\ phase = "scan" /\ Consumed = at.cur_idx
         /\ Unread = From(at.cur_idx) /\ Unread \in Seq(STRING)
         /\ Len(Unread) = filesize - at.cur_idx /\ Unread # <<>> /\ Unread[1] = at.cur
         /\ at.cur = source[at.cur_idx + 1]
         /\ at.cur_idx + 1 < filesize => Unread[2] = next.cur /\ next.cur = source[at.cur_idx + 2]
         /\ next.cur_idx = at.cur_idx + 1 /\ advance(next).cur_idx = at.cur_idx + 2
<1> DEFINE a == at.cur_idx
<1>1. /\ a \in Nat /\ a < filesize /\ filesize \in Nat /\ source \in Sources /\ phase = "scan"
      /\ filesize <= Len(source) /\ Len(source) \in Nat /\ at.cur = source[a + 1]
      /\ IsAt(next, a + 1) /\ next.cur_idx = a + 1 /\ advance(next).cur_idx = a + 2
  BY ScanningAt, Here, Peeks
<1>2. Consumed = a /\ Unread = From(a)
  BY <1>1 DEF Consumed, Unread, From
<1>3. /\ From(a) \in Seq(STRING) /\ Len(From(a)) = filesize - a
      /\ \A j \in 1..filesize - a : From(a)[j] = source[a + j]
  <2>1. a \in Nat /\ a <= filesize /\ source \in Sources
    BY <1>1
  <2> HIDE DEF a
  <2> QED BY <2>1, FromIs
<1>4. 1 \in 1..filesize - a /\ (a + 1 < filesize => 2 \in 1..filesize - a)
  BY <1>1
<1>5. next.cur = CharAt(a + 1)
  BY <1>1 DEF IsAt, Cursor
<1>6. a + 1 < filesize => CharAt(a + 1) = source[a + 2]
  BY <1>1 DEF CharAt
<1>7. Unread[1] = at.cur /\ Unread # <<>>
  BY <1>1, <1>2, <1>3, <1>4
<1>8. a + 1 < filesize => Unread[2] = next.cur /\ next.cur = source[a + 2]
  BY <1>2, <1>3, <1>4, <1>5, <1>6
<1> HIDE DEF next
<1> QED BY <1>1, <1>2, <1>3, <1>7, <1>8

\* A symbol is added: k characters from the cursor on.
LEMMA SymbolTaken ==
  ASSUME IInv, Scanning, NEW type, NEW c, AddSymbol(type, c), NEW k \in {1, 2},
         c.cur_idx = at.cur_idx + k, at.cur_idx + k <= filesize
  PROVE  L!Take(k, type, SubSeq(Unread, 1, k)) /\ phase' = "scan"
<1> DEFINE token == Token(type, Word(at.cur_idx, c), cur_line, c.cur_idx)
<1>1. /\ list' = add_list(list, token) /\ at' = c /\ UNCHANGED <<source, phase>>
  BY DEF AddSymbol, SeekBack
<1>2. PICK a \in Nat, n \in Nat : a = at.cur_idx /\ n = a + k
  BY AtScan
<1>3. Consumed \in Nat /\ Consumed = a /\ Consumed' = a + k /\ phase' = "scan" /\ phase = "scan"
  BY <1>1, <1>2, AtScan DEF Consumed
<1>4. L!Take(k, token.type, token.lexeme)
  <2>1. k \in Nat /\ Consumed + k <= filesize /\ Consumed' = Consumed + k
    BY <1>2, <1>3
  <2> HIDE DEF token
  <2> QED BY <1>1, <1>3, <2>1, Taken
<1>5. Word(a, c) = SubSeq(Unread, 1, k)
  <2>1. n - a = k /\ a - a + 1 = 1 /\ a <= n /\ a <= a /\ n <= filesize /\ c.cur_idx = n
    BY <1>2
  <2>2. source \in Sources
    BY AtScan
  <2>3. Word(a, c) = SubSeq(From(a), a - a + 1, n - a)
    BY ONLY <2>1, <2>2, a \in Nat, n \in Nat, GetCurWord
  <2> QED BY <1>2, <2>1, <2>3, AtScan
<1> QED BY <1>2, <1>3, <1>4, <1>5 DEF Token

LEMMA SymbolLex == ASSUME IInv, TextInv, ScanSymbol PROVE TextInv' /\ LexStep
<1> DEFINE a == at.cur_idx
<1>1. Scanning /\ at.cur \in DOMAIN single
  BY DEF ScanSymbol
<1>2. /\ a \in Nat /\ a < filesize /\ filesize \in Nat /\ phase = "scan"
      /\ Unread \in Seq(STRING) /\ Len(Unread) = filesize - a /\ Unread # <<>> /\ Unread[1] = at.cur
      /\ a + 1 < filesize => Unread[2] = next.cur
      /\ next.cur_idx = a + 1 /\ advance(next).cur_idx = a + 2
  BY <1>1, AtScan
<1>3. /\ L!single = single /\ L!double = double /\ DOMAIN double = Pairs
      /\ \A w \in Pairs : double[w] = "T_COMMENT" <=> w = <<"/", "/">>
  BY SameTables, Domains
<1>4. CASE ~Doubled /\ AddSymbol(single[at.cur], next)
  <2>1. L!Take(1, single[at.cur], SubSeq(Unread, 1, 1)) /\ phase' = "scan"
    BY <1>1, <1>2, <1>4, SymbolTaken
  <2>2. L!Start(1) = SubSeq(Unread, 1, 1)
    BY <1>2 DEF L!Start
  <2>3. L!Start(2) \notin DOMAIN double
    <3>1. CASE Len(Unread) = 1
      <4>1. L!Start(2) = SubSeq(Unread, 1, 1)
        BY <3>1 DEF L!Start
      <4>2. Len(SubSeq(Unread, 1, 1)) = 1
        <5>1. \A i \in 1..1 : Unread[i] \in STRING
          BY <1>2
        <5>2. Len(SubSeq(Unread, 1, 1)) = IF 1 <= 1 THEN 1 - 1 + 1 ELSE 0
          BY <5>1, SubSeqProperties
        <5> QED BY <5>2
      <4>3. \A w \in Pairs : Len(w) = 2
        BY DEF Pairs
      <4> HIDE DEF Pairs
      <4> QED BY <1>3, <4>1, <4>2, <4>3
    <3>2. CASE Len(Unread) # 1
      <4>1. Len(Unread) >= 2 /\ a + 1 < filesize
        BY <1>2, <3>2
      <4>2. L!Start(2) = <<at.cur, next.cur>>
        BY <1>2, <4>1, FirstTwo DEF L!Start
      <4>3. ASSUME <<at.cur, next.cur>> \in Pairs PROVE FALSE
        <5>1. next.cur \in {"-", "+", "/", "!", ">", "<", "="}
          BY <4>3 DEF Pairs
        <5>2. next.cur \in DOMAIN single
          BY <5>1, Domains
        <5>3. next.cur \in Longer
          BY <1>3, <4>3, <5>2 DEF Longer
        <5>4. match(next, next.cur)
          BY <1>2, <4>1 DEF match
        <5> QED BY <1>4, <5>3, <5>4 DEF Doubled
      <4> QED BY <1>3, <4>2, <4>3
    <3> QED BY <3>1, <3>2
  <2>4. L!Symbol
    BY <1>1, <1>2, <1>3, <2>1, <2>2, <2>3 DEF L!Symbol
  <2> QED BY <1>2, <2>1, <2>4, BackToScan DEF LexStep, L!LexNext
<1>5. ASSUME at.cur # "/", Doubled, NEW c \in Longer, AddSymbol(double[<<at.cur, c>>], advance(next))
      PROVE  TextInv' /\ LexStep
  <2>1. PICK d \in Longer : match(next, d)
    BY <1>5 DEF Doubled
  <2>2. a + 1 < filesize /\ next.cur = d
    BY <1>2, <2>1 DEF match
  <2>3. <<at.cur, c>> \in Pairs /\ <<at.cur, d>> \in Pairs
    BY <1>3 DEF Longer
  <2>4. c = d
    BY <2>3 DEF Pairs
  <2>5. Len(Unread) >= 2 /\ a + 2 <= filesize
    BY <1>2, <2>2
  <2>6. L!Start(2) = SubSeq(Unread, 1, 2) /\ L!Start(2) = <<at.cur, c>>
    BY <1>2, <2>2, <2>4, <2>5, FirstTwo DEF L!Start
  <2>7. double[<<at.cur, c>>] # "T_COMMENT"
    <3>1. <<at.cur, c>> # <<"/", "/">>
      BY <1>5
    <3> QED BY <1>3, <2>3, <3>1
  <2>8. L!Take(2, double[<<at.cur, c>>], SubSeq(Unread, 1, 2)) /\ phase' = "scan"
    BY <1>1, <1>2, <1>5, <2>5, SymbolTaken
  <2>9. L!Symbol
    BY <1>1, <1>2, <1>3, <2>3, <2>6, <2>7, <2>8 DEF L!Symbol
  <2> QED BY <1>2, <2>8, <2>9, BackToScan DEF LexStep, L!LexNext
<1> QED BY <1>4, <1>5 DEF ScanSymbol

LEMMA LongerLex == ASSUME IInv, TextInv, ScanLonger PROVE TextInv' /\ LexStep
<1> DEFINE a == at.cur_idx
<1>1. Scanning
  BY DEF ScanLonger
<1>2. /\ a \in Nat /\ a < filesize /\ filesize \in Nat /\ phase = "scan" /\ Consumed = a
      /\ at.cur = source[a + 1] /\ next.cur_idx = a + 1
      /\ a + 1 < filesize => next.cur = source[a + 2]
  BY <1>1, AtScan
<1>3. ASSUME NEW fn \in {"comment", "string", "word", "number"}, NEW c, Enter(fn, c)
      PROVE  /\ LexStep /\ start_idx' = a /\ at' = c /\ lexeme' = <<>> /\ phase' = fn
             /\ source' = source /\ filesize' = filesize
  <2>1. /\ start_idx' = a /\ at' = c /\ lexeme' = <<>> /\ phase' = fn /\ UNCHANGED <<source, list>>
    BY <1>3 DEF Enter
  <2>2. Consumed' = Consumed
    BY <1>2, <2>1 DEF Consumed
  <2> QED BY <1>2, <2>1, <2>2, Stutters DEF LexStep, filesize
<1>4. CASE at.cur = "/" /\ Doubled /\ Enter("comment", advance(next))
  <2>1. PICK d \in Longer : match(next, d)
    BY <1>4 DEF Doubled
  <2>2. <<"/", d>> \in Pairs
    BY <1>4, Domains DEF Longer
  <2>3. d = "/"
    BY <2>2 DEF Pairs
  <2>4. a + 2 <= filesize /\ source[a + 1] = "/" /\ source[a + 2] = "/"
    BY <1>2, <1>4, <2>1, <2>3 DEF match
  <2>5. \A j \in 1..Len(<<>>) : FALSE
    OBVIOUS
  <2>6. /\ LexStep /\ start_idx' = a /\ lexeme' = <<>> /\ phase' = "comment"
        /\ source' = source /\ filesize' = filesize
    BY <1>3, <1>4
  <2>7. TextInv'
    BY <2>4, <2>5, <2>6, Unexplained DEF TextInv
  <2> QED BY <2>6, <2>7
<1>5. CASE at.cur = Quote /\ Enter("string", next)
  <2>1. /\ LexStep /\ start_idx' = a /\ at' = next /\ phase' = "string" /\ source' = source
    BY <1>3, <1>5
  <2>2. \A j \in a + 1 + 1..a + 1 : FALSE
    BY <1>2
  <2>3. Only(start_idx + 1, at.cur_idx, Inside)'
    BY <1>2, <2>1, <2>2 DEF Only
  <2>4. TextInv'
    BY <1>2, <1>5, <2>1, <2>3, Unexplained DEF TextInv
  <2> QED BY <2>1, <2>4
<1>6. CASE isalpha(at.cur) /\ Enter("word", next)
  <2>1. /\ LexStep /\ start_idx' = a /\ at' = next /\ phase' = "word" /\ source' = source
    BY <1>3, <1>6
  <2>2. \A j \in a + 1..a + 1 : j = a + 1
    BY <1>2
  <2>3. Only(start_idx, at.cur_idx, Alnum)'
    BY <1>2, <1>6, <2>1, <2>2 DEF Only, Alnum, isalpha
  <2>4. TextInv'
    BY <1>2, <1>6, <2>1, <2>3, Unexplained DEF TextInv
  <2> QED BY <2>1, <2>4
<1>7. CASE isdigit(at.cur) /\ Enter("number", next)
  <2>1. /\ LexStep /\ start_idx' = a /\ at' = next /\ phase' = "number" /\ source' = source
    BY <1>3, <1>7
  <2>2. \A j \in a + 1..a + 1 : j = a + 1
    BY <1>2
  <2>3. Only(start_idx, at.cur_idx, Digits)'
    BY <1>2, <1>7, <2>1, <2>2 DEF Only, Digits, isdigit
  <2>4. TextInv'
    BY <1>2, <1>7, <2>1, <2>3, Unexplained DEF TextInv
  <2> QED BY <2>1, <2>4
<1> QED BY <1>4, <1>5, <1>6, <1>7 DEF ScanLonger

LEMMA BlankLex == ASSUME IInv, TextInv, ScanBlank PROVE TextInv' /\ LexStep
<1> DEFINE a == at.cur_idx
<1>1. /\ Scanning /\ at.cur \in Blank \cup {Newline} /\ at' = next /\ UNCHANGED <<source, list, phase>>
  BY DEF ScanBlank
<1>2. /\ a \in Nat /\ a < filesize /\ filesize \in Nat /\ source \in Sources /\ phase = "scan"
      /\ Consumed = a /\ Unread = From(a) /\ Unread # <<>> /\ Unread[1] = at.cur /\ next.cur_idx = a + 1
  BY <1>1, AtScan
<1>3. Consumed' = a + 1 /\ filesize' = filesize
  BY <1>1, <1>2 DEF Consumed, filesize
<1>4. Unread' = L!After(1)
  <2>1. a + 1 <= filesize /\ 1 \in Nat
    BY <1>2
  <2>2. From(a + 1) = SubSeq(From(a), 1 + 1, Len(From(a)))
    BY <1>2, <2>1, Onward
  <2>3. Unread' = From(a + 1)
    BY <1>1, <1>3 DEF Unread, From
  <2> QED BY <1>2, <2>2, <2>3 DEF L!After
<1>5. at.cur \in L!Blank \cup {L!Newline}
  BY <1>1 DEF L!Blank, Blank, L!Newline, Newline
<1>6. Reads' = Reads
  BY <1>1 DEF Reads
<1>7. L!Skip
  BY <1>1, <1>2, <1>4, <1>5, <1>6 DEF L!Skip, Reads
<1> QED BY <1>1, <1>2, <1>7, BackToScan DEF LexStep, L!LexNext

LEMMA UnknownLex == ASSUME IInv, TextInv, ScanUnknown PROVE TextInv' /\ LexStep
<1>1. /\ Scanning /\ at.cur \notin Known /\ start_idx' = at.cur_idx /\ phase' = "exit"
      /\ UNCHANGED <<source, list>>
  BY DEF ScanUnknown
<1>2. phase = "scan" /\ Consumed = at.cur_idx /\ Unread # <<>> /\ Unread[1] = at.cur
  BY <1>1, AtScan
<1>3. Consumed' = Consumed
  BY <1>1, <1>2 DEF Consumed
<1>4. Unread' = Unread /\ Reads' = Reads
  BY <1>1, <1>3 DEF Unread, filesize, Reads
<1>5. L!Refuse
  BY <1>1, <1>2, <1>4, SameTables DEF L!Refuse, Reads
<1>6. TextInv'
  BY <1>1, Unexplained DEF TextInv
<1> QED BY <1>2, <1>5, <1>6 DEF LexStep, L!LexNext

LEMMA FinishLex == ASSUME IInv, TextInv, Finish PROVE TextInv' /\ LexStep
<1>1. /\ phase = "scan" /\ at.cur_idx >= filesize /\ phase' = "done"
      /\ list' = add_list(list, Token("T_EOF", <<>>, -1, -1)) /\ UNCHANGED <<source, at>>
  BY DEF Finish
<1>2. Consumed = at.cur_idx /\ Consumed' = Consumed
  BY <1>1 DEF Consumed
<1>3. Unread = <<>>
  <2>1. at.cur_idx \in Nat /\ filesize \in Nat /\ source \in Seq(STRING)
    BY <1>1, Here, Sizes
  <2> DEFINE m == at.cur_idx + 1
             n == filesize
  <2>2. m \in Int /\ n \in Int /\ n < m
    BY <1>1, <2>1
  <2>3. Unread = SubSeq(source, m, n)
    BY <1>2 DEF Unread
  <2> HIDE DEF m, n
  <2> QED BY <2>2, <2>3, SubSeqEmpty
<1>4. Unread' = Unread
  BY <1>1, <1>2 DEF Unread, filesize
<1>5. Reads' = Append(Reads, [type |-> "T_EOF", text |-> <<>>])
  <2> DEFINE token == Token("T_EOF", <<>>, -1, -1)
  <2>1. token.type = "T_EOF" /\ token.lexeme = <<>>
    BY DEF Token
  <2>2. list' = add_list(list, token)
    BY <1>1
  <2> HIDE DEF token
  <2>3. Reads' = Append(Reads, [type |-> token.type, text |-> token.lexeme])
    BY <2>2, ReadsMore
  <2> QED BY <2>1, <2>3
<1>6. L!Finish
  BY <1>1, <1>3, <1>4, <1>5 DEF L!Finish, L!Lexeme, Reads
<1>7. TextInv'
  BY <1>1, Unexplained DEF TextInv
<1> QED BY <1>1, <1>6, <1>7 DEF LexStep, L!LexNext

LEMMA FractionLex == ASSUME IInv, TextInv, createFraction PROVE TextInv' /\ LexStep
<1>1. phase = "fraction" /\ UNCHANGED <<source, start_idx, list, phase>>
  BY DEF createFraction, Advance
<1>2. Consumed' = Consumed
  BY <1>1 DEF Consumed
<1>3. TextInv'
  BY <1>1, Unexplained DEF TextInv
<1> QED BY <1>1, <1>2, <1>3, Stutters DEF LexStep

LEMMA StillLex == ASSUME TextInv, UNCHANGED vars PROVE TextInv' /\ LexStep
<1>1. UNCHANGED <<source, at, start_idx, list, lexeme, phase>>
  BY DEF vars
<1>2. Consumed' = Consumed /\ filesize' = filesize
  BY <1>1 DEF Consumed, filesize
<1>3. Unread' = Unread
  BY <1>1, <1>2 DEF Unread
<1>4. UNCHANGED L!lexVars
  BY <1>1, <1>3 DEF L!lexVars
<1>5. OverrunsExplained'
  <2>1. L!After(1)' = L!After(1) /\ L!After(2)' = L!After(2) /\ L!Start(2)' = L!Start(2)
    BY <1>3 DEF L!After, L!Start
  <2>2. /\ L!Run(Unread, InWord)' = L!Run(Unread, InWord)
        /\ L!Run(Unread, InNumber)' = L!Run(Unread, InNumber)
    BY <1>3 DEF L!Run
  <2>3. L!Run(L!After(1), InString)' = L!Run(L!After(1), InString)
    BY <2>1 DEF L!Run
  <2>4. L!Run(L!After(2), LAMBDA c : c # Newline)' = L!Run(L!After(2), LAMBDA c : c # Newline)
    BY <2>1 DEF L!Run
  <2>5. OverrunsExplained
    BY DEF TextInv
  <2> QED BY <1>1, <1>3, <2>1, <2>2, <2>3, <2>4, <2>5 DEF OverrunsExplained
<1>6. TextInv'
  BY <1>1, <1>2, <1>5 DEF TextInv, Only
<1> QED BY <1>4, <1>6 DEF LexStep

LEMMA LexInductive == ASSUME IInv, TextInv, [Next]_vars PROVE TextInv' /\ LexStep
<1>1. CASE scanToken
  BY <1>1, SymbolLex, LongerLex, BlankLex, UnknownLex DEF scanToken
<1>2. CASE create
  BY <1>2, IdentifierLex, StringLex, NumberLex, FractionLex, CommentLex DEF create
<1> QED BY <1>1, <1>2, FinishLex, StillLex DEF Next, tokenize, Terminated

LEMMA LexStarts == ASSUME Init PROVE TextInv /\ L!LexInit
<1>1. phase = "scan" /\ at.cur_idx = 0 /\ source \in Sources /\ list = init_list(Capacity)
  BY DEF Init, Cursor
<1>2. TextInv
  BY <1>1 DEF TextInv, OverrunsExplained
<1>3. Unread = SubSeq(source, 1, filesize)
  <2>1. Consumed = 0 /\ 0 + 1 = 1
    BY <1>1 DEF Consumed
  <2> QED BY <2>1 DEF Unread
<1>4. Unread \in Texts
  BY <1>1, <1>3 DEF Texts, filesize
<1>5. list.length = 0
  BY <1>1 DEF init_list
<1>6. Reads = <<>>
  BY <1>5 DEF Reads
<1> QED BY <1>1, <1>2, <1>4, <1>6 DEF L!LexInit, Reads

-----------------------------------------------------------------------------
(* Lines *)

\* The newlines of the first n characters that are counted.
Seen(n) == {j \in 1..n : source[j] = Newline} \ InStrings

\* A token of the first n characters has its line.
Lined(token, n) ==
  /\ Hides(token) \subseteq 1..n
  /\ token.type # "T_EOF" =>
       /\ EndOf(token) \in Nat /\ EndOf(token) <= n
       /\ LineOf(token) = 1 + Newlines(EndOf(token))

\* The tokens in the list and the line that has been reached are those of
\* what has been consumed.
LineInv ==
  /\ \A k \in 0..list.length - 1 : Lined(get_list(list, k), Consumed)
  /\ cur_line = 1 + Newlines(Consumed)

LEMMA Counts ==
  ASSUME NEW n \in Nat
  PROVE  IsFiniteSet(Seen(n)) /\ Newlines(n) = Cardinality(Seen(n)) /\ Newlines(n) \in Nat
<1>1. IsFiniteSet(1..n)
  BY FS_Interval
<1>2. IsFiniteSet(Seen(n))
  BY <1>1, FS_Subset DEF Seen
<1> QED BY <1>2, FS_CardinalityType DEF Newlines, Seen

\* Nothing is consumed and nothing added.
LEMMA SameLines ==
  ASSUME LineInv, UNCHANGED <<source, list, cur_line>>, Consumed' = Consumed
  PROVE  LineInv'
<1>1. \A token : Hides(token)' = Hides(token)
  BY DEF Hides
<1>2. InStrings' = InStrings
  BY <1>1 DEF InStrings
<1>3. \A n : Newlines(n)' = Newlines(n)
  BY <1>2 DEF Newlines
<1>4. \A t, n : Lined(t, n)' <=> Lined(t, n)
  BY <1>1, <1>3 DEF Lined
<1> QED BY <1>3, <1>4 DEF LineInv

\* A token that follows what was consumed, with no newline in it to count.
LEMMA TokenLines ==
  ASSUME IInv, LineInv, Consumed \in Nat, NEW token, list' = add_list(list, token),
         UNCHANGED <<source, cur_line>>,
         NEW m \in Nat, Consumed' = m, NEW e \in Nat, Consumed <= e, e <= m,
         token.type # "T_EOF" => EndOf(token) = e /\ LineOf(token) = cur_line,
         Hides(token) \subseteq Consumed + 1..m,
         \A j \in Consumed + 1..m : source[j] = Newline => j \in Hides(token)
  PROVE  LineInv'
<1> DEFINE c == Consumed
<1>1. /\ list.length \in Nat /\ list'.length = list.length + 1
      /\ \A i \in 0..list.length :
           get_list(list', i) = IF i = list.length THEN token ELSE get_list(list, i)
  <2>1. IsList(list)
    BY DEF IInv
  <2>2. list.length \in Nat
    BY <2>1 DEF IsList
  <2> QED BY <2>1, <2>2, Adding
<1>2. \A t : Hides(t)' = Hides(t)
  BY DEF Hides
<1>3. InStrings' = InStrings \cup Hides(token)
  <2>1. InStrings' = UNION {Hides(get_list(list', k)) : k \in 0..list'.length - 1}
    BY <1>2 DEF InStrings
  <2>2. 0..list'.length - 1 = 0..list.length
    BY <1>1
  <2>3. \A k \in 0..list.length : k # list.length <=> k \in 0..list.length - 1
    BY <1>1
  <2> DEFINE N == 0..list.length
             M == 0..list.length - 1
  <2>4. InStrings' = UNION {Hides(get_list(list', k)) : k \in N}
    BY <2>1, <2>2
  <2>5. InStrings = UNION {Hides(get_list(list, k)) : k \in M}
    BY DEF InStrings
  <2>6. \A k \in N : get_list(list', k) = IF k = list.length THEN token ELSE get_list(list, k)
    BY <1>1
  <2>7. M \subseteq N /\ list.length \in N /\ \A k \in N : k # list.length <=> k \in M
    BY <1>1, <2>3
  <2> HIDE DEF M, N
  <2> QED BY ONLY <2>4, <2>5, <2>6, <2>7
<1>4. \A n \in Nat : n <= c => Seen(n)' = Seen(n)
  <2> SUFFICES ASSUME NEW n \in Nat, n <= c PROVE Seen(n)' = Seen(n)
    OBVIOUS
  <2>1. \A j \in 1..n : j \notin Hides(token)
    OBVIOUS
  <2> QED BY <1>3, <2>1 DEF Seen
<1>5. \A n \in Nat : c <= n /\ n <= m => Seen(n)' = Seen(c)
  <2> SUFFICES ASSUME NEW n \in Nat, c <= n, n <= m PROVE Seen(n)' = Seen(c)
    OBVIOUS
  <2>1. \A j \in 1..n : \/ j \in 1..c /\ j \notin Hides(token)
                        \/ j \notin 1..c /\ (source[j] = Newline => j \in Hides(token))
    OBVIOUS
  <2>2. 1..c \subseteq 1..n
    OBVIOUS
  <2> QED BY <1>3, <2>1, <2>2 DEF Seen
<1>6. \A n : Newlines(n)' = Cardinality(Seen(n)') /\ Newlines(n) = Cardinality(Seen(n))
  BY DEF Newlines, Seen
<1>7. \A n \in Nat : n <= c => Newlines(n)' = Newlines(n)
  BY <1>4, <1>6
<1>8. Newlines(e)' = Newlines(c) /\ Newlines(m)' = Newlines(c)
  BY <1>5, <1>6
<1>9. cur_line' = 1 + Newlines(m)'
  BY <1>8 DEF LineInv
<1>10. Lined(token, m)'
  <2>1. Hides(token) \subseteq 1..m
    OBVIOUS
  <2>2. token.type # "T_EOF" => LineOf(token) = 1 + Newlines(e)'
    BY <1>8 DEF LineInv
  <2>3. token.type # "T_EOF" => LineOf(token) = 1 + Newlines(EndOf(token))'
    BY <2>2
  <2> QED BY <1>2, <2>1, <2>3 DEF Lined
<1>11. ASSUME NEW t, Lined(t, c) PROVE Lined(t, m)'
  <2>1. 1..c \subseteq 1..m
    OBVIOUS
  <2>2. Hides(t)' \subseteq 1..m
    BY <1>2, <1>11, <2>1 DEF Lined
  <2>3. t.type # "T_EOF" => EndOf(t) \in Nat /\ EndOf(t) <= c /\ EndOf(t) <= m
    BY <1>11 DEF Lined
  <2>4. t.type # "T_EOF" => LineOf(t) = 1 + Newlines(EndOf(t))'
    BY <1>7, <1>11, <2>3 DEF Lined
  <2> QED BY <2>2, <2>3, <2>4 DEF Lined
<1>12. ASSUME NEW k \in 0..list'.length - 1 PROVE Lined(get_list(list, k), m)'
  <2>1. CASE k = list.length
    <3>1. get_list(list', k) = token
      BY <1>1, <2>1
    <3>2. get_list(list, k)' = token
      BY <3>1
    <3> QED BY <1>10, <3>2 DEF Lined
  <2>2. CASE k # list.length
    <3>1. k \in 0..list.length - 1 /\ get_list(list', k) = get_list(list, k)
      BY <1>1, <2>2
    <3>2. Lined(get_list(list, k), c)
      BY <3>1 DEF LineInv
    <3>3. PICK t : t = get_list(list, k)
      OBVIOUS
    <3>4. Lined(t, m)'
      BY <1>11, <3>2, <3>3
    <3>5. get_list(list, k)' = t
      BY <3>1, <3>3
    <3> QED BY <3>4, <3>5 DEF Lined
  <2> QED BY <2>1, <2>2
<1> QED BY <1>9, <1>12 DEF LineInv

\* The types of tokens that are not just what word_type or a table gives.
Special == {"T_STRING_LIT", "T_UNKNOWN", "T_COMMENT", "T_EOF"}

LEMMA PlainTypes ==
  /\ \A w : word_type(w) \notin Special
  /\ \A c \in DOMAIN single : single[c] \notin Special /\ c # Newline
  /\ \A w \in Pairs : w # <<"/", "/">> => double[w] \notin Special /\ w[1] # Newline /\ w[2] # Newline
<1>1. ASSUME NEW w PROVE word_type(w) \notin Special
  <2>1. CASE w \in DOMAIN keyword
    <3>1. keyword = Table(keywords)
      BY DEF keyword
    <3>2. \A e \in keywords : e[2] \notin Special
      BY DEF Special, keywords
    <3>3. PICK e \in keywords : keyword[w] = e[2]
      BY <2>1, <3>1 DEF Table
    <3> QED BY <2>1, <3>2, <3>3 DEF word_type
  <2>2. CASE w \notin DOMAIN keyword
    BY <2>2 DEF word_type, Special
  <2> QED BY <2>1, <2>2
<1>2. ASSUME NEW c \in DOMAIN single PROVE single[c] \notin Special /\ c # Newline
  <2>1. single = Table(singles)
    BY DEF single
  <2>2. \A e \in singles : e[2] \notin Special
    BY DEF Special, singles
  <2>4. \A e \in singles : e[1] # Newline
    BY DEF Newline, singles
  <2>3. PICK e \in singles : single[c] = e[2] /\ c = e[1]
    BY <2>1 DEF Table
  <2> QED BY <2>2, <2>3, <2>4
<1>3. ASSUME NEW w \in Pairs, w # <<"/", "/">>
      PROVE  double[w] \notin Special /\ w[1] # Newline /\ w[2] # Newline
  <2>1. double = Table(doubles)
    BY DEF double
  <2>2. \A e \in doubles : e[1] # <<"/", "/">> => e[2] \notin Special
    BY DEF Special, doubles
  <2>3. w \in {e[1] : e \in doubles}
    BY Domains, <2>1 DEF Table
  <2>4. PICK e \in doubles : double[w] = e[2] /\ w = e[1]
    BY <2>1, <2>3 DEF Table
  <2>5. w[1] # Newline /\ w[2] # Newline
    BY DEF Pairs, Newline
  <2> QED BY <1>3, <2>2, <2>4, <2>5
<1> QED BY <1>1, <1>2, <1>3

\* A word, a number or a symbol is added, without a newline.
LEMMA PlainLines ==
  ASSUME IInv, LineInv, Consumed \in Nat, NEW type, type \notin Special, NEW text,
         NEW e \in Nat, Consumed <= e, Consumed' = e,
         list' = add_list(list, Token(type, text, cur_line, e)), UNCHANGED <<source, cur_line>>,
         \A j \in Consumed + 1..e : source[j] # Newline
  PROVE  LineInv'
<1> DEFINE token == Token(type, text, cur_line, e)
<1>1. EndOf(token) = e /\ LineOf(token) = cur_line /\ Hides(token) = {}
  BY DEF EndOf, LineOf, Hides, Token, Special
<1>2. list' = add_list(list, token)
  OBVIOUS
<1> HIDE DEF token
<1> QED BY <1>1, <1>2, TokenLines

\* A blank is skipped; if it is a newline it is counted.
LEMMA SkipLines ==
  ASSUME LineInv, NEW c \in Nat, Consumed = c, Consumed' = c + 1, UNCHANGED <<source, list>>,
         cur_line' = cur_line + LinesIn(source[c + 1])
  PROVE  LineInv'
<1>1. \A t : Hides(t)' = Hides(t)
  BY DEF Hides
<1>2. InStrings' = InStrings
  BY <1>1 DEF InStrings
<1>3. \A n : Newlines(n)' = Newlines(n)
  BY <1>2 DEF Newlines
<1>4. \A k \in 0..list.length - 1 : Lined(get_list(list, k), c)
  BY DEF LineInv
<1>5. c + 1 \notin InStrings
  <2>1. c + 1 \notin 1..c
    OBVIOUS
  <2> QED BY <1>4, <2>1 DEF InStrings, Lined
<1>6. 1..c + 1 = 1..c \cup {c + 1} /\ c + 1 \notin 1..c
  OBVIOUS
<1>7. Newlines(c + 1) = Newlines(c) + LinesIn(source[c + 1])
  <2>1. PICK m \in Nat : m = c + 1
    OBVIOUS
  <2>2. /\ IsFiniteSet(Seen(c)) /\ Newlines(c) = Cardinality(Seen(c)) /\ Newlines(c) \in Nat
        /\ Newlines(m) = Cardinality(Seen(m))
    BY <2>1, Counts
  <2>3. CASE source[m] = Newline
    <3>1. Seen(m) = Seen(c) \cup {m} /\ m \notin Seen(c)
      BY <1>5, <1>6, <2>1, <2>3 DEF Seen
    <3>2. Cardinality(Seen(m)) = Cardinality(Seen(c)) + 1
      BY <2>2, <3>1, FS_AddElement
    <3> QED BY <2>1, <2>2, <2>3, <3>2 DEF LinesIn
  <2>4. CASE source[m] # Newline
    <3>1. Seen(m) = Seen(c)
      BY <1>6, <2>1, <2>4 DEF Seen
    <3> QED BY <2>1, <2>2, <2>4, <3>1 DEF LinesIn
  <2> QED BY <2>3, <2>4
<1>8. cur_line' = 1 + Newlines(c + 1)
  <2>1. cur_line = 1 + Newlines(c) /\ Newlines(c) \in Nat
    BY Counts DEF LineInv
  <2>2. LinesIn(source[c + 1]) \in Int
    BY DEF LinesIn
  <2> QED BY <1>7, <2>1, <2>2
<1>9. ASSUME NEW t, Lined(t, c) PROVE Lined(t, c + 1)'
  <2>1. t.type # "T_EOF" =>
          /\ EndOf(t) \in Nat /\ EndOf(t) <= c /\ EndOf(t) <= c + 1
          /\ LineOf(t) = 1 + Newlines(EndOf(t))'
    BY <1>3, <1>9 DEF Lined
  <2>2. Hides(t)' \subseteq 1..c + 1
    BY <1>1, <1>6, <1>9 DEF Lined
  <2> QED BY <2>1, <2>2 DEF Lined
<1>10. ASSUME NEW k \in 0..list'.length - 1 PROVE Lined(get_list(list, k), c + 1)'
  BY <1>4, <1>9
<1>11. cur_line' = 1 + Newlines(c + 1)'
  BY <1>3, <1>8
<1> QED BY <1>10, <1>11 DEF LineInv

LEMMA OverrunLines ==
  ASSUME LineInv, phase \notin {"scan", "done"}, Overrun
  PROVE  LineInv'
<1>1. phase' = "overrun" /\ UNCHANGED <<source, list, start_idx, cur_line>>
  BY DEF Overrun, Go
<1>2. Consumed' = Consumed
  BY <1>1 DEF Consumed
<1> QED BY <1>1, <1>2, SameLines

\* While a token is being read.
LEMMA ReadingLines ==
  ASSUME LineInv, phase \notin {"scan", "done"}, phase' \notin {"scan", "done"},
         UNCHANGED <<source, list, start_idx, cur_line>>
  PROVE  LineInv'
<1>1. Consumed' = Consumed
  BY DEF Consumed
<1> QED BY <1>1, SameLines

\* A word or a number ends.
LEMMA CreateLines ==
  ASSUME IInv, LineInv, phase \in {"word", "number"}, NEW type, type \notin Special, NEW C,
         Newline \notin C, Only(start_idx, at.cur_idx, C), createToken(type, start_idx, at)
  PROVE  LineInv'
<1>1. /\ start_idx \in Nat /\ at.cur_idx \in Nat /\ start_idx <= at.cur_idx /\ Consumed = start_idx
  BY Here DEF Consumed
<1>2. CASE Add(Token(type, Word(start_idx, at), cur_line, at.cur_idx), at)
  <2>0. PICK text : text = Word(start_idx, at)
    OBVIOUS
  <2>1. PICK e \in Nat : e = at.cur_idx /\ text = Word(start_idx, at)
    BY <1>1, <2>0
  <2>2. /\ list' = add_list(list, Token(type, text, cur_line, e)) /\ at' = at /\ phase' = "scan"
        /\ UNCHANGED <<source, cur_line>>
    BY <1>2, <2>1 DEF Add
  <2>3. Consumed' = e
    BY <2>1, <2>2 DEF Consumed
  <2>4. \A j \in Consumed + 1..e : source[j] # Newline
    BY <1>1, <2>1 DEF Only
  <2> QED BY <1>1, <2>1, <2>2, <2>3, <2>4, PlainLines
<1>3. CASE Overrun
  BY <1>3, OverrunLines
<1> QED BY <1>2, <1>3 DEF createToken

LEMMA WordLines == ASSUME IInv, TextInv, LineInv, createIdentifer PROVE LineInv'
<1>1. phase = "word" /\ Only(start_idx, at.cur_idx, Alnum)
  BY DEF createIdentifer, TextInv
<1>2. CASE Advance
  BY <1>1, <1>2, ReadingLines DEF Advance
<1>3. CASE createToken(word_type(Word(start_idx, at)), start_idx, SeekBack(at))
  <2>1. Newline \notin Alnum
    BY DEF Alnum, Letter, Digit, Newline
  <2>2. word_type(Word(start_idx, at)) \notin Special
    BY PlainTypes
  <2>3. PICK type : type = word_type(Word(start_idx, at))
    OBVIOUS
  <2>4. createToken(type, start_idx, at)
    BY <1>3, <2>3 DEF SeekBack
  <2> QED BY <1>1, <2>1, <2>2, <2>3, <2>4, CreateLines
<1> QED BY <1>2, <1>3 DEF createIdentifer

LEMMA NumberLines == ASSUME IInv, TextInv, LineInv, createNumber PROVE LineInv'
<1>1. phase = "number" /\ Only(start_idx, at.cur_idx, Digits)
  BY DEF createNumber, TextInv
<1>2. CASE Advance
  BY <1>1, <1>2, ReadingLines DEF Advance
<1>3. CASE phase' = "fraction" /\ UNCHANGED <<source, start_idx, cur_line, list, lexeme>>
  BY <1>1, <1>3, ReadingLines
<1>4. CASE createToken("T_NUMBER_LIT", start_idx, SeekBack(at))
  <2>1. Newline \notin Digits
    BY DEF Digits, Digit, Newline
  <2>2. "T_NUMBER_LIT" \notin Special
    BY DEF Special
  <2>3. createToken("T_NUMBER_LIT", start_idx, at)
    BY <1>4 DEF SeekBack
  <2> QED BY <1>1, <2>1, <2>2, <2>3, CreateLines
<1> QED BY <1>2, <1>3, <1>4 DEF createNumber

\* A string ends: what is hidden is its lexeme.
LEMMA HiddenLines ==
  ASSUME IInv, LineInv, phase = "string", NEW type \in {"T_STRING_LIT", "T_UNKNOWN"},
         NEW start \in Nat, start_idx <= start, start <= at.cur_idx,
         NEW c, NEW m \in Nat, c.cur_idx = m, at.cur_idx <= m,
         \A j \in start_idx + 1..start : source[j] # Newline,
         \A j \in at.cur_idx + 1..m : source[j] # Newline,
         createToken(type, start, c)
  PROVE  LineInv'
<1>1. /\ start_idx \in Nat /\ at.cur_idx \in Nat /\ Consumed = start_idx /\ source \in Sources
      /\ at.cur_idx <= filesize /\ filesize <= Len(source) /\ Len(source) \in Nat /\ filesize \in Nat
  BY Here DEF Consumed, IInv
<1>2. CASE Add(Token(type, Word(start, at), cur_line, at.cur_idx), c)
  <2>0. PICK text : text = Word(start, at)
    OBVIOUS
  <2>1. PICK e \in Nat : e = at.cur_idx /\ text = Word(start, at)
    BY <1>1, <2>0
  <2> DEFINE token == Token(type, text, cur_line, e)
  <2>2. e <= Len(source) /\ Len(text) = e - start /\ start <= e
    <3>1. e <= Len(source)
      BY <1>1, <2>1
    <3> QED BY <1>1, <2>1, <3>1, WordLen
  <2>3. list' = add_list(list, token) /\ at' = c /\ phase' = "scan" /\ UNCHANGED <<source, cur_line>>
    BY <1>2, <2>1 DEF Add
  <2>4. Consumed' = m
    BY <2>3 DEF Consumed
  <2>5. EndOf(token) = e /\ LineOf(token) = cur_line
    BY DEF EndOf, LineOf, Token
  <2>6. Hides(token) = start + 1..e
    <3>1. Hides(token) = {j \in 1..Len(source) : e - Len(text) < j /\ j <= e}
      BY DEF Hides, Token
    <3>2. e - Len(text) = start
      BY <2>2
    <3>3. \A j \in Int : j \in 1..Len(source) /\ start < j /\ j <= e <=> j \in start + 1..e
      BY <1>1, <2>2
    <3> QED BY <3>1, <3>2, <3>3
  <2> HIDE DEF token
  <2>7. ASSUME NEW j \in start_idx + 1..m, source[j] = Newline PROVE j \in start + 1..e
    <3>1. j \notin start_idx + 1..start /\ j \notin e + 1..m
      BY <2>1, <2>7
    <3> QED BY <1>1, <2>1, <3>1
  <2>8. start + 1..e \subseteq start_idx + 1..m
    BY <1>1, <2>1
  <2>9. /\ Consumed <= e /\ e <= m /\ Hides(token) \subseteq Consumed + 1..m
        /\ \A j \in Consumed + 1..m : source[j] = Newline => j \in Hides(token)
    BY <1>1, <2>1, <2>2, <2>6, <2>7, <2>8
  <2> QED BY <1>1, <2>3, <2>4, <2>5, <2>9, TokenLines
<1>3. CASE Overrun
  BY <1>3, OverrunLines
<1> QED BY <1>2, <1>3 DEF createToken

LEMMA StringLines == ASSUME IInv, TextInv, LineInv, createString PROVE LineInv'
<1> DEFINE a == start_idx
           b == at.cur_idx
<1>1. phase = "string" /\ source[a + 1] = Quote
  BY DEF createString, TextInv
<1>2. a \in Nat /\ b \in Nat /\ a < b /\ b <= filesize /\ filesize \in Nat
  BY <1>1, Here DEF IInv
<1>3. Quote # Newline
  BY DEF Quote, Newline
<1>4. CASE Advance
  BY <1>1, <1>4, ReadingLines DEF Advance
<1>5. CASE createToken("T_UNKNOWN", start_idx, SeekBack(at))
  <2>1. (\A j \in a + 1..a : FALSE) /\ (\A j \in b + 1..b : FALSE)
    BY <1>2
  <2>2. createToken("T_UNKNOWN", a, at)
    BY <1>5 DEF SeekBack
  <2> HIDE DEF a, b
  <2> QED BY <1>1, <1>2, <2>1, <2>2, HiddenLines DEF a, b
<1>6. CASE peek(at) = Quote /\ createToken("T_STRING_LIT", start_idx + 1, advance(SeekBack(at)))
  <2>1. b < filesize
    BY <1>1, <1>6, AtEnd, Here
  <2>2. source[b + 1] = Quote
    BY <1>1, <1>6, <2>1, Peeks
  <2>3. advance(at).cur_idx = b + 1
    BY <1>1, <2>1, Here
  <2>4. (\A j \in a + 1..a + 1 : source[j] # Newline) /\ (\A j \in b + 1..b + 1 : source[j] # Newline)
    BY <1>1, <1>2, <1>3, <2>2
  <2>5. createToken("T_STRING_LIT", a + 1, advance(at))
    BY <1>6 DEF SeekBack
  <2>6. PICK m \in Nat, start \in Nat : m = b + 1 /\ start = a + 1
    BY <1>2
  <2>7. a <= start /\ start <= b /\ b <= m
    BY <1>2, <2>6
  <2> QED BY <1>1, <2>3, <2>4, <2>5, <2>6, <2>7, HiddenLines
<1> QED BY <1>4, <1>5, <1>6 DEF createString

LEMMA CommentLines == ASSUME IInv, TextInv, LineInv, createCommentToken PROVE LineInv'
<1> DEFINE a == start_idx
           b == at.cur_idx
           n == Len(lexeme)
<1>1. /\ phase = "comment" /\ source[a + 1] = "/" /\ source[a + 2] = "/"
      /\ \A j \in 1..n : a + 2 + j <= filesize => lexeme[j] # Newline /\ lexeme[j] = source[a + 2 + j]
  BY DEF createCommentToken, TextInv
<1>2. a \in Nat /\ b \in Nat /\ n \in Nat /\ b = a + 2 + n /\ filesize \in Nat /\ Consumed = a
  BY <1>1, Here DEF IInv, Consumed
<1>3. CASE UNCHANGED <<source, start_idx, cur_line, list, phase>>
  BY <1>1, <1>3, ReadingLines
<1>4. CASE Overrun
  BY <1>1, <1>4, OverrunLines
<1>5. CASE peek(at) = Newline /\ Add(Token("T_COMMENT", lexeme, at.cur_idx, cur_line), at)
  <2>1. PICK e \in Nat : e = b
    BY <1>2
  <2> DEFINE token == Token("T_COMMENT", lexeme, e, cur_line)
  <2>2. list' = add_list(list, token) /\ at' = at /\ phase' = "scan" /\ UNCHANGED <<source, cur_line>>
    BY <1>5, <2>1 DEF Add
  <2>3. Consumed' = e
    BY <2>1, <2>2 DEF Consumed
  <2>4. EndOf(token) = e /\ LineOf(token) = cur_line /\ Hides(token) = {}
    BY DEF EndOf, LineOf, Hides, Token
  <2> HIDE DEF token
  <2>5. b < filesize
    <3>1. Newline # NUL
      BY DEF Newline, NUL
    <3> QED BY <1>1, <1>5, <3>1, Here
  <2>6. ASSUME NEW j \in a + 1..e PROVE source[j] # Newline
    <3>1. "/" # Newline
      BY DEF Newline
    <3>2. CASE j \in {a + 1, a + 2}
      BY <1>1, <3>1, <3>2
    <3>3. CASE j \notin {a + 1, a + 2}
      <4>1. PICK i \in Int : i = j - (a + 2)
        BY <1>2
      <4>2. i \in 1..n /\ a + 2 + i = j /\ a + 2 + i <= filesize
        BY <1>2, <2>1, <2>5, <3>3, <4>1
      <4> QED BY <1>1, <4>2
    <3> QED BY <3>2, <3>3
  <2>7. /\ Consumed \in Nat /\ Consumed <= e /\ e <= e
        /\ Hides(token) \subseteq Consumed + 1..e
        /\ \A j \in Consumed + 1..e : source[j] = Newline => j \in Hides(token)
    BY <1>2, <2>1, <2>4, <2>6
  <2> QED BY <2>2, <2>3, <2>4, <2>7, TokenLines
<1> QED BY <1>3, <1>4, <1>5 DEF createCommentToken

\* A symbol of k characters.
LEMMA AddSymbolLines ==
  ASSUME IInv, LineInv, Scanning, NEW type, type \notin Special, NEW c, AddSymbol(type, c),
         NEW k \in {1, 2}, c.cur_idx = at.cur_idx + k,
         \A j \in at.cur_idx + 1..at.cur_idx + k : source[j] # Newline
  PROVE  LineInv'
<1>0. PICK text : text = Word(at.cur_idx, c)
  OBVIOUS
<1>1. PICK a \in Nat, e \in Nat : a = at.cur_idx /\ e = a + k /\ text = Word(a, c)
  BY <1>0, AtScan
<1>2. /\ list' = add_list(list, Token(type, text, cur_line, e)) /\ at' = c
      /\ UNCHANGED <<source, cur_line, phase>>
  BY <1>1 DEF AddSymbol, SeekBack
<1>3. Consumed = a /\ Consumed' = e
  BY <1>1, <1>2, AtScan DEF Consumed
<1>4. Consumed \in Nat /\ Consumed <= e /\ \A j \in Consumed + 1..e : source[j] # Newline
  BY <1>1, <1>3
<1> QED BY <1>2, <1>3, <1>4, PlainLines

LEMMA SymbolLines == ASSUME IInv, LineInv, ScanSymbol PROVE LineInv'
<1> DEFINE a == at.cur_idx
<1>1. Scanning /\ at.cur \in DOMAIN single
  BY DEF ScanSymbol
<1>2. /\ a \in Nat /\ a < filesize /\ filesize \in Nat /\ at.cur = source[a + 1]
      /\ next.cur_idx = a + 1 /\ advance(next).cur_idx = a + 2
      /\ a + 1 < filesize => next.cur = source[a + 2]
  BY <1>1, AtScan
<1>3. CASE AddSymbol(single[at.cur], next)
  <2>1. single[at.cur] \notin Special /\ source[a + 1] # Newline
    BY <1>1, <1>2, PlainTypes
  <2>2. \A j \in a + 1..a + 1 : j = a + 1
    BY <1>2
  <2> QED BY <1>1, <1>2, <1>3, <2>1, <2>2, AddSymbolLines
<1>4. ASSUME at.cur # "/", Doubled, NEW c \in Longer, AddSymbol(double[<<at.cur, c>>], advance(next))
      PROVE  LineInv'
  <2>1. PICK d \in Longer : match(next, d)
    BY <1>4 DEF Doubled
  <2>2. a + 1 < filesize /\ next.cur = d
    BY <1>2, <2>1 DEF match
  <2>3. <<at.cur, c>> \in Pairs /\ <<at.cur, d>> \in Pairs
    BY Domains DEF Longer
  <2>4. c = d
    BY <2>3 DEF Pairs
  <2>5. PICK w \in Pairs : w = <<at.cur, c>>
    BY <2>3
  <2>6. w # <<"/", "/">> /\ w[1] = at.cur /\ w[2] = c
    BY <1>4, <2>5
  <2>7. double[w] \notin Special /\ source[a + 1] # Newline /\ source[a + 2] # Newline
    BY <1>2, <2>2, <2>4, <2>6, PlainTypes
  <2>8. \A j \in a + 1..a + 2 : j = a + 1 \/ j = a + 2
    BY <1>2
  <2>9. \A j \in a + 1..a + 2 : source[j] # Newline
    BY <2>7, <2>8
  <2> QED BY <1>1, <1>2, <1>4, <2>5, <2>7, <2>9, AddSymbolLines
<1> QED BY <1>3, <1>4 DEF ScanSymbol

LEMMA LongerLines == ASSUME IInv, LineInv, ScanLonger PROVE LineInv'
<1>1. Scanning
  BY DEF ScanLonger
<1>2. ASSUME NEW fn \in {"comment", "string", "word", "number"}, NEW c, Enter(fn, c)
      PROVE  LineInv'
  <2>1. /\ start_idx' = at.cur_idx /\ phase' = fn /\ UNCHANGED <<source, list, cur_line>>
    BY <1>2 DEF Enter
  <2>2. Consumed' = Consumed
    BY <1>1, <2>1, AtScan DEF Consumed
  <2> QED BY <2>1, <2>2, SameLines
<1> QED BY <1>2 DEF ScanLonger

LEMMA BlankLines == ASSUME IInv, LineInv, ScanBlank PROVE LineInv'
<1>1. /\ Scanning /\ at' = next /\ cur_line' = cur_line + LinesIn(at.cur)
      /\ UNCHANGED <<source, list, phase>>
  BY DEF ScanBlank
<1>2. PICK c \in Nat : c = at.cur_idx
  BY <1>1, AtScan
<1>3. Consumed = c /\ Consumed' = c + 1 /\ at.cur = source[c + 1]
  BY <1>1, <1>2, AtScan DEF Consumed
<1> QED BY <1>1, <1>3, SkipLines

LEMMA UnknownLines == ASSUME IInv, LineInv, ScanUnknown PROVE LineInv'
<1>1. /\ Scanning /\ start_idx' = at.cur_idx /\ phase' = "exit" /\ UNCHANGED <<source, list, cur_line>>
  BY DEF ScanUnknown
<1>2. Consumed' = Consumed
  BY <1>1, AtScan DEF Consumed
<1> QED BY <1>1, <1>2, SameLines

LEMMA FinishLines == ASSUME IInv, LineInv, Finish PROVE LineInv'
<1> DEFINE token == Token("T_EOF", <<>>, -1, -1)
<1>1. phase = "scan" /\ list' = add_list(list, token) /\ phase' = "done" /\ UNCHANGED <<source, at, cur_line>>
  BY DEF Finish
<1>2. Consumed' = Consumed /\ Consumed \in Nat
  BY <1>1, Here DEF Consumed
<1>3. token.type = "T_EOF" /\ Hides(token) = {}
  BY DEF Token, Hides
<1> HIDE DEF token
<1>4. PICK m \in Nat : m = Consumed
  BY <1>2
<1>5. \A j \in m + 1..m : FALSE
  OBVIOUS
<1> QED BY <1>1, <1>2, <1>3, <1>4, <1>5, TokenLines

LEMMA LinesInductive == ASSUME IInv, TextInv, LineInv, [Next]_vars PROVE LineInv'
<1>1. CASE scanToken
  BY <1>1, SymbolLines, LongerLines, BlankLines, UnknownLines DEF scanToken
<1>2. CASE create
  <2>1. CASE createFraction
    BY <2>1, ReadingLines DEF createFraction, Advance
  <2> QED BY <1>2, <2>1, WordLines, StringLines, NumberLines, CommentLines DEF create
<1>3. CASE UNCHANGED vars
  <2>1. Consumed' = Consumed
    BY <1>3 DEF vars, Consumed
  <2> QED BY <1>3, <2>1, SameLines DEF vars
<1> QED BY <1>1, <1>2, <1>3, FinishLines DEF Next, tokenize, Terminated

LEMMA LinesStart == ASSUME Init PROVE LineInv
<1>1. phase = "scan" /\ at.cur_idx = 0 /\ cur_line = 1 /\ list.length = 0
  BY DEF Init, Cursor, init_list
<1>2. Consumed = 0
  BY <1>1 DEF Consumed
<1>3. Newlines(0) = 0
  <2>1. Seen(0) = {}
    BY DEF Seen
  <2> QED BY <2>1, Counts, FS_EmptySet
<1> QED BY <1>1, <1>2, <1>3 DEF LineInv

-----------------------------------------------------------------------------
(* The end of the list *)

\* The list is left alone, or a token that does not end it is added.
LEMMA NotEnded ==
  ASSUME IInv, EofEnds, phase # "done", phase' # "done",
         \/ UNCHANGED list
         \/ \E token : token.type # "T_EOF" /\ list' = add_list(list, token)
  PROVE  EofEnds'
<1>1. CASE UNCHANGED list
  BY <1>1 DEF EofEnds
<1>2. ASSUME NEW token, token.type # "T_EOF", list' = add_list(list, token)
      PROVE  EofEnds'
  <2>1. IsList(list) /\ list.length \in Nat
    BY DEF IInv, IsList
  <2>2. /\ list'.length = list.length + 1
        /\ \A k \in 0..list.length :
             get_list(list', k) = IF k = list.length THEN token ELSE get_list(list, k)
    BY <1>2, <2>1, Adding
  <2>3. \A k \in 0..list'.length - 1 :
          k \in 0..list.length /\ (k # list.length => k \in 0..list.length - 1)
    BY <2>1, <2>2
  <2>4. \A k \in 0..list'.length - 1 : get_list(list', k).type # "T_EOF"
    BY <1>2, <2>2, <2>3 DEF EofEnds
  <2> QED BY <2>4 DEF EofEnds
<1> QED BY <1>1, <1>2

\* A token of a lexeme that has been read is added, or nothing is.
LEMMA CreatedEnds ==
  ASSUME IInv, EofEnds, phase # "done", NEW type, type # "T_EOF", NEW start, NEW c,
         createToken(type, start, c)
  PROVE  EofEnds'
<1> DEFINE token == Token(type, Word(start, at), cur_line, at.cur_idx)
<1>1. token.type # "T_EOF"
  BY DEF Token
<1>2. CASE Add(token, c)
  <2>1. list' = add_list(list, token) /\ phase' # "done"
    BY <1>2 DEF Add
  <2> HIDE DEF token
  <2> QED BY <1>1, <2>1, NotEnded
<1>3. CASE Overrun
  BY <1>3, NotEnded DEF Overrun, Go
<1> QED BY <1>2, <1>3 DEF createToken

LEMMA CreateEnds == ASSUME IInv, EofEnds, create PROVE EofEnds'
<1>1. CASE Advance /\ phase # "done"
  BY <1>1, NotEnded DEF Advance
<1>2. CASE createIdentifer
  <2>1. PICK type : type = word_type(Word(start_idx, at)) /\ type # "T_EOF"
    BY PlainTypes DEF Special
  <2> QED BY <1>1, <1>2, <2>1, CreatedEnds DEF createIdentifer
<1>3. CASE createString
  BY <1>1, <1>3, CreatedEnds DEF createString
<1>4. CASE createNumber
  <2>1. CASE phase' = "fraction" /\ UNCHANGED list
    BY <1>4, <2>1, NotEnded DEF createNumber
  <2> QED BY <1>1, <1>4, <2>1, CreatedEnds DEF createNumber
<1>5. CASE createCommentToken
  <2>1. phase = "comment"
    BY <1>5 DEF createCommentToken
  <2>2. CASE UNCHANGED <<list, phase>>
    BY <2>1, <2>2, NotEnded
  <2>3. CASE Add(Token("T_COMMENT", lexeme, at.cur_idx, cur_line), at)
    <3> DEFINE token == Token("T_COMMENT", lexeme, at.cur_idx, cur_line)
    <3>1. token.type # "T_EOF"
      BY DEF Token
    <3>2. list' = add_list(list, token) /\ phase' # "done"
      BY <2>3 DEF Add
    <3> HIDE DEF token
    <3> QED BY <2>1, <3>1, <3>2, NotEnded
  <2>4. CASE Overrun
    BY <2>1, <2>4, NotEnded DEF Overrun, Go
  <2> QED BY <1>5, <2>2, <2>3, <2>4 DEF createCommentToken
<1>6. CASE createFraction
  BY <1>1, <1>6 DEF createFraction
<1> QED BY <1>2, <1>3, <1>4, <1>5, <1>6 DEF create

LEMMA ScanEnds == ASSUME IInv, EofEnds, scanToken PROVE EofEnds'
<1>1. ASSUME Scanning, NEW type, type # "T_EOF", NEW c, AddSymbol(type, c)
      PROVE  EofEnds'
  <2> DEFINE token == Token(type, Word(at.cur_idx, c), cur_line, c.cur_idx)
  <2>1. token.type # "T_EOF"
    BY <1>1 DEF Token
  <2>2. list' = add_list(list, token) /\ phase # "done" /\ phase' # "done"
    BY <1>1 DEF AddSymbol, Scanning
  <2> HIDE DEF token
  <2> QED BY <2>1, <2>2, NotEnded
<1>2. CASE ScanSymbol
  <2>1. Scanning /\ at.cur \in DOMAIN single
    BY <1>2 DEF ScanSymbol
  <2>2. PICK t : t = single[at.cur] /\ t # "T_EOF"
    BY <2>1, PlainTypes DEF Special
  <2>3. CASE AddSymbol(single[at.cur], next)
    BY <1>1, <2>1, <2>2, <2>3
  <2>4. ASSUME at.cur # "/", NEW c \in Longer, AddSymbol(double[<<at.cur, c>>], advance(next))
        PROVE  EofEnds'
    <3>1. PICK w \in Pairs : w = <<at.cur, c>>
      BY Domains DEF Longer
    <3>2. w # <<"/", "/">>
      BY <2>4, <3>1
    <3>3. PICK d : d = double[w] /\ d # "T_EOF"
      BY <3>2, PlainTypes DEF Special
    <3> QED BY <1>1, <2>1, <2>4, <3>1, <3>3
  <2> QED BY <1>2, <2>3, <2>4 DEF ScanSymbol
<1>3. CASE ScanLonger
  BY <1>3, NotEnded DEF ScanLonger, Scanning, Enter
<1>4. CASE ScanBlank \/ ScanUnknown
  BY <1>4, NotEnded DEF ScanBlank, ScanUnknown, Scanning
<1> QED BY <1>2, <1>3, <1>4 DEF scanToken

LEMMA FinishEnds == ASSUME IInv, EofEnds, Finish PROVE EofEnds'
<1> DEFINE token == Token("T_EOF", <<>>, -1, -1)
<1>1. phase # "done" /\ phase' = "done" /\ list' = add_list(list, token)
  BY DEF Finish
<1>2. token.type = "T_EOF"
  BY DEF Token
<1> HIDE DEF token
<1>3. IsList(list) /\ list.length \in Nat
  BY DEF IInv, IsList
<1>4. /\ list'.length = list.length + 1
      /\ \A k \in 0..list.length :
           get_list(list', k) = IF k = list.length THEN token ELSE get_list(list, k)
  BY <1>1, <1>3, Adding
<1>5. \A k \in 0..list'.length - 1 :
        /\ k \in 0..list.length /\ (k # list.length => k \in 0..list.length - 1)
        /\ k = list'.length - 1 <=> k = list.length
  BY <1>3, <1>4
<1>6. \A k \in 0..list'.length - 1 : get_list(list', k).type = "T_EOF" <=> k = list'.length - 1
  BY <1>1, <1>2, <1>4, <1>5 DEF EofEnds
<1>7. list'.length > 0
  BY <1>3, <1>4
<1> QED BY <1>1, <1>6, <1>7 DEF EofEnds

LEMMA EndsInductive == ASSUME IInv, EofEnds, [Next]_vars PROVE EofEnds'
<1>1. CASE UNCHANGED vars
  BY <1>1 DEF vars, EofEnds
<1> QED BY <1>1, ScanEnds, CreateEnds, FinishEnds DEF Next, tokenize, Terminated

-----------------------------------------------------------------------------
(* The theorems *)

(***************************************************************************)
(* For every source, and whichever of the functions has read from the      *)
(* file, the look-ahead, the file's position and the index are in step.    *)
(***************************************************************************)
THEOREM CursorsStayInStep == Spec => []CursorsAgree
<1>1. IInv => CursorsAgree
  BY DEF IInv, CursorsAgree, IsAt, Cursor
<1> QED BY Starts, Inductive, <1>1, PTL DEF Spec

(***************************************************************************)
(* For every source, buffer size and capacity, every token of the list is  *)
(* inside the list's block and its lexeme inside its buffer.               *)
(***************************************************************************)
THEOREM LexemesStayInside == Spec => []LexemesFit
<1>1. IInv => LexemesFit
  BY DEF IInv
<1> QED BY Starts, Inductive, <1>1, PTL DEF Spec

(***************************************************************************)
(* For every source, buffer size and capacity, the tokenizer implements    *)
(* Lexer: what has become of the text in its list is, step by step, what   *)
(* taking the longest lexemes from the left makes of it.                   *)
(***************************************************************************)
THEOREM ImplementsLexer == Spec => LexerSpec
<1>1. Init => IInv /\ TextInv /\ L!LexInit
  BY Starts, LexStarts
<1>2. IInv /\ TextInv /\ [Next]_vars => IInv' /\ TextInv' /\ [L!LexNext]_(L!lexVars)
  BY Inductive, LexInductive DEF LexStep
<1> QED BY <1>1, <1>2, PTL DEF Spec, LexerSpec, L!LexSpec

(***************************************************************************)
(* For every source and buffer size, a buffer is written past only at a    *)
(* lexeme that is too long for it, or in a comment that the end of the     *)
(* text leaves open.                                                       *)
(***************************************************************************)
THEOREM OverrunsAreLong == Spec => []OverrunsExplained
<1>1. Init => IInv /\ TextInv
  BY Starts, LexStarts
<1>2. IInv /\ TextInv /\ [Next]_vars => IInv' /\ TextInv'
  BY Inductive, LexInductive
<1>3. TextInv => OverrunsExplained
  BY DEF TextInv
<1> QED BY <1>1, <1>2, <1>3, PTL DEF Spec

(***************************************************************************)
(* For every source, the list of tokens ends with T_EOF once it is done,   *)
(* and holds no other, which is what InputsAssumption of Parser asks of    *)
(* the tokens the parser is given.                                         *)
(***************************************************************************)
THEOREM ListIsEnded == Spec => []EofEnds
<1>1. Init => IInv /\ EofEnds
  BY Starts DEF Init, EofEnds, init_list
<1>2. IInv /\ EofEnds /\ [Next]_vars => IInv' /\ EofEnds'
  BY Inductive, EndsInductive
<1> QED BY <1>1, <1>2, PTL DEF Spec

(***************************************************************************)
(* For every source, whatever the tokens before it were, a token's line is *)
(* the number of newlines before its end, those inside strings left out.   *)
(***************************************************************************)
THEOREM LinesAreTrue == Spec => []LinesTrue
<1>1. Init => IInv /\ TextInv /\ LineInv
  BY Starts, LexStarts, LinesStart
<1>2. IInv /\ TextInv /\ LineInv /\ [Next]_vars => IInv' /\ TextInv' /\ LineInv'
  BY Inductive, LexInductive, LinesInductive
<1>3. LineInv => LinesTrue
  BY DEF LineInv, LinesTrue, Lined
<1> QED BY <1>1, <1>2, <1>3, PTL DEF Spec
=============================================================================
