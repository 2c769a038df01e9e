----------------------------- MODULE ConsoleProofs -----------------------------
(***************************************************************************)
(* The console draws inside its buffer, its text screen shows the tail of  *)
(* what was displayed, Print draws where PrintChar would, and the line     *)
(* being typed is on the screen, for every size of screens and characters  *)
(* and whatever is typed and displayed. The code's loops over strings are  *)
(* functions defined by recursion; what holds all along them is proved     *)
(* with the lemmas of module Recursions.                                   *)
(***************************************************************************)
EXTENDS Console, Recursions, SequenceTheorems, TLAPS

-----------------------------------------------------------------------------
(* The places of a string's characters *)

\* A place of the screen's: in the cursor's range, and its cell, where a cell
\* fits a row at all, does not reach over the right edge.
OnScreen(p) == /\ p \in [x : 0..(Word - 1), y : 0..(Word - 1)]
               /\ w >= CellW => p.x + CellW <= w

\* The resolution, which nothing changes.
Sized == w \in Nat /\ h \in Nat /\ w + CellW < Word

\* The sizes of a character are positive, and a row of two fits the range.
LEMMA Sizes ==
    /\ CellW \in Nat \ {0} /\ CellH \in Nat \ {0} /\ Word \in Nat \ {0}
    /\ 2 * CellW <= Word /\ CellW < Word
<1>1. {CellW, CellH, Word} \subseteq Nat \ {0} /\ 2 * CellW <= Word
  BY ConsoleAssumption
<1> QED
  BY <1>1

\* The coordinates of a place are in the cursor's range.
LEMMA PlaceTyped ==
    ASSUME NEW x \in Int, NEW y \in Int
    PROVE  /\ Place(x, y) \in [x : 0..(Word - 1), y : 0..(Word - 1)]
           /\ x \in 0..(Word - 1) => Place(x, y).x = x
           /\ y \in 0..(Word - 1) => Place(x, y).y = y
<1>1. Word \in Nat \ {0}
  BY ConsoleAssumption
<1>2. x % Word \in 0..(Word - 1) /\ y % Word \in 0..(Word - 1)
  BY <1>1
<1>3. x \in 0..(Word - 1) => x % Word = x
  BY <1>1
<1>4. y \in 0..(Word - 1) => y % Word = y
  BY <1>1
<1> QED
  BY <1>2, <1>3, <1>4 DEF Place

\* Whatever is drawn at a place of the screen, the next one is of the screen.
LEMMA AdvanceStaysOnScreen ==
    ASSUME Sized, NEW p, OnScreen(p), NEW c,
           NEW left \in 0..(Word - 1), w >= CellW => left + CellW <= w
    PROVE  OnScreen(Advance(p, c, left))
<1>1. {CellW, CellH, Word} \subseteq Nat \ {0}
  BY Sizes
<1>2. p.x \in 0..(Word - 1) /\ p.y \in 0..(Word - 1)
  BY DEF OnScreen
<1>3. OnScreen(Place(left, p.y + CellH))
  <2>1. left \in Int /\ p.y + CellH \in Int
    BY <1>1, <1>2
  <2>2. /\ Place(left, p.y + CellH) \in [x : 0..(Word - 1), y : 0..(Word - 1)]
        /\ Place(left, p.y + CellH).x = left
    BY <2>1, PlaceTyped
  <2> QED
    BY <2>2 DEF OnScreen
<1>4. p.x + CellW \in Int /\ p.y \in Int
  BY <1>1, <1>2
<1> DEFINE q == Place(p.x + CellW, p.y)
<1>5. q \in [x : 0..(Word - 1), y : 0..(Word - 1)]
  BY <1>4, PlaceTyped
<1>6. ASSUME (q.x + CellW) % Word <= w, w >= CellW PROVE q.x + CellW <= w
  <2>1. p.x + CellW \in 0..(Word - 1)
    BY <1>1, <1>2, <1>6 DEF OnScreen, Sized
  <2>2. q.x = p.x + CellW
    <3>1. p.x + CellW \in 0..(Word - 1) =>
            Place(p.x + CellW, p.y).x = p.x + CellW
      BY <1>4, PlaceTyped
    <3> QED
      BY <2>1, <3>1
  <2>3. q.x + CellW \in 0..(Word - 1)
    BY <1>1, <1>2, <1>6, <2>2 DEF OnScreen, Sized
  <2>4. (q.x + CellW) % Word = q.x + CellW
    BY <1>1, <2>3
  <2> QED
    BY <1>6, <2>4
<1>7. ~ (q.x + CellW) % Word > w => OnScreen(q)
  <2>1. (q.x + CellW) % Word \in Int
    BY <1>1, <1>5
  <2> HIDE DEF q
  <2> QED
    BY <1>5, <1>6, <2>1 DEF OnScreen, Sized
<1> HIDE DEF q
<1>8. Advance(p, c, left) = Place(left, p.y + CellH) \/
        (Advance(p, c, left) = q /\ ~ (q.x + CellW) % Word > w)
  BY DEF Advance, q
<1> QED
  BY <1>3, <1>7, <1>8

\* Back from a place of the screen is another one of the screen.
LEMMA BackStaysOnScreen ==
    ASSUME Sized, NEW p, OnScreen(p)
    PROVE  OnScreen(BackOne(p))
<1>1. {CellW, CellH, Word} \subseteq Nat \ {0}
  BY Sizes
<1>2. p.x \in 0..(Word - 1) /\ p.y \in 0..(Word - 1)
  BY DEF OnScreen
<1>3. CASE p.x >= CellW
  <2>1. p.x - CellW \in 0..(Word - 1) /\ p.x - CellW \in Int /\ p.y \in Int
    BY <1>1, <1>2, <1>3
  <2>2. /\ Place(p.x - CellW, p.y) \in [x : 0..(Word - 1), y : 0..(Word - 1)]
        /\ Place(p.x - CellW, p.y).x = p.x - CellW
    BY <2>1, PlaceTyped
  <2> QED
    BY <1>1, <1>2, <1>3, <2>2 DEF OnScreen, Sized, BackOne
<1>4. CASE ~ p.x >= CellW /\ p.y >= CellH
  <2>0. w - CellW \in Int /\ p.y - CellH \in Int
    BY <1>1, <1>2 DEF Sized
  <2>1. Place(w - CellW, p.y - CellH) \in [x : 0..(Word - 1), y : 0..(Word - 1)]
    BY <2>0, PlaceTyped
  <2>2. w >= CellW => w - CellW \in 0..(Word - 1)
    BY <1>1 DEF Sized
  <2>3. w >= CellW => Place(w - CellW, p.y - CellH).x = w - CellW
    BY <2>0, <2>2, PlaceTyped
  <2>4. w >= CellW => w - CellW + CellW <= w
    BY <1>1 DEF Sized
  <2> QED
    BY <1>4, <2>1, <2>3, <2>4 DEF OnScreen, BackOne
<1> QED
  BY <1>3, <1>4 DEF BackOne

\* The loop over a string is defined, and all its places are of the screen, if
\* the first one is.
LEMMA PlacesAreOnScreen ==
    ASSUME Sized, NEW str, Len(str) \in Nat, NEW p, OnScreen(p),
           NEW left \in 0..(Word - 1), w >= CellW => left + CellW <= w
    PROVE  /\ DOMAIN Places(str, p, left) = 1..(Len(str) + 1)
           /\ \A j \in 1..(Len(str) + 1) : OnScreen(Places(str, p, left)[j])
           /\ Places(str, p, left)[1] = p
           /\ \A j \in 1..Len(str) :
                 Places(str, p, left)[j + 1] = Advance(Places(str, p, left)[j], str[j], left)
<1> DEFINE end == Len(str) + 1
           V == {q \in [x : 0..(Word - 1), y : 0..(Word - 1)] : OnScreen(q)}
           F == [i \in 2..end |-> [q \in V |-> Advance(q, str[i - 1], left)]]
           Good(f) == f = [i \in 1..end |-> IF i = 1 THEN p ELSE Advance(f[i - 1], str[i - 1], left)]
           place == CHOOSE f : Good(f)
<1>1. \A q, c : OnScreen(q) => Advance(q, c, left) \in V
  BY AdvanceStaysOnScreen DEF OnScreen
<1>2. \E f : Good(f)
  <2>1. p \in V
    BY DEF OnScreen
  <2>2. \A i \in (1 + 1)..end : \A q \in V : F[i][q] \in V
    BY <1>1
  <2>3. 1 <= end /\ end \in Int
    OBVIOUS
  <2> HIDE DEF V, F, end
  <2>4. Recursive(1, end, V, p, F)
    BY <2>1, <2>2, <2>3 DEF Recursive
  <2>5. PICK f \in [1..end -> V] :
           f[1] = p /\ \A i \in (1 + 1)..end : f[i] = F[i][f[i - 1]]
    BY <2>4, Recursion
  <2>6. ASSUME NEW i \in 1..end, i # 1
        PROVE  F[i][f[i - 1]] = Advance(f[i - 1], str[i - 1], left)
    <3>1. f[i - 1] \in V /\ i \in 2..end
      BY <2>3, <2>6
    <3> QED
      BY <3>1 DEF F
  <2>7. Good(f)
    BY <2>5, <2>6
  <2> HIDE DEF Good
  <2> QED
    BY <2>7
<1>3. Places(str, p, left) = place
  BY DEF Places
<1>4. Good(place)
  <2> HIDE DEF Good
  <2> QED
    BY <1>2
<1> HIDE DEF place
<1> DEFINE S == {i \in 1..end : OnScreen(place[i])}
<1>5. 1 \in S
  BY <1>4
<1>6. ASSUME NEW i \in 1..(end - 1), i \in S PROVE i + 1 \in S
  <2>1. OnScreen(place[i])
    BY <1>6
  <2>2. i + 1 \in 1..end /\ i + 1 # 1 /\ (i + 1) - 1 = i
    OBVIOUS
  <2>3. place[i + 1] = Advance(place[i], str[i], left)
    BY <1>4, <2>2
  <2> QED
    BY <1>1, <2>1, <2>2, <2>3
<1>7. 1..end \subseteq S
  <2>1. 1 \in Int /\ end \in Int
    OBVIOUS
  <2> HIDE DEF S, end
  <2> QED
    BY <2>1, <1>5, <1>6, AllAlong
<1>8. DOMAIN place = 1..end /\ place[1] = p
  BY <1>4
<1>9. ASSUME NEW j \in 1..Len(str) PROVE place[j + 1] = Advance(place[j], str[j], left)
  <2>1. j + 1 \in 1..end /\ j + 1 # 1 /\ (j + 1) - 1 = j
    OBVIOUS
  <2> QED
    BY <1>4, <2>1
<1> QED
  BY <1>3, <1>7, <1>8, <1>9

-----------------------------------------------------------------------------
(* The resolution is two numbers *)

\* Which characters are digits, and that each has a value.
LEMMA DigitHasValue ==
    ASSUME NEW c, IsDigit(c)
    PROVE  Value(c) \in Nat /\ c # "NUL"
<1>1. PICK d \in 1..10 : Digits[d] = c
  BY DEF IsDigit, Digits
<1>2. d - 1 \in 0..9 /\ Digits[(d - 1) + 1] = c
  BY <1>1
<1>3. \E e \in 0..9 : Digits[e + 1] = c
  BY <1>2
<1>4. Value(c) \in 0..9
  BY <1>3 DEF Value
<1>5. c # "NUL"
  BY <1>1 DEF Digits
<1> QED
  BY <1>4, <1>5

\* A run of digits ends, behind the string if not before.
LEMMA DigitsEndIsFound ==
    ASSUME NEW str, Len(str) \in Nat, DOMAIN str = 1..Len(str), NEW i \in 1..(Len(str) + 1)
    PROVE  /\ DigitsEnd(str, i) \in i..(Len(str) + 1)
           /\ \A k \in i..(DigitsEnd(str, i) - 1) : IsDigit(CharAt(str, k))
<1> DEFINE S == {j \in i..(Len(str) + 1) : ~ IsDigit(CharAt(str, j))}
<1>1. Len(str) + 1 \in S
  <2>1. CharAt(str, Len(str) + 1) = "NUL"
    BY DEF CharAt
  <2>2. ~ IsDigit("NUL")
    BY DigitHasValue
  <2> QED
    BY <2>1, <2>2
<1>2. PICK m \in S : \A k \in S : m <= k
  <2>1. S \in SUBSET Nat /\ S # {}
    BY <1>1
  <2> HIDE DEF S
  <2> QED
    BY <2>1, LeastElement
<1>3. \A k \in i..(m - 1) : IsDigit(CharAt(str, k))
  <2> SUFFICES ASSUME NEW k \in i..(m - 1), ~ IsDigit(CharAt(str, k)) PROVE FALSE
    OBVIOUS
  <2>1. k \in S /\ ~ m <= k
    BY <1>2
  <2> QED
    BY <1>2, <2>1
<1>4. \E j \in i..(Len(str) + 1) :
         /\ \A k \in i..(j - 1) : IsDigit(CharAt(str, k))
         /\ ~ IsDigit(CharAt(str, j))
  BY <1>2, <1>3
<1> QED
  BY <1>4 DEF DigitsEnd

\* What a run of digits is read as is a natural number, however long it is.
LEMMA NumberIsNatural ==
    ASSUME NEW str, Len(str) \in Nat, DOMAIN str = 1..Len(str), NEW i \in 1..(Len(str) + 1)
    PROVE  Number(str, i) \in Nat
<1> DEFINE end == DigitsEnd(str, i)
           F == [j \in (i + 1)..end |-> [n \in Nat |-> n * 10 + Value(str[j - 1])]]
           Good(f) == f = [j \in i..end |-> IF j = i THEN 0 ELSE f[j - 1] * 10 + Value(str[j - 1])]
           upTo == CHOOSE f : Good(f)
<1>1. end \in i..(Len(str) + 1) /\ \A k \in i..(end - 1) : IsDigit(CharAt(str, k))
  BY DigitsEndIsFound
<1>2. Number(str, i) = upTo[end]
  BY DEF Number
<1> HIDE DEF end
<1>3. ASSUME NEW j \in (i + 1)..end PROVE Value(str[j - 1]) \in Nat
  <2>1. IsDigit(CharAt(str, j - 1)) /\ CharAt(str, j - 1) = str[j - 1]
    BY <1>1 DEF CharAt
  <2> QED
    BY <2>1, DigitHasValue
<1>4. \E f : Good(f)
  <2>1. \A j \in (i + 1)..end : \A n \in Nat : F[j][n] \in Nat
    BY <1>3
  <2>2. i \in Int /\ end \in Int /\ i <= end /\ 0 \in Nat
    BY <1>1
  <2> HIDE DEF F
  <2>3. Recursive(i, end, Nat, 0, F)
    BY <2>1, <2>2 DEF Recursive
  <2>4. PICK f \in [i..end -> Nat] :
           f[i] = 0 /\ \A j \in (i + 1)..end : f[j] = F[j][f[j - 1]]
    BY <2>3, Recursion
  <2>5. ASSUME NEW j \in i..end, j # i
        PROVE  F[j][f[j - 1]] = f[j - 1] * 10 + Value(str[j - 1])
    <3>1. f[j - 1] \in Nat /\ j \in (i + 1)..end
      BY <2>2, <2>5
    <3> QED
      BY <3>1 DEF F
  <2>6. Good(f)
    BY <2>4, <2>5
  <2> HIDE DEF Good
  <2> QED
    BY <2>6
<1>5. Good(upTo)
  <2> HIDE DEF Good
  <2> QED
    BY <1>4
<1> HIDE DEF upTo
<1> DEFINE S == {j \in i..end : upTo[j] \in Nat}
<1>6. i \in S
  BY <1>1, <1>5
<1>7. ASSUME NEW j \in i..(end - 1), j \in S PROVE j + 1 \in S
  <2>1. j + 1 \in (i + 1)..end /\ j + 1 \in i..end /\ j + 1 # i /\ (j + 1) - 1 = j
    BY <1>1
  <2>2. upTo[j + 1] = upTo[j] * 10 + Value(str[j])
    BY <1>5, <2>1
  <2>3. Value(str[j]) \in Nat /\ upTo[j] \in Nat
    BY <1>3, <1>7, <2>1
  <2> QED
    BY <2>1, <2>2, <2>3
<1>8. i..end \subseteq S /\ end \in i..end
  <2> HIDE DEF S
  <2> QED
    BY <1>1, <1>6, <1>7, AllAlong, SMTT(30)
<1> QED
  BY <1>2, <1>8

\* So is what fetchwh leaves in w and h, whatever boot.ini says.
LEMMA FetchedAreNaturals ==
    ASSUME NEW str, Len(str) \in Nat, DOMAIN str = 1..Len(str)
    PROVE  fetchwh(str).width \in Nat /\ fetchwh(str).height \in Nat
<1> DEFINE end == DigitsEnd(str, 1)
<1>1. Number(str, 1) \in Nat
  BY NumberIsNatural
<1>2. end \in 1..(Len(str) + 1)
  BY DigitsEndIsFound
<1>3. CASE CharAt(str, end) = "x"
  <2>1. end + 1 \in 1..(Len(str) + 1)
    BY <1>2, <1>3 DEF CharAt
  <2>2. Number(str, end + 1) \in Nat
    BY <2>1, NumberIsNatural
  <2> QED
    BY <1>1, <1>3, <2>2 DEF fetchwh
<1>4. CASE CharAt(str, end) # "x"
  BY <1>1, <1>4 DEF fetchwh
<1> QED
  BY <1>3, <1>4

-----------------------------------------------------------------------------
(* The text screen *)

\* What is typed and displayed.
Letters == Keys \cup {Backspace, Newline, Blank} \cup
           UNION {Range(str) : str \in {Banner, Prompt, HelpMsg, Quote, NotRecognized}
                                       \cup {BootText} \cup Outputs}

Screens == [screen : [Rows -> [Columns -> Letters]], row : Rows, col : Columns]

\* A character leaves a text screen.
LEMMA ScreenStaysOne ==
    ASSUME NEW t \in Screens, NEW c \in Letters
    PROVE  terminal_writechar(t, c) \in Screens
<1>1. VGA_WIDTH \in Nat \ {0} /\ VGA_HEIGHT \in Nat \ {0}
  BY ConsoleAssumption
<1>2. t.screen \in [Rows -> [Columns -> Letters]] /\ t.row \in Rows /\ t.col \in Columns
  BY DEF Screens
<1> DEFINE put == IF c = Newline THEN t.screen ELSE [t.screen EXCEPT ![t.row][t.col] = c]
           newRow == c = Newline \/ t.col + 1 >= VGA_WIDTH
           row == IF newRow THEN t.row + 1 ELSE t.row
<1>3. put \in [Rows -> [Columns -> Letters]]
  BY <1>2
<1>4. terminal_scroll(put) \in [Rows -> [Columns -> Letters]]
  <2>1. Blank \in Letters
    BY DEF Letters
  <2>2. \A y \in Rows : y # VGA_HEIGHT - 1 => y + 1 \in Rows
    BY <1>1 DEF Rows
  <2> HIDE DEF put
  <2> QED
    BY <1>3, <2>1, <2>2 DEF terminal_scroll
<1>5. row \in Nat /\ (row >= VGA_HEIGHT \/ row \in Rows) /\ VGA_HEIGHT - 1 \in Rows
  BY <1>1, <1>2 DEF Rows
<1>6. (IF newRow THEN 0 ELSE t.col + 1) \in Columns
  BY <1>1, <1>2 DEF Columns
<1>7. terminal_writechar(t, c) =
        [screen |-> IF row >= VGA_HEIGHT THEN terminal_scroll(put) ELSE put,
         row |-> IF row >= VGA_HEIGHT THEN VGA_HEIGHT - 1 ELSE row,
         col |-> IF newRow THEN 0 ELSE t.col + 1]
  BY DEF terminal_writechar
<1> HIDE DEF put, newRow, row
<1> QED
  BY <1>3, <1>4, <1>5, <1>6, <1>7 DEF Screens

\* The loop over a string that is displayed is defined, and each character
\* follows from the screen before it.
LEMMA WrittenByStep ==
    ASSUME NEW t \in Screens, NEW str \in Seq(Letters)
    PROVE  \E after \in [0..Len(str) -> Screens] :
              /\ after[0] = t
              /\ \A n \in 1..Len(str) : after[n] = terminal_writechar(after[n - 1], str[n])
              /\ Written(str, t) = after[Len(str)]
<1> DEFINE F == [n \in 1..Len(str) |-> [u \in Screens |-> terminal_writechar(u, str[n])]]
           Good(f) == f = [n \in 0..Len(str) |->
                              IF n = 0 THEN t ELSE terminal_writechar(f[n - 1], str[n])]
           after == CHOOSE f : Good(f)
<1>0. Len(str) \in Nat /\ \A n \in 1..Len(str) : str[n] \in Letters
  OBVIOUS
<1>1. Recursive(0, Len(str), Screens, t, F)
  <2>1. \A n \in (0 + 1)..Len(str) : \A u \in Screens : F[n][u] \in Screens
    BY <1>0, ScreenStaysOne
  <2> HIDE DEF F
  <2> QED
    BY <1>0, <2>1 DEF Recursive
<1>2. PICK f \in [0..Len(str) -> Screens] :
         f[0] = t /\ \A n \in (0 + 1)..Len(str) : f[n] = F[n][f[n - 1]]
  <2> HIDE DEF F
  <2> QED
    BY <1>1, Recursion
<1>3. Good(f)
  <2>1. ASSUME NEW n \in 0..Len(str), n # 0
        PROVE  F[n][f[n - 1]] = terminal_writechar(f[n - 1], str[n]) /\ n \in (0 + 1)..Len(str)
    <3>1. f[n - 1] \in Screens /\ n \in 1..Len(str)
      BY <1>0, <2>1
    <3> QED
      BY <3>1
  <2> HIDE DEF F
  <2> QED
    BY <1>2, <2>1
<1>4. Good(after)
  <2> HIDE DEF Good
  <2> QED
    BY <1>3
<1>5. Written(str, t) = after[Len(str)]
  BY DEF Written
<1> HIDE DEF after
<1>6. after[0] = t /\ \A n \in 1..Len(str) : after[n] = terminal_writechar(after[n - 1], str[n])
  BY <1>0, <1>4
<1> DEFINE S == {n \in 0..Len(str) : after[n] \in Screens}
<1>7. 0 \in S
  BY <1>0, <1>6
<1>8. ASSUME NEW n \in 0..(Len(str) - 1), n \in S PROVE n + 1 \in S
  <2>1. n + 1 \in 1..Len(str) /\ (n + 1) - 1 = n
    BY <1>0
  <2>2. after[n + 1] = terminal_writechar(after[n], str[n + 1])
    BY <1>6, <2>1
  <2>3. after[n] \in Screens /\ str[n + 1] \in Letters
    BY <1>0, <1>8, <2>1
  <2> QED
    BY <1>0, <2>1, <2>2, <2>3, ScreenStaysOne
<1>9. 0..Len(str) \subseteq S
  <2>1. 0 \in Int /\ Len(str) \in Int
    BY <1>0
  <2> HIDE DEF S
  <2> QED
    BY <2>1, <1>7, <1>8, AllAlong
<1>10. after \in [0..Len(str) -> Screens]
  BY <1>4, <1>9
<1> QED
  BY <1>5, <1>6, <1>10

\* The place behind character c at place p of a text.
Follows(p, c) == IF c = Newline \/ p.col = VGA_WIDTH - 1
                 THEN [row |-> p.row + 1, col |-> 0]
                 ELSE [p EXCEPT !.col = @ + 1]

Spots == [row : Nat, col : Columns]

\* Each place of a text follows from the one before.
LEMMA LayoutByStep ==
    ASSUME NEW str \in Seq(Letters)
    PROVE  /\ Layout(str) \in [1..(Len(str) + 1) -> Spots]
           /\ Layout(str)[1] = [row |-> 0, col |-> 0]
           /\ \A i \in 1..Len(str) : Layout(str)[i + 1] = Follows(Layout(str)[i], str[i])
<1> DEFINE end == Len(str) + 1
           F == [i \in 2..end |-> [p \in Spots |-> Follows(p, str[i - 1])]]
           Good(f) == f = [i \in 1..end |-> IF i = 1 THEN [row |-> 0, col |-> 0]
                                            ELSE Follows(f[i - 1], str[i - 1])]
           place == CHOOSE f : Good(f)
<1>0. end \in Nat /\ 1 <= end
  OBVIOUS
<1>1. \A p \in Spots : \A c : Follows(p, c) \in Spots
  <2>1. VGA_WIDTH \in Nat \ {0}
    BY ConsoleAssumption
  <2>2. ASSUME NEW p \in Spots, NEW c PROVE Follows(p, c) \in Spots
    <3>1. [row |-> p.row + 1, col |-> 0] \in Spots
      BY <2>1 DEF Spots, Columns
    <3>2. p.col # VGA_WIDTH - 1 => [p EXCEPT !.col = @ + 1] \in Spots
      BY <2>1 DEF Spots, Columns
    <3> QED
      BY <3>1, <3>2 DEF Follows
  <2> QED
    BY <2>2
<1>2. [row |-> 0, col |-> 0] \in Spots
  BY ConsoleAssumption DEF Spots, Columns
<1>3. Recursive(1, end, Spots, [row |-> 0, col |-> 0], F)
  <2>1. \A i \in (1 + 1)..end : \A p \in Spots : F[i][p] \in Spots
    BY <1>1
  <2> HIDE DEF F, end
  <2> QED
    BY <1>0, <1>2, <2>1 DEF Recursive
<1>4. PICK f \in [1..end -> Spots] :
         /\ f[1] = [row |-> 0, col |-> 0]
         /\ \A i \in (1 + 1)..end : f[i] = F[i][f[i - 1]]
  <2> HIDE DEF F, end
  <2> QED
    BY <1>3, Recursion
<1>5. Good(f)
  <2>1. ASSUME NEW i \in 1..end, i # 1
        PROVE  F[i][f[i - 1]] = Follows(f[i - 1], str[i - 1]) /\ i \in (1 + 1)..end
    <3>1. f[i - 1] \in Spots /\ i \in 2..end
      BY <1>0, <2>1
    <3> QED
      BY <3>1
  <2> HIDE DEF F
  <2> QED
    BY <1>4, <2>1
<1>6. Good(place)
  <2> HIDE DEF Good
  <2> QED
    BY <1>5
<1>7. Layout(str) = place
  BY DEF Layout, Follows
<1> HIDE DEF place
<1>8. ASSUME NEW i \in 1..Len(str) PROVE place[i + 1] = Follows(place[i], str[i])
  <2>1. i + 1 \in 1..end /\ i + 1 # 1 /\ (i + 1) - 1 = i
    BY <1>0
  <2> QED
    BY <1>6, <2>1
<1> DEFINE S == {i \in 1..end : place[i] \in Spots}
<1>9. 1 \in S
  BY <1>0, <1>2, <1>6
<1>10. ASSUME NEW i \in 1..(end - 1), i \in S PROVE i + 1 \in S
  BY <1>0, <1>1, <1>8, <1>10
<1>11. 1..end \subseteq S
  <2>1. 1 \in Int /\ end \in Int
    BY <1>0
  <2> HIDE DEF S, end
  <2> QED
    BY <2>1, <1>9, <1>10, AllAlong
<1>12. place \in [1..end -> Spots] /\ place[1] = [row |-> 0, col |-> 0]
  BY <1>6, <1>9, <1>11
<1> QED
  BY <1>7, <1>8, <1>12

\* Is place p of a text in a row above that of q, or left of it?
Ahead(p, q) == p.row < q.row \/ (p.row = q.row /\ p.col < q.col)

\* No place is taken twice: every character is ahead of the one behind it.
LEMMA EarlierIsAhead ==
    ASSUME NEW str \in Seq(Letters), NEW i \in 1..Len(str)
    PROVE  Ahead(Layout(str)[i], Layout(str)[Len(str) + 1])
<1> DEFINE place == Layout(str)
           end == Len(str) + 1
           S == {k \in 1..end : \A j \in 1..(k - 1) : Ahead(place[j], place[k])}
<1>0. end \in Nat /\ 1 <= end
  OBVIOUS
<1>1. /\ place \in [1..end -> Spots]
      /\ \A j \in 1..Len(str) : place[j + 1] = Follows(place[j], str[j])
  BY LayoutByStep
<1> HIDE DEF place
<1>2. \A p \in Spots : \A c : Ahead(p, Follows(p, c))
  BY DEF Spots, Columns, Ahead, Follows
<1>3. \A p, q, r \in Spots : Ahead(p, q) /\ Ahead(q, r) => Ahead(p, r)
  BY ConsoleAssumption, SMTT(30) DEF Spots, Columns, Ahead
<1>4. 1 \in S
  BY <1>0
<1>5. ASSUME NEW k \in 1..(end - 1), k \in S PROVE k + 1 \in S
  <2>1. place[k] \in Spots /\ place[k + 1] \in Spots /\ Ahead(place[k], place[k + 1])
    BY <1>0, <1>1, <1>2
  <2>2. ASSUME NEW j \in 1..k PROVE Ahead(place[j], place[k + 1])
    <3>1. CASE j = k
      BY <2>1, <3>1
    <3>2. CASE j \in 1..(k - 1)
      <4>1. Ahead(place[j], place[k]) /\ place[j] \in Spots
        <5>1. j \in 1..end
          BY <1>0, <3>2
        <5>2. \A n \in 1..(k - 1) : Ahead(place[n], place[k])
          BY <1>5
        <5> QED
          BY <1>1, <3>2, <5>1, <5>2
      <4> QED
        BY <1>3, <2>1, <4>1
    <3> QED
      BY <3>1, <3>2
  <2> QED
    BY <2>2
<1>6. 1..end \subseteq S
  <2>1. 1 \in Int /\ end \in Int
    BY <1>0
  <2> HIDE DEF S, end
  <2> QED
    BY <2>1, <1>4, <1>5, AllAlong
<1> QED
  BY <1>0, <1>6 DEF place

\* A character more leaves the places of the others what they were.
LEMMA PlacesOfLonger ==
    ASSUME NEW str \in Seq(Letters), NEW c \in Letters
    PROVE  /\ \A i \in 1..(Len(str) + 1) : Layout(Append(str, c))[i] = Layout(str)[i]
           /\ Layout(Append(str, c))[Len(str) + 2] = Follows(Layout(str)[Len(str) + 1], c)
<1> DEFINE new == Append(str, c)
           end == Len(str) + 1
           S == {i \in 1..end : Layout(new)[i] = Layout(str)[i]}
<1>0. /\ new \in Seq(Letters) /\ Len(new) = end /\ end \in Nat /\ 1 <= end
      /\ \A i \in 1..Len(str) : new[i] = str[i]
      /\ new[end] = c
  OBVIOUS
<1> HIDE DEF new
<1>1. /\ Layout(str)[1] = [row |-> 0, col |-> 0]
      /\ \A i \in 1..Len(str) : Layout(str)[i + 1] = Follows(Layout(str)[i], str[i])
  BY LayoutByStep
<1>2. /\ Layout(new)[1] = [row |-> 0, col |-> 0]
      /\ \A i \in 1..end : Layout(new)[i + 1] = Follows(Layout(new)[i], new[i])
  BY <1>0, LayoutByStep
<1>3. 1 \in S
  BY <1>0, <1>1, <1>2
<1>4. ASSUME NEW i \in 1..(end - 1), i \in S PROVE i + 1 \in S
  <2>1. i \in 1..Len(str) /\ i \in 1..end /\ i + 1 \in 1..end
    BY <1>0
  <2>2. new[i] = str[i] /\ Layout(new)[i] = Layout(str)[i]
    BY <1>0, <1>4, <2>1
  <2>3. Layout(new)[i + 1] = Layout(str)[i + 1]
    BY <1>1, <1>2, <2>1, <2>2
  <2> QED
    BY <2>1, <2>3
<1>5. 1..end \subseteq S
  <2>1. 1 \in Int /\ end \in Int
    BY <1>0
  <2> HIDE DEF S, end
  <2> QED
    BY <2>1, <1>3, <1>4, AllAlong
<1>6. Layout(new)[end + 1] = Follows(Layout(str)[end], c)
  BY <1>0, <1>2, <1>5
<1> QED
  BY <1>0, <1>5, <1>6 DEF new

\* Where a text's last rows are on the screen that shows them.
Top(str) == LET end == Layout(str)[Len(str) + 1]
            IN  IF end.row < VGA_HEIGHT THEN 0 ELSE end.row - VGA_HEIGHT + 1

\* The characters of a text at a place.
At(str, row, col) ==
    {i \in DOMAIN str : str[i] # Newline /\ Layout(str)[i] = [row |-> row, col |-> col]}

\* What a cell shows.
Shown(str, row, col) ==
    IF At(str, row, col) = {} THEN Blank ELSE str[CHOOSE i \in At(str, row, col) : TRUE]

\* The property in these terms.
LEMMA TailByCell ==
    ASSUME NEW t, NEW str
    PROVE  ShowsTail(t, str) <=>
             /\ t.row = Layout(str)[Len(str) + 1].row - Top(str)
             /\ t.col = Layout(str)[Len(str) + 1].col
             /\ \A y \in Rows, x \in Columns : t.screen[y][x] = Shown(str, Top(str) + y, x)
BY DEF ShowsTail, Top, Shown, At

\* A character more is shown at its place, which no other has.
LEMMA ShownOfLonger ==
    ASSUME NEW str \in Seq(Letters), NEW c \in Letters, NEW row \in Nat, NEW col \in Columns
    PROVE  Shown(Append(str, c), row, col) =
             IF c # Newline /\ Layout(str)[Len(str) + 1] = [row |-> row, col |-> col]
             THEN c ELSE Shown(str, row, col)
<1> DEFINE new == Append(str, c)
           end == Len(str) + 1
           here == c # Newline /\ Layout(str)[end] = [row |-> row, col |-> col]
<1>0. /\ DOMAIN new = 1..end /\ DOMAIN str = 1..Len(str) /\ end \in Nat /\ end \notin DOMAIN str
      /\ \A i \in 1..Len(str) : new[i] = str[i]
      /\ new[end] = c /\ DOMAIN new = DOMAIN str \cup {end}
  OBVIOUS
<1>1. \A i \in 1..end : Layout(new)[i] = Layout(str)[i]
  BY PlacesOfLonger
<1> HIDE DEF new
<1>2. At(new, row, col) = At(str, row, col) \cup (IF here THEN {end} ELSE {})
  BY <1>0, <1>1 DEF At
<1>3. CASE here
  <2>1. At(str, row, col) = {}
    <3> SUFFICES ASSUME NEW i \in At(str, row, col) PROVE FALSE
      OBVIOUS
    <3>1. i \in 1..Len(str) /\ Layout(str)[i] = Layout(str)[end]
      BY <1>0, <1>3 DEF At
    <3>2. Ahead(Layout(str)[i], Layout(str)[end])
      BY <3>1, EarlierIsAhead
    <3>3. Layout(str)[end].row \in Nat /\ Layout(str)[end].col \in Nat
      BY <1>3 DEF Columns
    <3> QED
      BY <3>1, <3>2, <3>3 DEF Ahead
  <2>2. At(new, row, col) = {end}
    BY <1>2, <1>3, <2>1
  <2>3. (CHOOSE i \in At(new, row, col) : TRUE) = end
    BY <2>2
  <2>4. Shown(new, row, col) = c
    BY <1>0, <2>2, <2>3 DEF Shown
  <2> QED
    BY <1>3, <2>4 DEF new
<1>4. CASE ~ here
  <2>1. At(new, row, col) = At(str, row, col)
    BY <1>2, <1>4
  <2>2. ASSUME At(str, row, col) # {}
        PROVE  new[CHOOSE i \in At(str, row, col) : TRUE] = str[CHOOSE i \in At(str, row, col) : TRUE]
    <3>1. (CHOOSE i \in At(str, row, col) : TRUE) \in At(str, row, col)
      BY <2>2
    <3>2. (CHOOSE i \in At(str, row, col) : TRUE) \in 1..Len(str)
      BY <1>0, <3>1 DEF At
    <3> QED
      BY <1>0, <3>2
  <2>3. Shown(new, row, col) = Shown(str, row, col)
    BY <2>1, <2>2 DEF Shown
  <2> QED
    BY <1>4, <2>3 DEF new
<1> QED
  BY <1>3, <1>4

\* Below the last place of a text nothing is shown.
LEMMA BlankBehindEnd ==
    ASSUME NEW str \in Seq(Letters), NEW row \in Nat, NEW col \in Columns,
           row > Layout(str)[Len(str) + 1].row
    PROVE  Shown(str, row, col) = Blank
<1>1. Layout(str) \in [1..(Len(str) + 1) -> Spots]
  BY LayoutByStep
<1>2. ASSUME NEW i \in At(str, row, col) PROVE FALSE
  <2>1. i \in 1..Len(str) /\ Layout(str)[i].row = row
    BY DEF At
  <2>2. Ahead(Layout(str)[i], Layout(str)[Len(str) + 1])
    BY <2>1, EarlierIsAhead
  <2>3. Layout(str)[Len(str) + 1].row \in Nat
    BY <1>1 DEF Spots
  <2> QED
    BY <2>1, <2>2, <2>3 DEF Ahead
<1> QED
  BY <1>2 DEF Shown

\* A character more on a text screen that shows the tail of a text: it shows
\* the tail of the text with that character.
LEMMA TailGrows ==
    ASSUME NEW t \in Screens, NEW str \in Seq(Letters), NEW c \in Letters, ShowsTail(t, str)
    PROVE  ShowsTail(terminal_writechar(t, c), Append(str, c))
<1> DEFINE new == Append(str, c)
           end == Layout(str)[Len(str) + 1]
           put == IF c = Newline THEN t.screen ELSE [t.screen EXCEPT ![t.row][t.col] = c]
           newRow == c = Newline \/ t.col + 1 >= VGA_WIDTH
           row == IF newRow THEN t.row + 1 ELSE t.row
           u == terminal_writechar(t, c)
<1>0. /\ VGA_WIDTH \in Nat \ {0} /\ VGA_HEIGHT \in Nat \ {0}
      /\ t.screen \in [Rows -> [Columns -> Letters]] /\ t.row \in Rows /\ t.col \in Columns
      /\ new \in Seq(Letters) /\ Len(new) = Len(str) + 1 /\ Len(str) \in Nat
  BY ConsoleAssumption DEF Screens
<1>1. /\ t.row = end.row - Top(str) /\ t.col = end.col
      /\ \A y \in Rows, x \in Columns : t.screen[y][x] = Shown(str, Top(str) + y, x)
  BY TailByCell
<1>2. end \in Spots /\ end.row \in Nat /\ end.col \in Columns /\ end = [row |-> end.row, col |-> end.col]
  <2>1. Layout(str) \in [1..(Len(str) + 1) -> Spots] /\ Len(str) + 1 \in 1..(Len(str) + 1)
    BY <1>0, LayoutByStep
  <2>2. end \in Spots
    BY <2>1
  <2> HIDE DEF end
  <2> QED
    BY <2>2 DEF Spots
<1>3. Top(str) = IF end.row < VGA_HEIGHT THEN 0 ELSE end.row - VGA_HEIGHT + 1
  BY DEF Top
<1>4. Layout(new)[Len(new) + 1] = Follows(end, c)
  <2>1. Len(new) + 1 = Len(str) + 2
    BY <1>0
  <2> QED
    BY <2>1, PlacesOfLonger
<1>5. ASSUME NEW r \in Nat, NEW x \in Columns
      PROVE  Shown(new, r, x) =
               IF c # Newline /\ end = [row |-> r, col |-> x] THEN c ELSE Shown(str, r, x)
  BY ShownOfLonger
<1>6. u = [screen |-> IF row >= VGA_HEIGHT THEN terminal_scroll(put) ELSE put,
           row |-> IF row >= VGA_HEIGHT THEN VGA_HEIGHT - 1 ELSE row,
           col |-> IF newRow THEN 0 ELSE t.col + 1]
  BY DEF terminal_writechar
<1>7. newRow <=> c = Newline \/ end.col = VGA_WIDTH - 1
  BY <1>0, <1>1 DEF Columns
<1>8. Follows(end, c) = IF newRow THEN [row |-> end.row + 1, col |-> 0]
                        ELSE [row |-> end.row, col |-> end.col + 1]
  BY <1>2, <1>7 DEF Follows
<1> HIDE DEF new, end, newRow, u
<1>9. Top(str) \in Nat
  BY <1>0, <1>2, <1>3
<1>10. Top(new) = IF row >= VGA_HEIGHT THEN Top(str) + 1 ELSE Top(str)
  <2>1. Top(new) = IF Follows(end, c).row < VGA_HEIGHT THEN 0
                   ELSE Follows(end, c).row - VGA_HEIGHT + 1
    BY <1>4 DEF Top
  <2>2. Follows(end, c).row = IF newRow THEN end.row + 1 ELSE end.row
    BY <1>8
  <2>3. /\ VGA_HEIGHT \in Nat \ {0} /\ end.row \in Nat
        /\ row = (IF newRow THEN t.row + 1 ELSE t.row) /\ t.row = end.row - Top(str)
    BY <1>0, <1>1, <1>2, <1>3 DEF Rows
  <2> QED
    BY <1>3, <2>1, <2>2, <2>3
<1>11. u.row = Follows(end, c).row - Top(new) /\ u.col = Follows(end, c).col
  <2>1. /\ Follows(end, c).row = IF newRow THEN end.row + 1 ELSE end.row
        /\ Follows(end, c).col = IF newRow THEN 0 ELSE end.col + 1
    BY <1>8
  <2>2. /\ u.row = IF row >= VGA_HEIGHT THEN VGA_HEIGHT - 1 ELSE row
        /\ u.col = IF newRow THEN 0 ELSE t.col + 1
    BY <1>6
  <2>3. /\ VGA_HEIGHT \in Nat \ {0} /\ end.row \in Nat /\ Top(str) \in Nat
        /\ row = (IF newRow THEN t.row + 1 ELSE t.row) /\ t.row = end.row - Top(str)
        /\ t.row < VGA_HEIGHT /\ t.col = end.col
    BY <1>0, <1>1, <1>2, <1>9 DEF Rows
  <2> HIDE DEF row
  <2>4. u.row = Follows(end, c).row - Top(new)
    BY <1>10, <2>1, <2>2, <2>3
  <2> QED
    BY <2>1, <2>2, <2>3, <2>4
<1>12. ASSUME NEW y \in Rows, NEW x \in Columns
       PROVE  put[y][x] = Shown(new, Top(str) + y, x)
  <2>1. Top(str) + y \in Nat /\ (Top(str) + y = end.row <=> y = t.row)
    <3>1. y \in Nat /\ t.row \in Nat /\ t.row = end.row - Top(str)
      BY <1>0, <1>1 DEF Rows
    <3> QED
      BY <1>2, <1>9, <3>1
  <2>2. Shown(new, Top(str) + y, x) =
          IF c # Newline /\ y = t.row /\ x = t.col THEN c ELSE t.screen[y][x]
    BY <1>1, <1>2, <1>5, <2>1
  <2>3. put[y][x] = IF c # Newline /\ y = t.row /\ x = t.col THEN c ELSE t.screen[y][x]
    BY <1>0
  <2> QED
    BY <2>2, <2>3
<1>13. ASSUME NEW y \in Rows, NEW x \in Columns
       PROVE  u.screen[y][x] = Shown(new, Top(new) + y, x)
  <2>1. CASE ~ row >= VGA_HEIGHT
    <3>1. u.screen = put
      BY <1>6, <2>1
    <3> QED
      BY <1>10, <1>12, <2>1, <3>1
  <2>2. CASE row >= VGA_HEIGHT /\ y # VGA_HEIGHT - 1
    <3>1. u.screen = terminal_scroll(put)
      BY <1>6, <2>2
    <3>2. u.screen[y] = put[y + 1]
      BY <2>2, <3>1 DEF terminal_scroll
    <3>3. y + 1 \in Rows /\ Top(str) + (y + 1) = Top(new) + y
      <4>1. y \in Nat /\ y + 1 \in Rows
        BY <1>0, <2>2 DEF Rows
      <4>2. Top(new) = Top(str) + 1
        BY <1>10, <2>2
      <4> QED
        BY <1>9, <4>1, <4>2
    <3> QED
      BY <1>12, <3>2, <3>3
  <2>3. CASE row >= VGA_HEIGHT /\ y = VGA_HEIGHT - 1
    <3>1. u.screen = terminal_scroll(put)
      BY <1>6, <2>3
    <3>2. u.screen[y] = [z \in Columns |-> Blank]
      BY <2>3, <3>1 DEF terminal_scroll
    <3>3. newRow /\ t.row = VGA_HEIGHT - 1
      BY <1>0, <2>3 DEF Rows
    <3>4. Top(new) + y \in Nat /\ Top(new) + y = end.row + 1
      <4>1. Top(new) = Top(str) + 1
        BY <1>10, <2>3
      <4>2. end.row - Top(str) = VGA_HEIGHT - 1
        BY <1>1, <3>3
      <4> QED
        BY <1>0, <1>2, <1>9, <2>3, <4>1, <4>2
    <3>5. Layout(new)[Len(new) + 1].row = end.row + 1
      BY <1>4, <1>8, <3>3
    <3>6. Shown(str, Top(new) + y, x) = Blank
      BY <1>2, <3>4, BlankBehindEnd DEF end
    <3>7. Shown(new, Top(new) + y, x) = Shown(str, Top(new) + y, x)
      BY <1>2, <1>5, <3>4
    <3> QED
      BY <3>2, <3>6, <3>7
  <2> QED
    BY <2>1, <2>2, <2>3
<1>14. ShowsTail(u, new)
  BY <1>4, <1>11, <1>13, TailByCell
<1> QED
  BY <1>14 DEF u, new

\* So does a whole string.
LEMMA TailGrowsByString ==
    ASSUME NEW t \in Screens, NEW old \in Seq(Letters), NEW str \in Seq(Letters),
           ShowsTail(t, old)
    PROVE  Written(str, t) \in Screens /\ ShowsTail(Written(str, t), old \o str)
<1> DEFINE size == Len(str)
           Text(n) == old \o SubSeq(str, 1, n)
<1>0. size \in Nat /\ \A n \in 1..size : str[n] \in Letters
  OBVIOUS
<1>1. PICK after \in [0..size -> Screens] :
         /\ after[0] = t
         /\ \A n \in 1..size : after[n] = terminal_writechar(after[n - 1], str[n])
         /\ Written(str, t) = after[size]
  BY WrittenByStep
<1> DEFINE S == {n \in 0..size : ShowsTail(after[n], Text(n))}
<1>2. 0 \in S
  <2>1. Text(0) = old
    OBVIOUS
  <2> HIDE DEF Text
  <2> QED
    BY <1>0, <1>1, <2>1
<1>3. ASSUME NEW n \in 0..(size - 1), n \in S PROVE n + 1 \in S
  <2>1. n + 1 \in 1..size /\ (n + 1) - 1 = n /\ n \in 0..size /\ n + 1 \in 0..size
    BY <1>0
  <2>2. Text(n) \in Seq(Letters)
    BY <1>0, <2>1
  <2>3. Text(n + 1) = Append(Text(n), str[n + 1])
    <3>1. SubSeq(str, 1, n + 1) = Append(SubSeq(str, 1, n), str[n + 1])
      BY <1>0, <2>1
    <3> QED
      BY <3>1, <2>1, <1>0
  <2>4. after[n] \in Screens /\ str[n + 1] \in Letters
    BY <1>0, <1>1, <2>1
  <2> HIDE DEF Text
  <2>5. after[n + 1] = terminal_writechar(after[n], str[n + 1])
    BY <1>1, <2>1
  <2>6. ShowsTail(after[n], Text(n))
    BY <1>3
  <2>7. ShowsTail(after[n + 1], Text(n + 1))
    BY <2>2, <2>3, <2>4, <2>5, <2>6, TailGrows
  <2> QED
    BY <2>1, <2>7
<1>4. 0..size \subseteq S
  <2>1. 0 \in Int /\ size \in Int
    BY <1>0
  <2> HIDE DEF S, size
  <2> QED
    BY <2>1, <1>2, <1>3, AllAlong
<1>5. Text(size) = old \o str
  OBVIOUS
<1>6. ShowsTail(after[size], Text(size)) /\ after[size] \in Screens
  <2> HIDE DEF Text
  <2> QED
    BY <1>0, <1>1, <1>4
<1> HIDE DEF Text
<1> QED
  BY <1>1, <1>5, <1>6

-----------------------------------------------------------------------------
(* The invariant *)

\* Statements of the shell, and lines.
Statements == [does : {"print"}, str : Seq(Letters)]
              \cup [does : {"fill"}, column : Nat]
              \cup [does : {"memset", "x", "y", "exec"}]

Lines == /\ input_buffer \in Seq(Keys \cup {Backspace}) /\ Len(input_buffer) < BufSize
         /\ ex_buffer \in Seq(Keys \cup {Backspace}) /\ Len(ex_buffer) < BufSize
         /\ exec \in {0, 1}
         /\ todo \in Seq(Statements)

\* The text screen is one, and shows the tail of what was displayed.
TextScreen == [screen |-> terminal, row |-> terminal_row, col |-> terminal_col]

Displayed == /\ TextScreen \in Screens
             /\ printed \in Seq(Letters)
             /\ ShowsTail(TextScreen, printed)

\* The resolution is the one that was read and the buffer has as many pixels;
\* the cursor is on the screen, and drawing stays in the buffer until it sinks.
Drawn == /\ Sized
         /\ setup \in Setups
         /\ w = fetchwh(setup.text).width /\ h = fetchwh(setup.text).height
         /\ OnScreen(cursor)
         /\ DOMAIN buffer = 0..(w * h - 1)
         /\ sunk \in BOOLEAN
         /\ w >= CellW /\ ~ sunk => outside = {}

IInv == Lines /\ Displayed /\ Drawn

\* A part of a cell that is not below the last line is a pixel of the buffer.
LEMMA CellIsInside ==
    ASSUME Sized, NEW p, OnScreen(p), w >= CellW, ~ p.y + CellH > h, NEW part \in Parts
    PROVE  PixelAt(p, part) \in 0..(w * h - 1)
<1> DEFINE y == p.y + part[1]
           x == p.x + part[2]
<1>1. {CellW, CellH, Word} \subseteq Nat \ {0} /\ p.x \in Nat /\ p.y \in Nat
  BY Sizes DEF OnScreen
<1>2. part[1] \in 0..(CellH - 1) /\ part[2] \in 0..(CellW - 1)
  BY DEF Parts
<1>3. y \in Nat /\ x \in Nat /\ y <= h - 1 /\ x <= w - 1 /\ w \in Nat /\ h \in Nat
  BY <1>1, <1>2 DEF Sized, OnScreen
<1>4. PixelAt(p, part) = (y * w + p.x + part[2]) % Word
  BY DEF PixelAt
<1>5. y * w + p.x + part[2] = y * w + x
  BY <1>1, <1>2, <1>3
<1> HIDE DEF x, y
<1>6. y * w \in Nat /\ y * w <= (h - 1) * w /\ (h - 1) * w = w * h - w
  BY <1>3, SMTT(30)
<1> DEFINE n == y * w + x
<1>7. n \in Nat /\ n <= w * h - 1
  <2>1. w * h \in Int
    BY <1>3, SMTT(30)
  <2> QED
    BY <1>3, <1>6, <2>1
<1>8. PixelAt(p, part) = n % Word
  BY <1>4, <1>5
<1> HIDE DEF n
<1>9. n % Word \in Nat /\ n % Word <= n
  BY <1>1, <1>7, SMTT(30)
<1>10. w * h \in Int
  BY <1>3, SMTT(30)
<1> QED
  BY <1>7, <1>8, <1>9, <1>10

\* A key is echoed on the screen.
LEMMA EchoStaysInside ==
    ASSUME Drawn, NEW c, PrintChar(c), UNCHANGED <<w, h, setup>>
    PROVE  Drawn'
<1>0. Sized /\ OnScreen(cursor) /\ sunk \in BOOLEAN /\ DOMAIN buffer = 0..(w * h - 1)
  BY DEF Drawn
<1> DEFINE p == IF c = Backspace THEN BackOne(cursor) ELSE cursor
<1>1. OnScreen(p)
  BY <1>0, BackStaysOnScreen
<1>2. OnScreen(cursor')
  <2>1. 0 \in 0..(Word - 1) /\ 0 + CellW = CellW
    BY Sizes
  <2>2. OnScreen(Advance(cursor, c, 0))
    BY <1>0, <2>1, AdvanceStaysOnScreen
  <2> QED
    BY <1>1, <2>2 DEF PrintChar
<1>3. sunk' = (sunk \/ p.y + CellH > h)
  BY DEF PrintChar, Below
<1>4. DOMAIN buffer' = DOMAIN buffer
  BY DEF PrintChar, Draw
<1>5. ASSUME w >= CellW, ~ sunk' PROVE outside' = {}
  <2>1. outside = {}
    BY <1>3, <1>5 DEF Drawn
  <2>2. \A part \in Parts : PixelAt(p, part) \in DOMAIN buffer
    BY <1>0, <1>1, <1>3, <1>5, CellIsInside
  <2>3. CASE c = Backspace
    BY <2>1, <2>2, <2>3 DEF PrintChar
  <2>4. CASE c # Backspace
    <3>1. \A d \in RenderChar(cursor, c) : d.pixel \in DOMAIN buffer
      BY <2>2, <2>4 DEF RenderChar
    <3> QED
      BY <2>1, <2>4, <3>1 DEF PrintChar, Draw
  <2> QED
    BY <2>3, <2>4
<1>6. OnScreen(cursor)' /\ Sized'
  BY <1>0, <1>2 DEF OnScreen, Sized
<1> HIDE DEF p
<1> QED
  BY <1>0, <1>3, <1>4, <1>5, <1>6 DEF Drawn

\* Print draws inside, wherever its rows are broken.
LEMMA PrintStaysInside ==
    ASSUME Drawn, NEW str \in Seq(Letters), PrintOut(str), UNCHANGED <<w, h, setup>>
    PROVE  Drawn'
<1> DEFINE places == Places(str, cursor, cursor.x)
           visible == {places[i] : i \in {j \in DOMAIN str : str[j] # Newline}}
<1>0. /\ Sized /\ OnScreen(cursor) /\ sunk \in BOOLEAN /\ DOMAIN buffer = 0..(w * h - 1)
      /\ Len(str) \in Nat /\ DOMAIN str = 1..Len(str)
  BY DEF Drawn
<1>1. \A i \in 1..(Len(str) + 1) : OnScreen(places[i])
  BY <1>0, PlacesAreOnScreen DEF OnScreen
<1>2. OnScreen(cursor')
  <2>1. 0 \in 0..(Word - 1) /\ 0 + CellW = CellW /\ Len(str) + 1 \in 1..(Len(str) + 1)
    BY <1>0, Sizes
  <2>2. \A i \in 1..(Len(str) + 1) : OnScreen(Places(str, cursor, 0)[i])
    BY <1>0, <2>1, PlacesAreOnScreen
  <2>3. OnScreen(Places(str, cursor, 0)[Len(str) + 1])
    BY <2>1, <2>2
  <2>4. PrintCursor(str, cursor) = Places(str, cursor, 0)[Len(str) + 1]
    <3>1. DOMAIN Places(str, cursor, 0) = 1..(Len(str) + 1)
      BY <1>0, <2>1, PlacesAreOnScreen
    <3>2. Len(Places(str, cursor, 0)) = Len(str) + 1
      BY <1>0, <3>1
    <3> QED
      BY <3>2 DEF PrintCursor, Last
  <2> QED
    BY <2>3, <2>4 DEF PrintOut
<1>3. sunk' = (sunk \/ Below(visible))
  BY DEF PrintOut
<1>4. DOMAIN buffer' = DOMAIN buffer
  BY DEF PrintOut, Draw
<1>5. ASSUME w >= CellW, ~ sunk' PROVE outside' = {}
  <2>1. outside = {}
    BY <1>3, <1>5 DEF Drawn
  <2>2. \A d \in RenderString(str, cursor) : d.pixel \in DOMAIN buffer
    <3> SUFFICES ASSUME NEW i \in DOMAIN str, str[i] # Newline,
                        NEW d \in RenderChar(places[i], str[i])
                 PROVE  d.pixel \in DOMAIN buffer
      BY DEF RenderString, DrawnString
    <3>1. OnScreen(places[i]) /\ places[i] \in visible
      BY <1>0, <1>1
    <3>2. ~ places[i].y + CellH > h
      BY <1>3, <1>5, <3>1 DEF Below
    <3>3. PICK part \in Parts : d = [pixel |-> PixelAt(places[i], part), mark |-> <<str[i], part>>]
      BY DEF RenderChar
    <3>4. PixelAt(places[i], part) \in DOMAIN buffer
      BY <1>0, <1>5, <3>1, <3>2, CellIsInside
    <3> QED
      BY <3>3, <3>4
  <2> QED
    BY <2>1, <2>2 DEF PrintOut, Draw
<1>6. OnScreen(cursor)' /\ Sized'
  BY <1>0, <1>2 DEF OnScreen, Sized
<1> HIDE DEF visible, places
<1> QED
  BY <1>0, <1>3, <1>4, <1>5, <1>6 DEF Drawn

\* Clearing the screen is made of statements, one for each column.
LEMMA ClearedIsStatements == ASSUME Sized PROVE Cleared \in Seq(Statements)
<1>1. [i \in 1..w |-> Fill(i - 1)] \in [1..w -> Statements] /\ w \in Nat
  BY DEF Fill, Statements, Sized
<1>2. [i \in 1..w |-> Fill(i - 1)] \in Seq(Statements)
  BY <1>1, SeqDef
<1>3. <<Does("memset")>> \in Seq(Statements)
  BY DEF Does, Statements
<1> QED
  BY <1>2, <1>3 DEF Cleared

\* The strings of the kernel and the shell are of the letters.
LEMMA StringsAreText ==
    /\ \A str \in {Banner, Prompt, HelpMsg, Quote, NotRecognized} \cup {BootText} \cup Outputs :
          str \in Seq(Letters)
    /\ <<Newline>> \in Seq(Letters) /\ <<>> \in Seq(Letters)
    /\ \A line \in Seq(Keys \cup {Backspace}) : line \in Seq(Letters)
<1>1. ASSUME NEW str \in {Banner, Prompt, HelpMsg, Quote, NotRecognized}
                        \cup {BootText} \cup Outputs
      PROVE  str \in Seq(Letters)
  <2>1. str \in Seq(Range(str))
    BY ConsoleAssumption
  <2>2. Range(str) \subseteq Letters
    BY DEF Letters
  <2> HIDE DEF Letters
  <2> QED
    BY <2>1, <2>2
<1>2. Keys \cup {Backspace} \subseteq Letters /\ Newline \in Letters
  BY DEF Letters
<1> QED
  BY <1>1, <1>2

\* Showing text is a statement.
LEMMA ShowIsStatement ==
    ASSUME NEW str \in Seq(Letters) PROVE Show(str) \in Statements
BY DEF Show, Statements

\* What the shell does about a line is statements.
LEMMA NsExecIsStatements ==
    ASSUME Sized, NEW line \in Seq(Keys \cup {Backspace}), NEW output \in Outputs \cup {<<>>}
    PROVE  NsExec(line, output) \in Seq(Statements)
<1>1. /\ {Show(HelpMsg), Show(<<Newline>>), Show(output), Show(Quote), Show(line),
          Show(NotRecognized), Show(Prompt)} \subseteq Statements
      /\ {Does("x"), Does("y"), Does("exec")} \subseteq Statements
  <2>1. {Does("x"), Does("y"), Does("exec")} \subseteq Statements
    BY DEF Does, Statements
  <2> QED
    BY <2>1, StringsAreText, ShowIsStatement
<1>2. Cleared \in Seq(Statements)
  BY ClearedIsStatements
<1> DEFINE first ==
             CASE line = Cls -> Cleared \o <<Does("x"), Does("y")>>
               [] line = Help -> <<Show(HelpMsg)>>
               [] line = <<>> -> <<Show(<<Newline>>)>>
               [] line \in Programs -> <<Show(<<Newline>>), Show(output)>>
               [] OTHER -> <<Show(<<Newline>>), Show(Quote), Show(line), Show(NotRecognized)>>
<1> HIDE DEF Statements, Cleared, Show, Does
<1>3. first \in Seq(Statements)
  <2>1. /\ Cleared \o <<Does("x"), Does("y")>> \in Seq(Statements)
        /\ <<Show(HelpMsg)>> \in Seq(Statements)
        /\ <<Show(<<Newline>>)>> \in Seq(Statements)
        /\ <<Show(<<Newline>>), Show(output)>> \in Seq(Statements)
        /\ <<Show(<<Newline>>), Show(Quote), Show(line), Show(NotRecognized)>> \in Seq(Statements)
    BY <1>1, <1>2
  <2> QED
    BY <2>1
<1>4. <<Does("exec"), Show(Prompt)>> \in Seq(Statements)
  BY <1>1
<1>5. NsExec(line, output) = first \o <<Does("exec"), Show(Prompt)>>
  BY DEF NsExec
<1> HIDE DEF first
<1> QED
  BY <1>3, <1>4, <1>5

-----------------------------------------------------------------------------
(* The steps *)

\* The kernel has just cleared the screen and started the shell.
LEMMA InitHolds == Init => IInv
<1> SUFFICES ASSUME Init PROVE IInv
  OBVIOUS
<1>1. {CellW, CellH, Word, BufSize, VGA_WIDTH, VGA_HEIGHT} \subseteq Nat \ {0}
  BY ConsoleAssumption
<1>2. Sized
  <2>1. setup.text \in Seq(Range(setup.text)) /\ fetchwh(setup.text).width + CellW < Word
    BY SetupsAssumption DEF Init
  <2>2. Len(setup.text) \in Nat /\ DOMAIN setup.text = 1..Len(setup.text)
    BY <2>1
  <2>3. fetchwh(setup.text).width \in Nat /\ fetchwh(setup.text).height \in Nat
    BY <2>2, FetchedAreNaturals
  <2> QED
    BY <2>1, <2>3 DEF Init, Sized
<1>3. OnScreen(cursor)
  <2>1. 0 \in Int /\ 0 \in 0..(Word - 1)
    BY <1>1
  <2>2. /\ Place(0, 0) \in [x : 0..(Word - 1), y : 0..(Word - 1)]
        /\ Place(0, 0).x = 0
    BY <2>1, PlaceTyped
  <2> QED
    BY <1>1, <2>2 DEF OnScreen, Init
<1>4. Drawn
  BY <1>2, <1>3 DEF Drawn, Init
<1>5. Opening \in Seq(Statements)
  <2>1. Cleared \in Seq(Statements)
    BY <1>2, ClearedIsStatements
  <2>2. Show(Banner) \in Statements /\ Show(Prompt) \in Statements
    BY StringsAreText, ShowIsStatement
  <2> HIDE DEF Statements, Cleared, Show
  <2> QED
    BY <2>1, <2>2 DEF Opening
<1>6. Lines
  BY <1>1, <1>5 DEF Lines, Init
<1>7. Displayed
  <2> DEFINE blank == terminal_initialize
  <2>1. Blank \in Letters /\ <<>> \in Seq(Letters) /\ BootText \in Seq(Letters)
    BY StringsAreText DEF Letters
  <2>2. blank \in Screens /\ blank.row = 0 /\ blank.col = 0
    BY <1>1, <2>1 DEF terminal_initialize, Screens, Rows, Columns
  <2>3. Layout(<<>>)[1] = [row |-> 0, col |-> 0]
    BY <2>1, LayoutByStep
  <2>4. Top(<<>>) = 0
    BY <1>1, <2>3 DEF Top
  <2>5. \A y \in Rows, x \in Columns : Shown(<<>>, y, x) = Blank
    BY DEF Shown, At
  <2>6. \A y \in Rows, x \in Columns : blank.screen[y][x] = Shown(<<>>, Top(<<>>) + y, x)
    BY <1>1, <2>4, <2>5 DEF terminal_initialize, Rows
  <2>7. ShowsTail(blank, <<>>)
    BY <2>2, <2>3, <2>4, <2>6, TailByCell
  <2> HIDE DEF blank
  <2>8. Written(BootText, blank) \in Screens /\ ShowsTail(Written(BootText, blank), <<>> \o BootText)
    BY <2>1, <2>2, <2>7, TailGrowsByString
  <2>9. TextScreen = Written(BootText, blank)
    BY <2>8 DEF TextScreen, Screens, Init, blank
  <2>10. <<>> \o BootText = BootText
    BY <2>1
  <2> QED
    BY <2>1, <2>8, <2>9, <2>10 DEF Displayed, Init
<1> QED
  BY <1>4, <1>6, <1>7 DEF IInv

\* A key changes the line and echoes itself, or hands the line over.
LEMMA KeyKeeps ==
    ASSUME IInv, NEW key \in Keys \cup {Backspace, Enter}, int21h_handler(key)
    PROVE  IInv'
<1>0. /\ UNCHANGED <<w, h, setup, text, todo>>
      /\ BufSize \in Nat \ {0}
  BY ConsoleAssumption DEF int21h_handler
<1>1. Displayed'
  BY <1>0 DEF IInv, Displayed, TextScreen, text
<1>2. Drawn'
  <2>1. (\E c : PrintChar(c)) \/ UNCHANGED graphics
    BY DEF int21h_handler
  <2>2. CASE \E c : PrintChar(c)
    BY <1>0, <2>2, EchoStaysInside DEF IInv
  <2>3. CASE UNCHANGED graphics
    BY <1>0, <2>3 DEF IInv, Drawn, Sized, OnScreen, graphics
  <2> QED
    BY <2>1, <2>2, <2>3
<1>3. Lines'
  <2>1. CASE key = Backspace /\ input_buffer # <<>> /\ input_buffer' = Front(input_buffer)
             /\ UNCHANGED <<ex_buffer, exec>>
    <3>1. Front(input_buffer) \in Seq(Keys \cup {Backspace}) /\ Len(Front(input_buffer)) < BufSize
      BY <1>0, <2>1 DEF IInv, Lines, Front
    <3> QED
      BY <1>0, <2>1, <3>1 DEF IInv, Lines
  <2>2. CASE ex_buffer' = input_buffer /\ exec' = 1 /\ input_buffer' = <<>>
    BY <1>0, <2>2 DEF IInv, Lines
  <2>3. CASE key # Enter /\ HasRoom /\ input_buffer' = Append(input_buffer, key)
             /\ UNCHANGED <<ex_buffer, exec>>
    BY <1>0, <2>3 DEF IInv, Lines, HasRoom
  <2> QED
    BY <2>1, <2>2, <2>3 DEF int21h_handler
<1> QED
  BY <1>1, <1>2, <1>3 DEF IInv

\* The shell displays a string: the system call draws it and writes it.
LEMMA DisplayKeeps == ASSUME IInv, NtDisplayStringSyscall PROVE IInv'
<1> DEFINE str == Head(todo).str
<1>0. UNCHANGED <<w, h, setup, keyboard, ex_buffer, exec>> /\ PrintOut(str) /\ print(str)
      /\ todo # <<>> /\ Head(todo).does = "print" /\ todo' = Tail(todo)
  BY DEF NtDisplayStringSyscall, Next_is
<1>1. str \in Seq(Letters)
  <2>1. Head(todo) \in Statements
    BY <1>0 DEF IInv, Lines
  <2> QED
    BY <1>0, <2>1 DEF Statements
<1> HIDE DEF str
<1>2. Drawn'
  BY <1>0, <1>1, PrintStaysInside DEF IInv
<1>3. Lines'
  BY <1>0 DEF IInv, Lines, keyboard
<1>4. Displayed'
  <2>1. Written(str, TextScreen) \in Screens /\ ShowsTail(Written(str, TextScreen), printed \o str)
    BY <1>1, TailGrowsByString DEF IInv, Displayed
  <2>2. TextScreen' = Written(str, TextScreen) /\ printed' = printed \o str
    <3>1. Written(str, TextScreen) = [screen |-> Written(str, TextScreen).screen,
                                      row |-> Written(str, TextScreen).row,
                                      col |-> Written(str, TextScreen).col]
      BY <2>1 DEF Screens
    <3> QED
      BY <1>0, <3>1 DEF print, TextScreen
  <2>3. printed' \in Seq(Letters)
    BY <1>1, <2>2 DEF IInv, Displayed
  <2> QED
    BY <2>1, <2>2, <2>3 DEF Displayed
<1> QED
  BY <1>2, <1>3, <1>4 DEF IInv

\* The shell's other statements, and its poll.
LEMMA StatementKeeps ==
    ASSUME IInv,
           KiUserInit_poll \/ ClearBuffer \/ FillRectangle \/ ResetX \/ ResetY \/ ResetExec
    PROVE  IInv'
<1>0. UNCHANGED <<w, h, setup, text, input_buffer, ex_buffer, outside, sunk>>
  BY DEF KiUserInit_poll, ClearBuffer, FillRectangle, ResetX, ResetY, ResetExec, keyboard, graphics
<1>1. Displayed'
  BY <1>0 DEF IInv, Displayed, TextScreen, text
<1>2. todo' \in Seq(Statements) /\ exec' \in {0, 1}
  <2>1. CASE KiUserInit_poll
    <3>1. \E output \in Outputs \cup {<<>>} : todo' = NsExec(ex_buffer, output)
      BY <2>1 DEF KiUserInit_poll
    <3>2. todo' \in Seq(Statements)
      BY <3>1, NsExecIsStatements DEF IInv, Lines, Drawn
    <3> QED
      BY <2>1, <3>2 DEF KiUserInit_poll, IInv, Lines
  <2>2. CASE ClearBuffer \/ FillRectangle \/ ResetX \/ ResetY \/ ResetExec
    <3>1. todo # <<>> /\ todo' = Tail(todo) /\ (exec' = exec \/ exec' = 0)
      BY <2>2 DEF ClearBuffer, FillRectangle, ResetX, ResetY, ResetExec, Next_is
    <3> QED
      BY <3>1 DEF IInv, Lines
  <2> QED
    BY <2>1, <2>2
<1>3. DOMAIN buffer' = DOMAIN buffer
  BY DEF KiUserInit_poll, ClearBuffer, FillRectangle, ResetX, ResetY, ResetExec, graphics
<1>4. OnScreen(cursor')
  <2>1. OnScreen(cursor) /\ Word \in Nat \ {0}
    BY Sizes DEF IInv, Drawn
  <2>2. CASE cursor' = cursor
    BY <2>1, <2>2
  <2>3. CASE cursor' = [cursor EXCEPT !.x = 0]
    <3>1. 0 \in 0..(Word - 1) /\ (w >= CellW => 0 + CellW <= w)
      BY Sizes DEF IInv, Drawn, Sized
    <3>2. cursor' \in [x : 0..(Word - 1), y : 0..(Word - 1)] /\ cursor'.x = 0
      BY <2>1, <2>3, <3>1 DEF OnScreen
    <3> QED
      BY <3>1, <3>2 DEF OnScreen
  <2>4. CASE cursor' = [cursor EXCEPT !.y = 0]
    BY <2>1, <2>4 DEF OnScreen
  <2> QED
    BY <2>2, <2>3, <2>4
       DEF KiUserInit_poll, ClearBuffer, FillRectangle, ResetX, ResetY, ResetExec, graphics
<1>5. Drawn'
  <2>1. OnScreen(cursor)' /\ Sized'
    BY <1>0, <1>4 DEF IInv, Drawn, OnScreen, Sized
  <2> QED
    BY <1>0, <1>3, <2>1 DEF IInv, Drawn
<1>6. Lines'
  BY <1>0, <1>2 DEF IInv, Lines
<1> QED
  BY <1>1, <1>5, <1>6 DEF IInv

\* Every step keeps the invariant.
LEMMA NextKeeps == ASSUME IInv, [Next]_vars PROVE IInv'
<1>1. CASE UNCHANGED vars
  BY <1>1 DEF vars, graphics, text, keyboard, IInv, Lines, Displayed, TextScreen, Drawn,
              Sized, OnScreen
<1> QED
  BY <1>1, KeyKeeps, DisplayKeeps, StatementKeeps DEF Next

\* The invariant holds in every state.
THEOREM ConsoleInvariant == Spec => []IInv
<1>1. IInv /\ [Next]_vars => IInv'
  BY NextKeeps
<1> QED
  BY InitHolds, <1>1, PTL DEF Spec

\* For every size of screen, characters and buffers, whatever is typed: the
\* cursor is on the screen, no line outgrows its buffer, and the text screen's
\* row and column are of it.
THEOREM ConsoleTypeCorrect == Spec => []TypeOK
<1>1. IInv => TypeOK
  BY DEF IInv, Lines, Displayed, TextScreen, Screens, Drawn, Sized, OnScreen, TypeOK
<1> QED
  BY <1>1, ConsoleInvariant, PTL

\* The text screen shows the end of whatever was displayed, of any length.
THEOREM ConsoleShowsTail == Spec => []TextShowsTail
<1>1. IInv => TextShowsTail
  BY DEF IInv, Displayed, TextScreen, TextShowsTail
<1> QED
  BY <1>1, ConsoleInvariant, PTL

\* Until the cursor sinks below the last line every pixel is drawn in a buffer
\* of the size boot.ini asks for, when fetchwh reads the numbers written there.
THEOREM ConsoleDrawsInside == ASSUME ResolutionsAreRead PROVE Spec => []DrawnInside
<1>1. IInv => DrawnInside
  BY ConsoleAssumption DEF IInv, Drawn, DrawnInside, ResolutionsAreRead
<1> QED
  BY <1>1, ConsoleInvariant, PTL

-----------------------------------------------------------------------------
(* The grid of characters *)

\* A whole number of steps.
Multiple(a, d) == \E k \in Nat : a = k * d

\* A screen whose rows are whole numbers of characters.
Grid(width) == /\ width \in Nat /\ width >= CellW /\ width + CellW < Word
               /\ Multiple(width, CellW)

\* The place of one of its characters.
Cell(width, p) == /\ p \in [x : 0..(Word - 1), y : 0..(Word - 1)]
                  /\ p.x + CellW <= width
                  /\ Multiple(p.x, CellW) /\ Multiple(p.y, CellH)

\* One place is read before another.
Before(p, q) == p.y < q.y \/ (p.y = q.y /\ p.x < q.x)

\* The place behind character c at p, as long as no row is out of range.
Following(width, p, c, left) ==
    IF c = Newline \/ p.x + 2 * CellW > width THEN [x |-> left, y |-> p.y + CellH]
    ELSE [x |-> p.x + CellW, y |-> p.y]

\* Numbers of whole steps are a step apart, and a step leads to another.
LEMMA Steps ==
    ASSUME NEW d \in Nat \ {0}
    PROVE  /\ Multiple(0, d)
           /\ \A a : Multiple(a, d) => a \in Nat /\ Multiple(a + d, d)
           /\ \A a, b : Multiple(a, d) /\ Multiple(b, d) /\ a < b => a + d <= b
           /\ \A a : Multiple(a, d) /\ a >= d => Multiple(a - d, d)
           /\ \A a : Multiple(a, d) /\ a < d => a = 0
<1>1. Multiple(0, d)
  <2>1. 0 = 0 * d
    OBVIOUS
  <2> QED
    BY <2>1 DEF Multiple
<1>2. ASSUME NEW a, Multiple(a, d) PROVE a \in Nat /\ Multiple(a + d, d)
  <2>1. PICK j \in Nat : a = j * d
    BY <1>2 DEF Multiple
  <2>2. j * d \in Nat /\ j * d + d = (j + 1) * d /\ j + 1 \in Nat
    BY SMTT(30)
  <2> QED
    BY <2>1, <2>2 DEF Multiple
<1>3. ASSUME NEW a, NEW b, Multiple(a, d), Multiple(b, d), a < b PROVE a + d <= b
  <2>1. PICK j \in Nat : a = j * d
    BY <1>3 DEF Multiple
  <2>2. PICK k \in Nat : b = k * d
    BY <1>3 DEF Multiple
  <2>3. j + 1 <= k
    <3> SUFFICES ASSUME k <= j PROVE FALSE
      OBVIOUS
    <3>1. k * d <= j * d
      BY SMTT(30)
    <3>2. k * d \in Nat /\ j * d \in Nat
      BY SMTT(30)
    <3> QED
      BY <1>3, <2>1, <2>2, <3>1, <3>2
  <2>4. (j + 1) * d <= k * d
    BY <2>3, SMTT(30)
  <2>5. (j + 1) * d = j * d + d
    BY SMTT(30)
  <2> QED
    BY <2>1, <2>2, <2>4, <2>5
<1>4. ASSUME NEW a, Multiple(a, d), a >= d PROVE Multiple(a - d, d)
  <2>1. PICK j \in Nat : a = j * d
    BY <1>4 DEF Multiple
  <2>2. CASE j = 0
    <3>1. a = 0
      BY <2>1, <2>2
    <3> QED
      BY <1>4, <3>1
  <2>3. CASE j # 0
    <3>1. j * d - d = (j - 1) * d /\ j - 1 \in Nat
      BY <2>3, SMTT(30)
    <3> QED
      BY <2>1, <3>1 DEF Multiple
  <2> QED
    BY <2>2, <2>3
<1>5. ASSUME NEW a, Multiple(a, d), a < d PROVE a = 0
  <2>1. a \in Nat
    BY <1>2, <1>5
  <2> SUFFICES ASSUME 0 < a PROVE FALSE
    BY <2>1
  <2>2. 0 + d <= a
    BY <1>1, <1>3, <1>5
  <2> QED
    BY <1>5, <2>1, <2>2
<1> QED
  BY <1>1, <1>2, <1>3, <1>4, <1>5

\* A cell's coordinates are natural numbers.
LEMMA CellTyped ==
    ASSUME NEW width, Grid(width), NEW p, Cell(width, p)
    PROVE  /\ {CellW, CellH, Word} \subseteq Nat \ {0}
           /\ width \in Nat /\ p.x \in Nat /\ p.y \in Nat /\ p.y < Word
           /\ p = [x |-> p.x, y |-> p.y]
BY ConsoleAssumption DEF Grid, Cell

\* The order of reading is one.
LEMMA BeforeIsOrder ==
    ASSUME NEW width, Grid(width), NEW p, Cell(width, p), NEW q, Cell(width, q),
           NEW r, Cell(width, r), Before(p, q)
    PROVE  /\ Before(q, r) => Before(p, r)
           /\ p.y <= q.y
BY CellTyped DEF Before

\* The place behind a character's is one of the grid, later in the order and a
\* row further at most.
LEMMA FollowingIsCell ==
    ASSUME NEW width, Grid(width), NEW p, Cell(width, p), NEW c,
           NEW left \in Nat, Multiple(left, CellW), left + CellW <= width,
           Following(width, p, c, left).y < Word
    PROVE  /\ Cell(width, Following(width, p, c, left))
           /\ Before(p, Following(width, p, c, left))
           /\ Following(width, p, c, left).y <= p.y + CellH
<1>1. /\ {CellW, CellH, Word} \subseteq Nat \ {0}
      /\ width \in Nat /\ p.x \in Nat /\ p.y \in Nat /\ width + CellW < Word
  BY CellTyped DEF Grid
<1>2. Multiple(p.x, CellW) /\ Multiple(p.y, CellH)
  BY DEF Cell
<1>3. Multiple(p.x + CellW, CellW) /\ Multiple(p.y + CellH, CellH)
  BY <1>1, <1>2, Steps
<1>4. CASE c = Newline \/ p.x + 2 * CellW > width
  <2> DEFINE q == [x |-> left, y |-> p.y + CellH]
  <2>1. Following(width, p, c, left) = q
    BY <1>4 DEF Following
  <2>2. q.x = left /\ q.y = p.y + CellH /\ q.y < Word
    BY <2>1
  <2>3. q \in [x : 0..(Word - 1), y : 0..(Word - 1)]
    BY <1>1, <2>2
  <2>4. Cell(width, q)
    BY <1>2, <1>3, <2>2, <2>3 DEF Cell
  <2> QED
    BY <1>1, <2>1, <2>2, <2>4 DEF Before
<1>5. CASE ~ (c = Newline \/ p.x + 2 * CellW > width)
  <2> DEFINE q == [x |-> p.x + CellW, y |-> p.y]
  <2>1. Following(width, p, c, left) = q
    BY <1>5 DEF Following
  <2>2. q.x = p.x + CellW /\ q.y = p.y /\ q.y < Word /\ q.x + CellW <= width
    BY <1>1, <1>5, <2>1
  <2>3. q \in [x : 0..(Word - 1), y : 0..(Word - 1)]
    BY <1>1, <2>2
  <2>4. Cell(width, q)
    BY <1>2, <1>3, <2>2, <2>3 DEF Cell
  <2> QED
    BY <1>1, <2>1, <2>2, <2>4 DEF Before
<1> QED
  BY <1>4, <1>5

\* The cursor follows.
LEMMA AdvanceFollows ==
    ASSUME Sized, Grid(w), NEW p, Cell(w, p), NEW c, NEW left \in 0..(Word - 1),
           Following(w, p, c, left).y < Word
    PROVE  Advance(p, c, left) = Following(w, p, c, left)
<1>1. /\ {CellW, CellH, Word} \subseteq Nat \ {0}
      /\ w \in Nat /\ p.x \in Nat /\ p.y \in Nat /\ w + CellW < Word
  BY CellTyped DEF Grid
<1>2. p.x + CellW \in 0..(Word - 1) /\ p.x + CellW + CellW \in 0..(Word - 1) /\ p.y \in 0..(Word - 1)
  BY <1>1 DEF Cell
<1>3. Place(p.x + CellW, p.y) = [x |-> p.x + CellW, y |-> p.y]
  <2>1. \A k \in 0..(Word - 1) : k % Word = k
    BY <1>1
  <2>2. (p.x + CellW) % Word = p.x + CellW /\ p.y % Word = p.y
    BY <1>2, <2>1
  <2> QED
    BY <2>2 DEF Place
<1>4. ((p.x + CellW) + CellW) % Word = p.x + 2 * CellW
  BY <1>1, <1>2
<1>5. CASE c = Newline \/ p.x + 2 * CellW > w
  <2>1. Following(w, p, c, left) = [x |-> left, y |-> p.y + CellH]
    BY <1>5 DEF Following
  <2>2. p.y + CellH < Word
    BY <2>1
  <2>3. left % Word = left /\ (p.y + CellH) % Word = p.y + CellH
    BY <1>1, <2>2
  <2>4. Advance(p, c, left) = Place(left, p.y + CellH)
    BY <1>3, <1>4, <1>5 DEF Advance
  <2> QED
    BY <2>1, <2>3, <2>4 DEF Place
<1>6. CASE ~ (c = Newline \/ p.x + 2 * CellW > w)
  <2>1. Following(w, p, c, left) = [x |-> p.x + CellW, y |-> p.y]
    BY <1>6 DEF Following
  <2> QED
    BY <1>3, <1>4, <1>6, <2>1 DEF Advance
<1> QED
  BY <1>5, <1>6

\* A Backspace takes the cursor back to the character before it.
LEMMA BackOneReturns ==
    ASSUME Sized, Grid(w), NEW p, Cell(w, p), NEW c, c # Newline,
           Following(w, p, c, 0).y < Word
    PROVE  BackOne(Following(w, p, c, 0)) = p
<1>1. /\ {CellW, CellH, Word} \subseteq Nat \ {0}
      /\ w \in Nat /\ p.x \in Nat /\ p.y \in Nat /\ w + CellW < Word
      /\ p = [x |-> p.x, y |-> p.y] /\ p.y < Word /\ p.x + CellW <= w
  BY CellTyped DEF Grid, Cell
<1>2. p.x % Word = p.x /\ p.y % Word = p.y
  BY <1>1
<1>3. CASE p.x + 2 * CellW > w
  <2> DEFINE q == [x |-> 0, y |-> p.y + CellH]
  <2>1. Following(w, p, c, 0) = q
    BY <1>3 DEF Following
  <2>2. ~ q.x >= CellW /\ q.y >= CellH /\ q.y - CellH = p.y
    BY <1>1
  <2>3. p.x = w - CellW
    <3>1. Multiple(p.x + CellW, CellW) /\ Multiple(w, CellW)
      BY <1>1, Steps DEF Cell, Grid
    <3>2. ~ p.x + CellW < w
      BY <1>1, <1>3, <3>1, Steps
    <3> QED
      BY <1>1, <3>2
  <2>4. BackOne(q) = Place(w - CellW, q.y - CellH)
    BY <2>2 DEF BackOne
  <2> HIDE DEF q
  <2>5. BackOne(q) = Place(p.x, p.y)
    BY <2>2, <2>3, <2>4
  <2> QED
    BY <1>1, <1>2, <2>1, <2>5 DEF Place
<1>4. CASE ~ p.x + 2 * CellW > w
  <2> DEFINE q == [x |-> p.x + CellW, y |-> p.y]
  <2>1. Following(w, p, c, 0) = q
    BY <1>4 DEF Following
  <2>2. q.x >= CellW /\ q.x - CellW = p.x /\ q.y = p.y
    BY <1>1
  <2>3. BackOne(q) = Place(q.x - CellW, q.y)
    BY <2>2 DEF BackOne
  <2> HIDE DEF q
  <2>4. BackOne(q) = Place(p.x, p.y)
    BY <2>2, <2>3
  <2> QED
    BY <1>1, <1>2, <2>1, <2>4 DEF Place
<1> QED
  BY <1>3, <1>4

-----------------------------------------------------------------------------
(* The pixels of cells *)

\* Pixel a is this part of the cell at p.
IsPixel(width, p, part, a) == a \div width = p.y + part[1] /\ a % width = p.x + part[2]

\* Pixel a is no part of a cell before p.
Behind(width, p, a) == \/ a \div width >= p.y + CellH
                       \/ a \div width >= p.y /\ a % width >= p.x

\* Nothing is drawn from place p on.
Fresh(width, buf, p) == \A a \in DOMAIN buf : Behind(width, p, a) => buf[a] = {}

\* The cell at p shows character c and nothing else.
Shows(width, buf, p, c) ==
    \A a \in DOMAIN buf, part \in Parts : IsPixel(width, p, part, a) => buf[a] = {<<c, part>>}

\* The indices of a buffer's pixels.
Pixels(buf) == DOMAIN buf \subseteq Nat

\* The rows of the cell at p are in the range of indices.
Indexed(width, p) == (p.y + CellH) * width <= Word

\* PutPixel's index is that of the pixel, as long as it is in range.
LEMMA PixelIsThat ==
    ASSUME Grid(w), NEW p, Cell(w, p), Indexed(w, p), NEW part \in Parts, NEW a \in Nat
    PROVE  PixelAt(p, part) = a <=> IsPixel(w, p, part, a)
<1>1. /\ {CellW, CellH, Word} \subseteq Nat \ {0} /\ w \in Nat \ {0}
      /\ p.x \in Nat /\ p.y \in Nat /\ p.x + CellW <= w
      /\ part[1] \in 0..(CellH - 1) /\ part[2] \in 0..(CellW - 1)
  BY CellTyped DEF Grid, Cell, Parts
<1> DEFINE row == p.y + part[1]
           col == p.x + part[2]
           n == row * w + col
<1>2. row \in Nat /\ col \in Nat /\ row + 1 <= p.y + CellH /\ col < w
  BY <1>1
<1>3. (row + 1) * w <= (p.y + CellH) * w
  <2>1. p.y + CellH \in Nat
    BY <1>1
  <2> HIDE DEF row
  <2> QED
    BY <1>1, <1>2, <2>1, SMTT(30)
<1>4. PixelAt(p, part) = n % Word
  BY <1>1 DEF PixelAt
<1> HIDE DEF row, col
<1>5. (row + 1) * w = row * w + w /\ row * w \in Nat
  BY <1>1, <1>2, SMTT(30)
<1>6. (p.y + CellH) * w \in Int
  BY <1>1, SMTT(30)
<1>7. n \in Nat /\ n < Word
  BY <1>1, <1>2, <1>3, <1>5, <1>6 DEF Indexed
<1>8. n % Word = n
  BY <1>1, <1>7
<1>9. n \div w = row /\ n % w = col
  BY <1>1, <1>2, SMTT(30)
<1>10. ASSUME a \div w = row, a % w = col PROVE a = n
  <2>1. a = w * (a \div w) + (a % w)
    BY <1>1, SMTT(30)
  <2>2. w * row = row * w
    BY <1>1, <1>2, SMTT(30)
  <2> QED
    BY <1>10, <2>1, <2>2
<1> QED
  BY <1>4, <1>8, <1>9, <1>10 DEF IsPixel, row, col

\* The pixels of a cell are behind it, and before every later cell.
LEMMA PixelsInOrder ==
    ASSUME NEW width, Grid(width), NEW p, Cell(width, p),
           NEW part \in Parts, NEW a \in Nat, IsPixel(width, p, part, a)
    PROVE  /\ Behind(width, p, a)
           /\ \A q : Cell(width, q) /\ Before(p, q) => ~ Behind(width, q, a)
<1>1. /\ {CellW, CellH, Word} \subseteq Nat \ {0} /\ width \in Nat \ {0}
      /\ p.x \in Nat /\ p.y \in Nat
      /\ part[1] \in 0..(CellH - 1) /\ part[2] \in 0..(CellW - 1)
  BY CellTyped DEF Grid, Parts
<1> DEFINE row == a \div width
           col == a % width
<1>2. row = p.y + part[1] /\ col = p.x + part[2]
  BY DEF IsPixel
<1>3. Behind(width, p, a)
  BY <1>1, <1>2 DEF Behind
<1>4. ASSUME NEW q, Cell(width, q), Before(p, q) PROVE ~ Behind(width, q, a)
  <2>1. q.x \in Nat /\ q.y \in Nat
    BY <1>4, CellTyped
  <2>2. (p.y < q.y => p.y + CellH <= q.y) /\ (p.x < q.x => p.x + CellW <= q.x)
    BY <1>1, <1>4, Steps DEF Cell
  <2>3. Behind(width, q, a) <=> row >= q.y + CellH \/ (row >= q.y /\ col >= q.x)
    BY DEF Behind
  <2> HIDE DEF row, col
  <2> QED
    BY <1>1, <1>2, <1>4, <2>1, <2>2, <2>3 DEF Before
<1> QED
  BY <1>3, <1>4

\* What is behind a place is behind every place before it.
LEMMA BehindLater ==
    ASSUME NEW width, Grid(width), NEW p, Cell(width, p), NEW q, Cell(width, q),
           Before(p, q), NEW a \in Nat, Behind(width, q, a)
    PROVE  Behind(width, p, a)
<1>1. /\ {CellW, CellH, Word} \subseteq Nat \ {0} /\ width \in Nat \ {0}
      /\ p.x \in Nat /\ p.y \in Nat /\ q.x \in Nat /\ q.y \in Nat
  BY CellTyped DEF Grid
<1>2. p.y < q.y => p.y + CellH <= q.y
  BY <1>1, Steps DEF Cell
<1>3. a \div width \in Int /\ a % width \in Int
  BY <1>1
<1> DEFINE row == a \div width
           col == a % width
<1>4. row >= q.y + CellH \/ (row >= q.y /\ col >= q.x)
  BY DEF Behind
<1>5. Behind(width, p, a) <=> row >= p.y + CellH \/ (row >= p.y /\ col >= p.x)
  BY DEF Behind
<1> HIDE DEF row, col
<1>6. row \in Int /\ col \in Int
  BY <1>3 DEF row, col
<1> QED
  BY <1>1, <1>2, <1>4, <1>5, <1>6 DEF Before

\* What is behind a place is a part of its cell or behind the next one.
LEMMA CellOrBehind ==
    ASSUME NEW width, Grid(width), NEW p, Cell(width, p), NEW c, c # Newline,
           NEW a \in Nat, Behind(width, p, a), ~ Behind(width, Following(width, p, c, 0), a)
    PROVE  \E part \in Parts : IsPixel(width, p, part, a)
<1>1. /\ {CellW, CellH, Word} \subseteq Nat \ {0} /\ width \in Nat \ {0}
      /\ p.x \in Nat /\ p.y \in Nat /\ p.x + CellW <= width
  BY CellTyped DEF Grid, Cell
<1> DEFINE row == a \div width
           col == a % width
<1>2. row \in Int /\ col \in 0..(width - 1)
  BY <1>1
<1>3. row >= p.y + CellH \/ (row >= p.y /\ col >= p.x)
  BY DEF Behind
<1>4. IF p.x + 2 * CellW > width
      THEN ~ (row >= p.y + CellH + CellH) /\ ~ (row >= p.y + CellH /\ col >= 0)
      ELSE ~ (row >= p.y + CellH) /\ ~ (row >= p.y /\ col >= p.x + CellW)
  BY DEF Behind, Following
<1>5. p.x + 2 * CellW > width => p.x + CellW = width
  <2>1. Multiple(p.x + CellW, CellW) /\ Multiple(width, CellW)
    BY <1>1, Steps DEF Cell, Grid
  <2>2. p.x + CellW < width => p.x + CellW + CellW <= width
    BY <1>1, <2>1, Steps
  <2> QED
    BY <1>1, <2>2
<1> HIDE DEF row, col
<1>6. row >= p.y /\ row < p.y + CellH /\ col >= p.x /\ col < p.x + CellW
  BY <1>1, <1>2, <1>3, <1>4, <1>5
<1> DEFINE part == <<row - p.y, col - p.x>>
<1>7. part \in Parts
  BY <1>1, <1>2, <1>6 DEF Parts
<1>8. row = p.y + part[1] /\ col = p.x + part[2]
  BY <1>1, <1>2
<1> HIDE DEF part
<1> QED
  BY <1>7, <1>8 DEF IsPixel, row, col

\* A pixel is one part of a cell.
LEMMA PartIsUnique ==
    ASSUME NEW width, Grid(width), NEW p, Cell(width, p), NEW a,
           NEW part \in Parts, IsPixel(width, p, part, a),
           NEW other \in Parts, IsPixel(width, p, other, a)
    PROVE  part = other
<1>1. p.x \in Nat /\ p.y \in Nat
  BY CellTyped
<1>2. /\ part[1] \in Int /\ part[2] \in Int /\ part = <<part[1], part[2]>>
      /\ other[1] \in Int /\ other[2] \in Int /\ other = <<other[1], other[2]>>
  BY DEF Parts
<1>3. p.y + part[1] = p.y + other[1] /\ p.x + part[2] = p.x + other[2]
  BY DEF IsPixel
<1>4. part[1] = other[1] /\ part[2] = other[2]
  BY <1>1, <1>2, <1>3
<1> QED
  BY <1>2, <1>4

-----------------------------------------------------------------------------
(* A line on the screen *)

Cells(width) == {p \in [x : 0..(Word - 1), y : 0..(Word - 1)] : Cell(width, p)}

\* A line is shown from one place to another.
Line(width, buf, line, from, to) ==
    \E places \in [1..(Len(line) + 1) -> Cells(width)] :
        /\ places[1] = from /\ places[Len(line) + 1] = to
        /\ \A i \in 1..Len(line) : /\ places[i + 1] = Following(width, places[i], line[i], 0)
                                   /\ Shows(width, buf, places[i], line[i])
        /\ \A i, j \in 1..(Len(line) + 1) : i < j => Before(places[i], places[j])

\* What was drawn before p is still there.
Kept(width, p, buf, next) == /\ DOMAIN next = DOMAIN buf
                             /\ \A a \in DOMAIN buf : ~ Behind(width, p, a) => next[a] = buf[a]

\* A character is shown as long as nothing changes before a later place.
LEMMA ShowsKept ==
    ASSUME NEW width, Grid(width), NEW buf, Pixels(buf), NEW next,
           NEW p \in Cells(width), NEW q \in Cells(width), Before(p, q),
           Kept(width, q, buf, next), NEW c, Shows(width, buf, p, c)
    PROVE  Shows(width, next, p, c)
<1> SUFFICES ASSUME NEW a \in DOMAIN next, NEW part \in Parts, IsPixel(width, p, part, a)
             PROVE  next[a] = {<<c, part>>}
  BY DEF Shows
<1>1. a \in DOMAIN buf /\ a \in Nat
  BY DEF Kept, Pixels
<1>2. buf[a] = {<<c, part>>}
  BY <1>1 DEF Shows
<1>3. Cell(width, p) /\ Cell(width, q)
  BY DEF Cells
<1>4. ~ Behind(width, q, a)
  BY <1>1, <1>3, PixelsInOrder
<1> QED
  BY <1>1, <1>2, <1>4 DEF Kept

\* An empty line is shown anywhere.
LEMMA LineBegins ==
    ASSUME NEW width, NEW buf, NEW p, Cell(width, p)
    PROVE  Line(width, buf, <<>>, p, p)
<1>1. p \in Cells(width)
  BY DEF Cells, Cell
<1> DEFINE places == [i \in 1..(Len(<<>>) + 1) |-> p]
<1>2. Len(<<>>) = 0
  OBVIOUS
<1>3. places \in [1..(Len(<<>>) + 1) -> Cells(width)]
  BY <1>1
<1>4. places[1] = p /\ places[Len(<<>>) + 1] = p
  BY <1>2
<1>5. \A i, j \in 1..(Len(<<>>) + 1) : ~ i < j
  BY <1>2
<1>6. \A i \in 1..Len(<<>>) : FALSE
  BY <1>2
<1> HIDE DEF places
<1> QED
  BY <1>3, <1>4, <1>5, <1>6 DEF Line

\* A line with one more character drawn where it ended.
LEMMA LineGrows ==
    ASSUME NEW width, Grid(width), NEW buf, Pixels(buf), NEW line, Len(line) \in Nat,
           NEW longer, Len(longer) = Len(line) + 1, \A i \in 1..Len(line) : longer[i] = line[i],
           NEW from, NEW to, Line(width, buf, line, from, to),
           NEW next, Kept(width, to, buf, next), Shows(width, next, to, longer[Len(longer)]),
           Following(width, to, longer[Len(longer)], 0).y < Word
    PROVE  Line(width, next, longer, from, Following(width, to, longer[Len(longer)], 0))
<1> DEFINE n == Len(line) + 1
           end == Following(width, to, longer[Len(longer)], 0)
<1>1. PICK places \in [1..n -> Cells(width)] :
        /\ places[1] = from /\ places[n] = to
        /\ \A i \in 1..Len(line) : /\ places[i + 1] = Following(width, places[i], line[i], 0)
                                   /\ Shows(width, buf, places[i], line[i])
        /\ \A i, j \in 1..n : i < j => Before(places[i], places[j])
  BY DEF Line
<1>2. /\ n \in Nat \ {0} /\ Len(line) = n - 1 /\ Len(longer) = n
      /\ CellW \in Nat \ {0} /\ 0 \in Nat /\ 0 + CellW = CellW
  BY Sizes
<1>3. to \in Cells(width) /\ Cell(width, to)
  BY <1>1, <1>2 DEF Cells
<1>4. Multiple(0, CellW) /\ CellW <= width
  BY <1>2, Steps DEF Grid
<1> HIDE DEF n
<1>5. Cell(width, end) /\ Before(to, end)
  BY <1>2, <1>3, <1>4, FollowingIsCell
<1>6. end \in Cells(width)
  BY <1>5 DEF Cells, Cell
<1>7. end = Following(width, to, longer[n], 0) /\ Shows(width, next, to, longer[n])
  BY <1>2
<1> HIDE DEF end
<1> DEFINE more == [i \in 1..(Len(longer) + 1) |-> IF i = n + 1 THEN end ELSE places[i]]
<1>8. more \in [1..(Len(longer) + 1) -> Cells(width)]
  BY <1>1, <1>2, <1>6
<1>9. /\ more[n + 1] = end
      /\ \A i \in 1..n : more[i] = places[i]
  BY <1>2
<1> HIDE DEF more
<1>10. more[1] = from /\ more[Len(longer) + 1] = end
  BY <1>1, <1>2, <1>9
<1>11. ASSUME NEW i \in 1..n, NEW j \in 1..(n + 1), i < j PROVE Before(more[i], more[j])
  <2>1. CASE j = n + 1 /\ i = n
    BY <1>1, <1>5, <1>9, <2>1
  <2>2. CASE j = n + 1 /\ i # n
    <3>1. Before(places[i], to) /\ places[i] \in Cells(width)
      BY <1>1, <1>2, <2>2
    <3>2. Cell(width, places[i])
      BY <3>1 DEF Cells
    <3>3. Before(places[i], end)
      BY <1>3, <1>5, <3>1, <3>2, BeforeIsOrder
    <3> QED
      BY <1>9, <2>2, <3>3
  <2>3. CASE j # n + 1
    BY <1>1, <1>2, <1>9, <1>11, <2>3
  <2> QED
    BY <2>1, <2>2, <2>3
<1>12. \A i, j \in 1..(Len(longer) + 1) : i < j => Before(more[i], more[j])
  BY <1>2, <1>11
<1>13. ASSUME NEW i \in 1..n
       PROVE  /\ more[i + 1] = Following(width, more[i], longer[i], 0)
              /\ Shows(width, next, more[i], longer[i])
  <2>1. CASE i = n
    BY <1>1, <1>7, <1>9, <2>1
  <2>2. CASE i # n
    <3>1. i \in 1..Len(line) /\ i + 1 \in 1..n
      BY <1>2, <2>2
    <3>2. /\ places[i + 1] = Following(width, places[i], longer[i], 0)
          /\ Shows(width, buf, places[i], longer[i])
      BY <1>1, <3>1
    <3>3. places[i] \in Cells(width) /\ Before(places[i], to)
      BY <1>1, <1>2, <2>2
    <3>4. Shows(width, next, places[i], longer[i])
      BY <1>3, <3>2, <3>3, ShowsKept
    <3> QED
      BY <1>9, <3>1, <3>2, <3>4
  <2> QED
    BY <2>1, <2>2
<1> QED
  BY <1>2, <1>7, <1>8, <1>10, <1>12, <1>13 DEF Line

\* A line without its last character ends where that character was.
LEMMA LineShrinks ==
    ASSUME NEW width, Grid(width), NEW buf, Pixels(buf), NEW line, Len(line) \in Nat,
           NEW shorter, Len(shorter) = Len(line) - 1, Len(shorter) \in Nat,
           \A i \in 1..Len(shorter) : shorter[i] = line[i],
           NEW from, NEW to, Line(width, buf, line, from, to)
    PROVE  \E p \in Cells(width) :
              /\ to = Following(width, p, line[Len(line)], 0) /\ to \in Cells(width)
              /\ Before(p, to)
              /\ \A next : Kept(width, p, buf, next) => Line(width, next, shorter, from, p)
<1> DEFINE n == Len(line)
<1>1. PICK places \in [1..(n + 1) -> Cells(width)] :
        /\ places[1] = from /\ places[n + 1] = to
        /\ \A i \in 1..n : /\ places[i + 1] = Following(width, places[i], line[i], 0)
                           /\ Shows(width, buf, places[i], line[i])
        /\ \A i, j \in 1..(n + 1) : i < j => Before(places[i], places[j])
  BY DEF Line
<1>2. n \in Nat \ {0} /\ Len(shorter) = n - 1
  OBVIOUS
<1> HIDE DEF n
<1> DEFINE p == places[n]
<1>3. p \in Cells(width) /\ Before(p, to) /\ to = Following(width, p, line[n], 0)
      /\ to \in Cells(width)
  BY <1>1, <1>2
<1>4. ASSUME NEW next, Kept(width, p, buf, next) PROVE Line(width, next, shorter, from, p)
  <2> DEFINE less == [i \in 1..(Len(shorter) + 1) |-> places[i]]
  <2>1. /\ less \in [1..(Len(shorter) + 1) -> Cells(width)]
        /\ \A i \in 1..n : less[i] = places[i]
    BY <1>1, <1>2
  <2> HIDE DEF less
  <2>2. less[1] = from /\ less[Len(shorter) + 1] = p
    BY <1>1, <1>2, <2>1
  <2>3. \A i, j \in 1..(Len(shorter) + 1) : i < j => Before(less[i], less[j])
    BY <1>1, <1>2, <2>1
  <2>4. ASSUME NEW i \in 1..Len(shorter)
        PROVE  /\ less[i + 1] = Following(width, less[i], shorter[i], 0)
               /\ Shows(width, next, less[i], shorter[i])
    <3>1. i \in 1..n /\ i + 1 \in 1..n /\ i < n /\ n \in 1..(n + 1) /\ i \in 1..(n + 1)
      BY <1>2
    <3>2. /\ places[i + 1] = Following(width, places[i], shorter[i], 0)
          /\ Shows(width, buf, places[i], shorter[i])
      BY <1>1, <3>1
    <3>3. places[i] \in Cells(width) /\ Before(places[i], p)
      BY <1>1, <3>1
    <3> HIDE DEF p
    <3>4. Shows(width, next, places[i], shorter[i])
      BY <1>3, <1>4, <3>2, <3>3, ShowsKept
    <3> QED
      BY <2>1, <3>1, <3>2, <3>4
  <2> HIDE DEF p
  <2> QED
    BY <2>1, <2>2, <2>3, <2>4 DEF Line
<1> HIDE DEF p
<1> QED
  BY <1>3, <1>4 DEF n

-----------------------------------------------------------------------------
(* The cursor goes on *)

\* Places each of which is before the next are in the order of reading.
LEMMA PlacesInOrder ==
    ASSUME NEW n \in Nat, NEW places,
           \A i \in 1..(n + 1) : places[i].x \in Nat /\ places[i].y \in Nat,
           \A i \in 1..n : Before(places[i], places[i + 1])
    PROVE  \A i, j \in 1..(n + 1) : i < j => Before(places[i], places[j])
<1> SUFFICES ASSUME NEW i \in 1..(n + 1) PROVE \A j \in (i + 1)..(n + 1) : Before(places[i], places[j])
  OBVIOUS
<1> DEFINE S == {j \in (i + 1)..(n + 1) : Before(places[i], places[j])}
<1>1. CASE i = n + 1
  BY <1>1
<1>2. CASE i # n + 1
  <2>1. i + 1 \in S
    BY <1>2
  <2>2. ASSUME NEW j \in (i + 1)..((n + 1) - 1), j \in S PROVE j + 1 \in S
    <3>1. j \in 1..n /\ j + 1 \in 1..(n + 1) /\ j + 1 \in (i + 1)..(n + 1) /\ j \in 1..(n + 1)
      OBVIOUS
    <3>2. Before(places[i], places[j]) /\ Before(places[j], places[j + 1])
      BY <2>2, <3>1
    <3>3. /\ places[i].x \in Nat /\ places[i].y \in Nat
          /\ places[j].x \in Nat /\ places[j].y \in Nat
          /\ places[j + 1].x \in Nat /\ places[j + 1].y \in Nat
      BY <3>1
    <3>4. Before(places[i], places[j + 1])
      BY <3>2, <3>3 DEF Before
    <3> QED
      BY <3>1, <3>4
  <2>3. (i + 1)..(n + 1) \subseteq S
    <3>1. i + 1 \in Int /\ n + 1 \in Int
      OBVIOUS
    <3> HIDE DEF S
    <3> QED
      BY <2>1, <2>2, <3>1, AllAlong
  <2> QED
    BY <2>3
<1> QED
  BY <1>1, <1>2

\* The place behind a character's is later in the order of reading, however
\* narrow the screen, and where a new row begins matters only to a new row.
LEMMA AdvanceGoesOn ==
    ASSUME Sized, NEW p, OnScreen(p), NEW c, NEW left \in 0..(Word - 1), p.y + CellH < Word
    PROVE  /\ Before(p, Advance(p, c, left))
           /\ Advance(p, c, left).y <= p.y + CellH
           /\ Advance(p, c, left).y = p.y => Advance(p, c, left) = Advance(p, c, 0)
<1>1. /\ {CellW, CellH, Word} \subseteq Nat \ {0} /\ 2 * CellW <= Word
      /\ w \in Nat /\ p.x \in 0..(Word - 1) /\ p.y \in Nat /\ w + CellW < Word
      /\ w >= CellW => p.x + CellW <= w
  BY Sizes DEF Sized, OnScreen
<1>0. \A n \in Nat : n < Word => n % Word = n
  <2>1. Word \in Nat \ {0}
    BY <1>1
  <2> QED
    BY <2>1
<1> DEFINE q == Place(p.x + CellW, p.y)
           new == Place(left, p.y + CellH)
<1>2. q.y = p.y /\ q.x = (p.x + CellW) % Word
  <2>1. p.y % Word = p.y
    <3>1. p.y \in Nat /\ p.y < Word
      BY <1>1
    <3> QED
      BY <1>0, <3>1
  <2> QED
    BY <2>1 DEF Place
<1>3. new.y = p.y + CellH
  <2>1. (p.y + CellH) % Word = p.y + CellH
    <3>1. p.y + CellH \in Nat /\ p.y + CellH < Word
      BY <1>1
    <3> QED
      BY <1>0, <3>1
  <2> QED
    BY <2>1 DEF Place
<1>4. Advance(p, c, left) = IF c = Newline \/ (q.x + CellW) % Word > w THEN new ELSE q
  BY DEF Advance
<1>5. Advance(p, c, 0) = IF c = Newline \/ (q.x + CellW) % Word > w
                         THEN Place(0, p.y + CellH) ELSE q
  BY DEF Advance
<1>6. ~ (q.x + CellW) % Word > w => q.x > p.x
  <2>1. CASE p.x + CellW < Word
    <3>1. (p.x + CellW) % Word = p.x + CellW
      <4>1. p.x + CellW \in Nat /\ p.x + CellW < Word
        BY <1>1, <2>1
      <4> QED
        BY <1>0, <4>1
    <3> QED
      BY <1>1, <1>2, <3>1
  <2>2. CASE p.x + CellW >= Word
    <3>1. (p.x + CellW) % Word = p.x + CellW - Word
      BY <1>1, <2>2, SMTT(30)
    <3> DEFINE x == p.x + CellW - Word
    <3>2. x \in Nat /\ x < CellW /\ x + CellW < Word /\ x + CellW >= CellW
      BY <1>1, <2>2
    <3>3. q.x = x
      BY <1>2, <3>1
    <3> HIDE DEF x, q
    <3>4. (q.x + CellW) % Word = x + CellW
      BY <1>1, <3>2, <3>3
    <3>5. w < CellW
      BY <1>1, <2>2
    <3> QED
      BY <1>1, <3>2, <3>4, <3>5
  <2> QED
    BY <1>1, <2>1, <2>2
<1> HIDE DEF q, new
<1> QED
  BY <1>1, <1>2, <1>3, <1>4, <1>5, <1>6 DEF Before

\* A row below one that is no further down than so many rows.
LEMMA RowBelow ==
    ASSUME NEW base \in Nat, NEW above \in Nat, NEW row \in Nat, NEW all \in Nat,
           NEW limit \in Nat, NEW step \in Nat, row <= base + above, above + step <= all,
           base + all < limit
    PROVE  /\ row + step < limit
           /\ \A next \in Nat : next <= row + step => next <= base + (above + step)
OBVIOUS

\* So the places of a string's characters are in order, each a row below the
\* one before it at most, as long as there are rows in the cursor's range.
LEMMA PlacesClimb ==
    ASSUME Sized, NEW str, Len(str) \in Nat, NEW p, OnScreen(p),
           NEW left \in 0..(Word - 1), w >= CellW => left + CellW <= w,
           p.y + CellH * Len(str) < Word
    PROVE  /\ \A i \in 1..(Len(str) + 1) :
                 Places(str, p, left)[i].y <= p.y + CellH * (i - 1)
           /\ \A i \in 1..Len(str) : Places(str, p, left)[i].y + CellH < Word
           /\ \A i, j \in 1..(Len(str) + 1) :
                 i < j => Before(Places(str, p, left)[i], Places(str, p, left)[j])
<1> DEFINE places == Places(str, p, left)
           n == Len(str)
           S == {i \in 1..(n + 1) : places[i].y <= p.y + CellH * (i - 1)}
<1>1. CellH \in Nat \ {0} /\ n \in Nat /\ p.y \in Nat /\ Word \in Nat
  BY Sizes DEF OnScreen
<1>2. /\ places[1] = p
      /\ \A i \in 1..(n + 1) : OnScreen(places[i])
      /\ \A i \in 1..n : places[i + 1] = Advance(places[i], str[i], left)
  BY PlacesAreOnScreen
<1>3. \A i \in 1..(n + 1) : places[i].x \in Nat /\ places[i].y \in Nat
  BY <1>1, <1>2 DEF OnScreen
<1> HIDE DEF places, n
<1>4. \A i \in Nat : CellH * i \in Nat /\ CellH * (i + 1) = CellH * i + CellH
  BY <1>1, SMTT(30)
<1>5. \A i \in 1..n : CellH * i <= CellH * n
  BY <1>1, SMTT(30)
<1>6. ASSUME NEW i \in 1..n, i \in S
      PROVE  places[i].y + CellH < Word /\ places[i + 1].y <= p.y + CellH * i
  <2>1. i - 1 \in Nat /\ (i - 1) + 1 = i
    BY <1>1
  <2>2. CellH * i = CellH * (i - 1) + CellH
    BY <1>4, <2>1
  <2>3. CellH * i <= CellH * n /\ CellH * i \in Nat /\ CellH * n \in Nat /\ CellH * (i - 1) \in Nat
    BY <1>1, <1>4, <1>5, <2>1
  <2> DEFINE above == CellH * (i - 1)
             to == CellH * i
             all == CellH * n
  <2>7. to = above + CellH /\ to <= all /\ to \in Nat /\ above \in Nat /\ all \in Nat
    BY <2>2, <2>3
  <2>8. places[i].y <= p.y + above /\ places[i].y \in Nat /\ p.y + all < Word
    BY <1>1, <1>3, <1>6 DEF n
  <2> HIDE DEF above, to, all
  <2>10. /\ places[i].y + CellH < Word
         /\ \A next \in Nat : next <= places[i].y + CellH => next <= p.y + (above + CellH)
    <3>1. above + CellH <= all /\ CellH \in Nat /\ p.y \in Nat /\ Word \in Nat
      BY <1>1, <2>7
    <3> QED
      BY <2>7, <2>8, <3>1, RowBelow
  <2>4. places[i].y + CellH < Word
    BY <2>10
  <2>5. places[i + 1].y <= places[i].y + CellH /\ OnScreen(places[i + 1])
    <3>1. places[i + 1] = Advance(places[i], str[i], left) /\ OnScreen(places[i])
      BY <1>1, <1>2
    <3>2. OnScreen(places[i + 1])
      BY <1>1, <1>2
    <3> QED
      BY <2>4, <3>1, <3>2, AdvanceGoesOn
  <2>6. places[i + 1].y \in Nat
    BY <1>1, <1>3
  <2>9. places[i + 1].y <= p.y + to
    BY <2>5, <2>6, <2>7, <2>10
  <2> QED
    BY <2>4, <2>9 DEF to
<1>7. 1..(n + 1) \subseteq S
  <2>1. 1 \in S
    <3>1. CellH * (1 - 1) = 0
      BY <1>1
    <3> QED
      BY <1>1, <1>2, <3>1
  <2>2. ASSUME NEW i \in 1..((n + 1) - 1), i \in S PROVE i + 1 \in S
    <3>1. i \in 1..n /\ i + 1 \in 1..(n + 1) /\ (i + 1) - 1 = i
      BY <1>1
    <3>2. places[i + 1].y <= p.y + CellH * i
      BY <1>6, <2>2, <3>1
    <3> QED
      BY <3>1, <3>2
  <2> HIDE DEF S
  <2>3. 1 \in Int /\ n + 1 \in Int
    BY <1>1
  <2> QED
    BY <2>1, <2>2, <2>3, AllAlong
<1>8. \A i \in 1..n : places[i].y + CellH < Word
  <2> HIDE DEF S
  <2> SUFFICES ASSUME NEW i \in 1..n PROVE places[i].y + CellH < Word
    OBVIOUS
  <2>1. i \in 1..(n + 1)
    BY <1>1
  <2>2. i \in S
    BY <1>7, <2>1
  <2> QED
    BY <1>6, <2>2
<1>9. \A i \in 1..n : Before(places[i], places[i + 1])
  <2> SUFFICES ASSUME NEW i \in 1..n PROVE Before(places[i], places[i + 1])
    OBVIOUS
  <2>1. places[i + 1] = Advance(places[i], str[i], left) /\ OnScreen(places[i])
    BY <1>1, <1>2
  <2> QED
    BY <1>8, <2>1, AdvanceGoesOn
<1>10. \A i, j \in 1..(n + 1) : i < j => Before(places[i], places[j])
  BY <1>1, <1>3, <1>9, PlacesInOrder
<1> QED
  BY <1>7, <1>8, <1>10 DEF places, n

-----------------------------------------------------------------------------
(* What a key and Print leave on the screen *)

\* A key typed where nothing is drawn yet is shown, and changes nothing before.
LEMMA EchoIsShown ==
    ASSUME Sized, Grid(w), Cell(w, cursor), Indexed(w, cursor), Pixels(buffer),
           Fresh(w, buffer, cursor), NEW c, c \notin {Backspace, Blank, Newline}, PrintChar(c),
           Following(w, cursor, c, 0).y < Word, setup.font
    PROVE  /\ cursor' = Following(w, cursor, c, 0)
           /\ Kept(w, cursor, buffer, buffer') /\ Shows(w, buffer', cursor, c)
           /\ Fresh(w, buffer', cursor') /\ Cell(w, cursor')
<1> DEFINE marks(a) == {d.mark : d \in {e \in RenderChar(cursor, c) : e.pixel = a}}
           next == Following(w, cursor, c, 0)
<1>1. 0 \in 0..(Word - 1)
  BY Sizes
<1>2. cursor' = next
  BY <1>1, AdvanceFollows DEF PrintChar
<1>3. buffer' = [a \in DOMAIN buffer |-> buffer[a] \cup marks(a)]
  BY DEF PrintChar, Draw
<1>4. ASSUME NEW a \in DOMAIN buffer, NEW m \in marks(a)
      PROVE  \E part \in Parts : m = <<c, part>> /\ IsPixel(w, cursor, part, a)
  <2>1. PICK part \in Parts : PixelAt(cursor, part) = a /\ m = <<c, part>>
    BY DEF RenderChar
  <2>2. a \in Nat
    BY DEF Pixels
  <2> QED
    BY <2>1, <2>2, PixelIsThat
<1>5. ASSUME NEW a \in DOMAIN buffer, NEW part \in Parts, IsPixel(w, cursor, part, a)
      PROVE  <<c, part>> \in marks(a)
  <2>1. PixelAt(cursor, part) = a
    BY <1>5, PixelIsThat DEF Pixels
  <2>2. [pixel |-> a, mark |-> <<c, part>>] \in RenderChar(cursor, c)
    BY <2>1 DEF RenderChar
  <2> QED
    BY <2>2
<1> HIDE DEF marks, next
<1>6. ASSUME NEW a \in DOMAIN buffer, marks(a) # {} PROVE Behind(w, cursor, a)
  <2>1. PICK part \in Parts : IsPixel(w, cursor, part, a)
    BY <1>4, <1>6
  <2> QED
    BY <2>1, PixelsInOrder DEF Pixels
<1>7. Kept(w, cursor, buffer, buffer')
  BY <1>3, <1>6 DEF Kept
<1>8. ASSUME NEW a \in DOMAIN buffer', NEW part \in Parts, IsPixel(w, cursor, part, a)
      PROVE  buffer'[a] = {<<c, part>>}
  <2>1. a \in DOMAIN buffer /\ a \in Nat
    BY <1>3 DEF Pixels
  <2>2. buffer[a] = {}
    BY <1>8, <2>1, PixelsInOrder DEF Fresh
  <2>3. \A m \in marks(a) : m = <<c, part>>
    <3> SUFFICES ASSUME NEW m \in marks(a) PROVE m = <<c, part>>
      OBVIOUS
    <3>1. PICK other \in Parts : m = <<c, other>> /\ IsPixel(w, cursor, other, a)
      BY <1>4, <2>1
    <3>2. part = other
      BY <1>8, <3>1, PartIsUnique
    <3> QED
      BY <3>1, <3>2
  <2>4. <<c, part>> \in marks(a)
    BY <1>5, <1>8, <2>1
  <2>5. marks(a) = {<<c, part>>}
    BY <2>3, <2>4
  <2> QED
    BY <1>3, <2>1, <2>2, <2>5
<1>9. Shows(w, buffer', cursor, c)
  BY <1>8 DEF Shows
<1>10. Cell(w, next) /\ Before(cursor, next)
  <2>1. 0 \in Nat /\ Multiple(0, CellW) /\ 0 + CellW <= w
    BY ConsoleAssumption, Steps DEF Grid
  <2> QED
    BY <2>1, FollowingIsCell DEF next
<1>11. ASSUME NEW a \in DOMAIN buffer', Behind(w, next, a) PROVE buffer'[a] = {}
  <2>1. a \in DOMAIN buffer /\ a \in Nat
    BY <1>3 DEF Pixels
  <2>2. Behind(w, cursor, a)
    BY <1>10, <1>11, <2>1, BehindLater
  <2>3. marks(a) = {}
    <3> SUFFICES ASSUME NEW m \in marks(a) PROVE FALSE
      OBVIOUS
    <3>1. PICK part \in Parts : IsPixel(w, cursor, part, a)
      BY <1>4, <2>1
    <3> QED
      BY <1>10, <1>11, <2>1, <3>1, PixelsInOrder
  <2>4. buffer[a] = {}
    BY <2>1, <2>2 DEF Fresh
  <2> QED
    BY <1>3, <2>1, <2>3, <2>4
<1>12. Fresh(w, buffer', next)
  BY <1>11 DEF Fresh
<1> QED
  BY <1>2, <1>7, <1>9, <1>10, <1>12 DEF next

\* A Backspace behind a character takes it off the screen and changes nothing
\* before it.
LEMMA BackspaceClears ==
    ASSUME Sized, Grid(w), NEW p, Cell(w, p), Indexed(w, p), Pixels(buffer),
           Cell(w, cursor), Fresh(w, buffer, cursor), NEW c, c # Newline,
           cursor = Following(w, p, c, 0), PrintChar(Backspace)
    PROVE  cursor' = p /\ Kept(w, p, buffer, buffer') /\ Fresh(w, buffer', p)
<1> DEFINE cell == {PixelAt(p, part) : part \in Parts}
<1>1. cursor.y < Word
  BY CellTyped
<1>2. BackOne(cursor) = p
  BY <1>1, BackOneReturns
<1>3. cursor' = p /\ buffer' = [a \in DOMAIN buffer |-> IF a \in cell THEN {} ELSE buffer[a]]
  BY <1>2 DEF PrintChar
<1>4. ASSUME NEW a \in DOMAIN buffer
      PROVE  a \in cell <=> \E part \in Parts : IsPixel(w, p, part, a)
  <2>1. a \in Nat
    BY DEF Pixels
  <2>2. \A part \in Parts : PixelAt(p, part) = a <=> IsPixel(w, p, part, a)
    BY <2>1, PixelIsThat
  <2> QED
    BY <2>2
<1> HIDE DEF cell
<1>5. ASSUME NEW a \in DOMAIN buffer, ~ Behind(w, p, a) PROVE buffer'[a] = buffer[a]
  <2>1. ~ a \in cell
    BY <1>4, <1>5, PixelsInOrder DEF Pixels
  <2> QED
    BY <1>3, <2>1
<1>6. ASSUME NEW a \in DOMAIN buffer, Behind(w, p, a) PROVE buffer'[a] = {}
  <2>1. CASE a \in cell
    BY <1>3, <2>1
  <2>2. CASE ~ a \in cell
    <3>1. a \in Nat
      BY DEF Pixels
    <3>2. Behind(w, cursor, a)
      BY <1>4, <1>6, <2>2, <3>1, CellOrBehind
    <3> QED
      BY <1>3, <2>2, <3>2 DEF Fresh
  <2> QED
    BY <2>1, <2>2
<1> QED
  BY <1>3, <1>5, <1>6 DEF Kept, Fresh

\* A cell is of the screen.
LEMMA CellIsOnScreen ==
    ASSUME Sized, Grid(w), NEW p, Cell(w, p) PROVE OnScreen(p)
BY DEF Cell, OnScreen

\* So are those of a string whose rows begin at the left edge.
LEMMA PlacesFromTheEdge ==
    ASSUME Sized, NEW str, Len(str) \in Nat, NEW p, OnScreen(p)
    PROVE  /\ DOMAIN Places(str, p, 0) = 1..(Len(str) + 1)
           /\ \A j \in 1..(Len(str) + 1) : OnScreen(Places(str, p, 0)[j])
           /\ Places(str, p, 0)[1] = p
           /\ \A j \in 1..Len(str) :
                 Places(str, p, 0)[j + 1] = Advance(Places(str, p, 0)[j], str[j], 0)
<1>1. 0 \in 0..(Word - 1) /\ 0 + CellW = CellW
  BY Sizes
<1>2. w >= CellW => 0 + CellW <= w
  BY <1>1
<1>3. DOMAIN Places(str, p, 0) = 1..(Len(str) + 1)
  BY <1>1, <1>2, PlacesAreOnScreen
<1>4. \A j \in 1..(Len(str) + 1) : OnScreen(Places(str, p, 0)[j])
  BY <1>1, <1>2, PlacesAreOnScreen
<1>5. Places(str, p, 0)[1] = p
  BY <1>1, <1>2, PlacesAreOnScreen
<1>6. \A j \in 1..Len(str) :
         Places(str, p, 0)[j + 1] = Advance(Places(str, p, 0)[j], str[j], 0)
  BY <1>1, <1>2, PlacesAreOnScreen
<1> QED
  BY <1>3, <1>4, <1>5, <1>6

\* The loop behind Print leaves the cursor behind the last character.
LEMMA PrintCursorIsLast ==
    ASSUME Sized, NEW str, Len(str) \in Nat, NEW p, OnScreen(p)
    PROVE  PrintCursor(str, p) = Places(str, p, 0)[Len(str) + 1]
<1>1. 0 \in 0..(Word - 1) /\ 0 + CellW = CellW
  BY Sizes
<1>2. DOMAIN Places(str, p, 0) = 1..(Len(str) + 1)
  BY <1>1, PlacesAreOnScreen
<1>3. Len(Places(str, p, 0)) = Len(str) + 1
  BY <1>2
<1> QED
  BY <1>3 DEF PrintCursor, Last

\* The places of a string's characters are of the grid.
LEMMA PlacesAreCells ==
    ASSUME Sized, Grid(w), NEW str, Len(str) \in Nat, NEW p, Cell(w, p),
           NEW left \in 0..(Word - 1), Multiple(left, CellW), left + CellW <= w,
           p.y + CellH * Len(str) < Word
    PROVE  \A i \in 1..(Len(str) + 1) : Cell(w, Places(str, p, left)[i])
<1> DEFINE places == Places(str, p, left)
           n == Len(str)
           S == {i \in 1..(n + 1) : Cell(w, places[i])}
<1>0. OnScreen(p) /\ n \in Nat
  BY CellIsOnScreen
<1>1. /\ places[1] = p
      /\ \A i \in 1..n : places[i + 1] = Advance(places[i], str[i], left)
  BY <1>0, PlacesAreOnScreen
<1>2. \A i \in 1..n : places[i].y + CellH < Word
  BY <1>0, PlacesClimb
<1> HIDE DEF places, n
<1>3. 1 \in S
  BY <1>0, <1>1
<1>4. ASSUME NEW i \in 1..((n + 1) - 1), i \in S PROVE i + 1 \in S
  <2>1. i \in 1..n /\ i + 1 \in 1..(n + 1)
    BY <1>0
  <2>2. Cell(w, places[i]) /\ places[i].y + CellH < Word
    BY <1>2, <1>4, <2>1
  <2>3. Following(w, places[i], str[i], left).y < Word
    <3>1. /\ Following(w, places[i], str[i], left).y = places[i].y + CellH
             \/ Following(w, places[i], str[i], left).y = places[i].y
          /\ places[i].y < Word
      BY <2>2, CellTyped DEF Following
    <3> QED
      BY <2>2, <3>1
  <2>4. Cell(w, Following(w, places[i], str[i], left))
    BY <2>2, <2>3, FollowingIsCell
  <2>5. places[i + 1] = Following(w, places[i], str[i], left)
    BY <1>1, <2>1, <2>2, <2>3, AdvanceFollows
  <2> QED
    BY <2>1, <2>4, <2>5
<1>5. 1..(n + 1) \subseteq S
  <2>1. 1 \in Int /\ n + 1 \in Int
    BY <1>0
  <2> HIDE DEF S
  <2> QED
    BY <1>3, <1>4, <2>1, AllAlong
<1> QED
  BY <1>5 DEF places, n

\* Rows no further down than another one, and their indices.
LEMMA RowsWithin ==
    ASSUME NEW base \in Nat, NEW above \in Nat, NEW all \in Nat, NEW last \in Nat, NEW row \in Nat,
           above <= all, base + all <= last, row <= base + above
    PROVE  row <= last
OBVIOUS

\* The indices of such a row's cells.
LEMMA IndicesWithin ==
    ASSUME NEW row \in Nat, NEW last \in Nat, NEW step \in Nat, NEW width \in Nat, NEW limit \in Nat,
           row <= last, (last + step) * width <= limit
    PROVE  (row + step) * width <= limit
<1> DEFINE r == row + step
           s == last + step
<1>1. r \in Nat /\ s \in Nat /\ r <= s /\ s * width <= limit
  OBVIOUS
<1> HIDE DEF r, s
<1>2. r * width <= s * width /\ r * width \in Int /\ s * width \in Int
  BY <1>1, SMTT(30)
<1>3. r * width <= limit
  BY <1>1, <1>2
<1> QED
  BY <1>3 DEF r

\* Print draws nothing behind the cursor, when it leaves no text there.
LEMMA PrintIsFresh ==
    ASSUME Sized, Grid(w), Cell(w, cursor), Pixels(buffer), Fresh(w, buffer, cursor),
           NEW str, Len(str) \in Nat, DOMAIN str = 1..Len(str), PrintOut(str), ~ skewed',
           NEW last \in Nat, last < Word, (last + CellH) * w <= Word,
           cursor.y + CellH * Len(str) <= last
    PROVE  Cell(w, cursor') /\ cursor'.y <= last /\ Fresh(w, buffer', cursor')
<1> DEFINE n == Len(str)
           left == cursor.x
           P == Places(str, cursor, left)
           Q == Places(str, cursor, 0)
           visible == {P[i] : i \in {j \in DOMAIN str : str[j] # Newline}}
           drawn == RenderString(str, cursor)
           end == cursor'
<1>1. /\ {CellW, CellH, Word} \subseteq Nat \ {0} /\ w \in Nat /\ n \in Nat
      /\ cursor.x \in Nat /\ cursor.y \in Nat /\ cursor.y < Word /\ cursor.x + CellW <= w
      /\ w + CellW < Word
  BY CellTyped DEF Cell, Grid
<1>2. CellH * n \in Nat /\ cursor.y + CellH * n < Word
  <2> DEFINE rows == CellH * n
  <2>1. rows \in Nat /\ cursor.y + rows <= last
    BY <1>1, SMTT(30)
  <2> HIDE DEF rows
  <2> DEFINE y == cursor.y
  <2>2. y \in Nat /\ Word \in Nat /\ y + rows <= last
    BY <1>1, <2>1
  <2> HIDE DEF y
  <2>3. y + rows < Word
    BY <2>1, <2>2
  <2> QED
    BY <2>1, <2>3 DEF rows, y
<1>3. left \in 0..(Word - 1) /\ Multiple(left, CellW) /\ left + CellW <= w
  BY <1>1 DEF Cell
<1>4. 0 \in 0..(Word - 1) /\ Multiple(0, CellW) /\ 0 + CellW <= w
  <2>1. CellW \in Nat \ {0}
    BY <1>1
  <2>2. Multiple(0, CellW)
    BY <2>1, Steps
  <2>3. 0 \in 0..(Word - 1) /\ 0 + CellW = CellW
    BY Sizes
  <2>4. CellW <= w
    BY <2>1, Zenon DEF Grid
  <2> QED
    BY <2>2, <2>3, <2>4
<1>5. \A i \in 1..(n + 1) : Cell(w, P[i])
  BY <1>2, <1>3, PlacesAreCells
<1>6. \A i \in 1..(n + 1) : Cell(w, Q[i])
  BY <1>2, <1>4, PlacesAreCells
<1>7. OnScreen(cursor)
  BY CellIsOnScreen
<1>8. /\ \A i \in 1..(n + 1) : P[i].y <= cursor.y + CellH * (i - 1)
  BY <1>2, <1>3, <1>7, PlacesClimb
<1>9. /\ \A i \in 1..(n + 1) : Q[i].y <= cursor.y + CellH * (i - 1)
      /\ \A i, j \in 1..(n + 1) : i < j => Before(Q[i], Q[j])
  BY <1>2, <1>4, <1>7, PlacesClimb
<1>10. Q[1] = cursor /\ end = Q[n + 1]
  <2>1. end = PrintCursor(str, cursor)
    BY DEF PrintOut
  <2>2. PrintCursor(str, cursor) = Q[n + 1]
    BY <1>7, PrintCursorIsLast
  <2>3. Q[1] = cursor
    BY <1>4, <1>7, PlacesAreOnScreen
  <2> QED
    BY <2>1, <2>2, <2>3
<1>11. \A p \in visible : ~ NotBefore(p, end)
  <2>1. skewed' = (skewed \/ \E p \in visible : NotBefore(p, PrintCursor(str, cursor)))
    BY DEF PrintOut
  <2>2. end = PrintCursor(str, cursor)
    BY DEF PrintOut
  <2> QED
    BY <2>1, <2>2, Zenon
<1>12. buffer' = [a \in DOMAIN buffer |->
                    buffer[a] \cup {d.mark : d \in {e \in drawn : e.pixel = a}}]
  BY DEF PrintOut, Draw
<1>13. \A i \in 1..(n + 1) : CellH * (i - 1) <= CellH * n /\ CellH * (i - 1) \in Nat
  <2> SUFFICES ASSUME NEW i \in 1..(n + 1)
               PROVE  CellH * (i - 1) <= CellH * n /\ CellH * (i - 1) \in Nat
    OBVIOUS
  <2> DEFINE k == i - 1
  <2>1. k \in Nat /\ k <= n
    BY <1>1
  <2> HIDE DEF k
  <2>2. CellH * k <= CellH * n /\ CellH * k \in Nat
    BY <1>1, <2>1, SMTT(30)
  <2> QED
    BY <2>2 DEF k
<1>14. \A d \in drawn : \E i \in 1..n, part \in Parts :
          /\ P[i] \in visible
          /\ d.pixel = PixelAt(P[i], part)
  <2> SUFFICES ASSUME NEW d \in drawn
               PROVE  \E i \in 1..n, part \in Parts :
                         P[i] \in visible /\ d.pixel = PixelAt(P[i], part)
    OBVIOUS
  <2>1. PICK i \in DOMAIN str : str[i] # Newline /\ d \in RenderChar(P[i], str[i])
    BY DEF RenderString, DrawnString
  <2>2. P[i] \in visible
    BY <2>1
  <2>3. PICK part \in Parts : d = [pixel |-> PixelAt(P[i], part), mark |-> <<str[i], part>>]
    BY <2>1 DEF RenderChar
  <2>4. i \in 1..n /\ d.pixel = PixelAt(P[i], part)
    BY <1>1, <2>3
  <2> QED
    BY <2>2, <2>4
<1> HIDE DEF P, Q, visible, drawn, end, left, n
<1>15. \A i \in 1..(n + 1) : P[i].y \in Nat /\ Q[i].y \in Nat
  BY <1>5, <1>6, CellTyped
<1>16. ASSUME NEW i \in 1..(n + 1) PROVE P[i].y <= last /\ Q[i].y <= last
  <2> DEFINE above == CellH * (i - 1)
             all == CellH * n
  <2>1. /\ above <= all /\ above \in Nat /\ all \in Nat /\ cursor.y + all <= last
        /\ P[i].y <= cursor.y + above /\ Q[i].y <= cursor.y + above
    BY <1>2, <1>8, <1>9, <1>13 DEF n
  <2>2. P[i].y \in Nat /\ Q[i].y \in Nat
    BY <1>15
  <2> HIDE DEF above, all
  <2>3. cursor.y \in Nat
    BY <1>1
  <2> QED
    BY <2>1, <2>2, <2>3, RowsWithin
<1>17. Cell(w, end) /\ end.y <= last
  <2>1. n + 1 \in 1..(n + 1)
    BY <1>1
  <2> QED
    BY <1>6, <1>10, <1>16, <2>1
<1>18. cursor = end \/ Before(cursor, end)
  <2>1. 1 \in 1..(n + 1) /\ n + 1 \in 1..(n + 1) /\ (n + 1 = 1 \/ 1 < n + 1)
    BY <1>1
  <2> QED
    BY <1>9, <1>10, <2>1
<1>19. ASSUME NEW i \in 1..n PROVE Indexed(w, P[i])
  <2>0. i \in 1..(n + 1)
    BY <1>1
  <2>1. P[i].y \in Nat /\ P[i].y <= last
    BY <1>15, <1>16, <2>0
  <2> DEFINE row == P[i].y
  <2>2. /\ CellH \in Nat /\ w \in Nat /\ Word \in Nat /\ last \in Nat
        /\ row \in Nat /\ row <= last /\ (last + CellH) * w <= Word
    BY <1>1, <2>1
  <2> HIDE DEF row
  <2>3. (row + CellH) * w <= Word
    BY <2>2, IndicesWithin
  <2> QED
    BY <2>3 DEF Indexed, row
<1>20. ASSUME NEW a \in DOMAIN buffer', Behind(w, end, a) PROVE buffer'[a] = {}
  <2>1. a \in DOMAIN buffer /\ a \in Nat
    BY <1>12 DEF Pixels
  <2>2. Behind(w, cursor, a)
    BY <1>17, <1>18, <1>20, <2>1, BehindLater
  <2>3. buffer[a] = {}
    BY <2>1, <2>2 DEF Fresh
  <2>4. \A d \in drawn : d.pixel # a
    <3> SUFFICES ASSUME NEW d \in drawn, d.pixel = a PROVE FALSE
      OBVIOUS
    <3>1. PICK i \in 1..n, part \in Parts : P[i] \in visible /\ d.pixel = PixelAt(P[i], part)
      BY <1>14
    <3>2. Cell(w, P[i]) /\ i \in 1..(n + 1)
      BY <1>1, <1>5
    <3>3. IsPixel(w, P[i], part, a)
      BY <1>19, <2>1, <3>1, <3>2, PixelIsThat
    <3>4. Before(P[i], end)
      <4>1. ~ NotBefore(P[i], end)
        BY <1>11, <3>1
      <4>2. P[i].x \in Nat /\ P[i].y \in Nat /\ end.x \in Nat /\ end.y \in Nat
        BY <1>17, <3>2, CellTyped
      <4> QED
        BY <4>1, <4>2 DEF NotBefore, Before
    <3> QED
      BY <1>17, <1>20, <2>1, <3>2, <3>3, <3>4, PixelsInOrder
  <2>5. {d.mark : d \in {e \in drawn : e.pixel = a}} = {}
    BY <2>4
  <2> QED
    BY <1>12, <2>1, <2>3, <2>5
<1>21. Fresh(w, buffer', end)
  BY <1>20 DEF Fresh
<1> QED
  BY <1>17, <1>21 DEF end

-----------------------------------------------------------------------------
(* The rows that were needed *)

\* So many characters need no rows, and no indices, out of range.
Ranged(width, count) == /\ CellH * (count + 1) <= Word
                        /\ width * (CellH * (count + 1)) <= Word

\* Each character displayed, and each key, took the cursor down a row at most.
RowsCounted == /\ keys \in Nat /\ rushed \in Nat /\ skewed \in BOOLEAN
               /\ InRange => cursor.y <= CellH * (Len(printed) + keys)

\* Fewer characters are in range as well.
LEMMA RangedBefore ==
    ASSUME NEW width \in Nat, NEW m \in Nat, NEW n \in Nat, m <= n, Ranged(width, n)
    PROVE  Ranged(width, m)
<1> DEFINE a == CellH * (m + 1)
           b == CellH * (n + 1)
<1>1. CellH \in Nat /\ Word \in Nat /\ m + 1 \in Nat /\ n + 1 \in Nat /\ m + 1 <= n + 1
  BY Sizes
<1>2. a \in Nat /\ b \in Nat /\ a <= b
  BY <1>1, SMTT(30)
<1>3. b <= Word /\ width * b <= Word
  BY DEF Ranged
<1> HIDE DEF a, b
<1>4. width * a \in Nat /\ width * b \in Nat /\ width * a <= width * b
  BY <1>2, SMTT(30)
<1>5. a <= Word /\ width * a <= Word
  BY <1>1, <1>2, <1>3, <1>4
<1> QED
  BY <1>5 DEF Ranged, a

\* A row no further down is in range with all its cells' pixels.
LEMMA RangedRows ==
    ASSUME NEW width \in Nat, NEW count \in Nat, Ranged(width, count)
    PROVE  /\ CellH * count \in Nat /\ CellH * count < Word /\ CellH * count + CellH <= Word
           /\ (CellH * count + CellH) * width <= Word
           /\ CellH * (count + 1) = CellH * count + CellH
           /\ \A row \in Nat : row <= CellH * count => (row + CellH) * width <= Word
<1> DEFINE a == CellH * count
<1>1. CellH \in Nat \ {0} /\ Word \in Nat
  BY Sizes
<1>2. a \in Nat /\ CellH * (count + 1) = a + CellH
  BY <1>1, SMTT(30)
<1>3. a + CellH <= Word /\ width * (a + CellH) <= Word
  BY <1>2 DEF Ranged
<1> HIDE DEF a
<1>4. a < Word
  BY <1>1, <1>2, <1>3
<1> DEFINE b == a + CellH
<1>5. b \in Nat /\ width * b <= Word
  BY <1>1, <1>2, <1>3
<1> HIDE DEF b
<1>6. b * width <= Word
  <2>1. b * width = width * b
    BY <1>5, SMTT(30)
  <2> QED
    BY <1>5, <2>1
<1>7. (a + CellH) * width <= Word
  BY <1>6 DEF b
<1>8. ASSUME NEW row \in Nat, row <= a PROVE (row + CellH) * width <= Word
  BY <1>1, <1>2, <1>7, <1>8, IndicesWithin
<1> QED
  BY <1>2, <1>3, <1>4, <1>7, <1>8 DEF a

\* One more character is one more row.
LEMMA RowsOfMore ==
    ASSUME NEW m \in Nat, NEW n \in Nat
    PROVE  /\ CellH * (m + n) = CellH * m + CellH * n
           /\ CellH * m \in Nat /\ CellH * n \in Nat
<1>1. CellH \in Nat
  BY Sizes
<1> QED
  BY <1>1, SMTT(30)

\* What was displayed and pressed can be counted.
LEMMA Countable ==
    ASSUME IInv, RowsCounted
    PROVE  /\ Len(printed) \in Nat /\ keys \in Nat /\ Len(printed) + keys \in Nat
           /\ Sized /\ w \in Nat /\ OnScreen(cursor)
           /\ InRange <=> Ranged(w, Len(printed) + keys)
<1>1. Len(printed) \in Nat /\ keys \in Nat
  BY DEF IInv, Displayed, RowsCounted
<1>2. InRange <=> Ranged(w, Len(printed) + keys)
  BY <1>1 DEF InRange, Ranged
<1> QED
  BY <1>1, <1>2 DEF IInv, Drawn, Sized

\* A key is counted, and took the cursor down a row at most.
LEMMA KeyIsCounted ==
    ASSUME IInv, RowsCounted, NEW key, int21h_handler(key), InRange'
    PROVE  /\ InRange
           /\ cursor'.y <= CellH * (Len(printed') + keys')
<1> DEFINE count == Len(printed) + keys
<1>1. keys' = keys + 1 /\ printed' = printed /\ w' = w
  BY DEF int21h_handler, text
<1>2. Sized /\ w \in Nat /\ OnScreen(cursor) /\ count \in Nat /\ (InRange <=> Ranged(w, count))
  BY Countable
<1>3. Len(printed') + keys' = count + 1
  BY <1>1, Countable
<1>4. Ranged(w, count + 1)
  BY <1>1, <1>3 DEF InRange, Ranged
<1> HIDE DEF count
<1>5. Ranged(w, count)
  BY <1>2, <1>4, RangedBefore
<1>6. cursor.y <= CellH * count /\ cursor.y \in Nat
  BY <1>2, <1>5 DEF RowsCounted, count, OnScreen
<1>7. CellH * (count + 1) = CellH * count + CellH /\ CellH * count \in Nat
  BY <1>2, <1>5, RangedRows
<1>8. CellH * (count + 1) < Word
  BY <1>2, <1>4, RangedRows
<1> DEFINE rows == CellH * count
<1>9. cursor.y <= rows /\ rows \in Nat /\ rows + CellH < Word
  BY <1>6, <1>7, <1>8
<1> HIDE DEF rows
<1>10. CellH \in Nat /\ Word \in Nat \ {0} /\ 0 \in 0..(Word - 1) /\ 0 + CellW = CellW
  BY Sizes
<1>11. cursor.y + CellH < Word
  BY <1>6, <1>9, <1>10
<1>12. cursor'.y <= rows + CellH
  <2>1. CASE \E c : PrintChar(c)
    <3>1. PICK c : PrintChar(c)
      BY <2>1
    <3>2. CASE c # Backspace
      <4>1. cursor' = Advance(cursor, c, 0)
        BY <3>1, <3>2 DEF PrintChar
      <4>2. OnScreen(cursor')
        BY <1>2, <1>10, <4>1, AdvanceStaysOnScreen
      <4>3. cursor'.y <= cursor.y + CellH
        BY <1>2, <1>10, <1>11, <4>1, AdvanceGoesOn
      <4> DEFINE y == cursor'.y
      <4>4. y \in Nat /\ y <= cursor.y + CellH
        BY <4>2, <4>3 DEF OnScreen
      <4> HIDE DEF y
      <4>5. y <= rows + CellH
        BY <1>6, <1>9, <1>10, <4>4
      <4> QED
        BY <4>5 DEF y
    <3>3. CASE c = Backspace
      <4>1. cursor' = BackOne(cursor)
        BY <3>1, <3>3 DEF PrintChar
      <4>2. \A n \in Nat : n < Word => n % Word = n
        BY <1>10
      <4>3. cursor.y < Word
        BY <1>2, <1>10 DEF OnScreen
      <4>4. \A x : Place(x, cursor.y).y = cursor.y
        BY <1>6, <4>2, <4>3 DEF Place
      <4>5. cursor.y >= CellH => \A x : Place(x, cursor.y - CellH).y = cursor.y - CellH
        <5> SUFFICES ASSUME cursor.y >= CellH PROVE (cursor.y - CellH) % Word = cursor.y - CellH
          BY DEF Place
        <5>1. cursor.y - CellH \in Nat /\ cursor.y - CellH < Word
          BY <1>6, <1>10, <4>3
        <5> QED
          BY <4>2, <5>1
      <4>6. BackOne(cursor).y = cursor.y \/ (cursor.y >= CellH /\ BackOne(cursor).y = cursor.y - CellH)
        BY <4>4, <4>5 DEF BackOne
      <4>7. BackOne(cursor).y <= rows + CellH
        BY <1>6, <1>9, <1>10, <4>6
      <4> QED
        BY <4>1, <4>7
    <3> QED
      BY <3>2, <3>3
  <2>2. CASE UNCHANGED graphics
    <3>1. cursor' = cursor
      BY <2>2 DEF graphics
    <3>2. cursor.y <= rows + CellH
      BY <1>6, <1>9, <1>10
    <3> QED
      BY <3>1, <3>2
  <2> QED
    BY <2>1, <2>2 DEF int21h_handler
<1>13. CellH * (Len(printed') + keys') = rows + CellH
  BY <1>3, <1>7 DEF rows
<1> QED
  BY <1>2, <1>5, <1>12, <1>13

\* So is each character displayed.
LEMMA PrintIsCounted ==
    ASSUME IInv, RowsCounted, NtDisplayStringSyscall, InRange'
    PROVE  /\ InRange
           /\ cursor'.y <= CellH * (Len(printed') + keys')
           /\ cursor.y + CellH * Len(Head(todo).str) <= CellH * (Len(printed') + keys')
           /\ cursor.y + CellH * Len(Head(todo).str) < Word
           /\ Len(Head(todo).str) \in Nat
           /\ DOMAIN Head(todo).str = 1..Len(Head(todo).str)
<1> DEFINE str == Head(todo).str
           count == Len(printed) + keys
<1>1. /\ UNCHANGED <<w, keys>> /\ PrintOut(str) /\ printed' = printed \o str
      /\ todo # <<>> /\ Head(todo).does = "print"
  BY DEF NtDisplayStringSyscall, Next_is, keyboard, print
<1>2. /\ Sized /\ w \in Nat /\ OnScreen(cursor) /\ count \in Nat /\ (InRange <=> Ranged(w, count))
      /\ Len(printed) \in Nat /\ keys \in Nat
  BY Countable
<1>3. str \in Seq(Letters) /\ printed \in Seq(Letters)
  <2>1. Head(todo) \in Statements
    BY <1>1 DEF IInv, Lines
  <2> QED
    BY <1>1, <2>1 DEF Statements, IInv, Displayed
<1> HIDE DEF str
<1>4. Len(str) \in Nat /\ DOMAIN str = 1..Len(str) /\ Len(printed \o str) = Len(printed) + Len(str)
  BY <1>3
<1> DEFINE n == Len(str)
<1>5. Len(printed') + keys' = count + n /\ n \in Nat
  BY <1>1, <1>2, <1>4
<1>6. Ranged(w, count + n)
  BY <1>1, <1>5 DEF InRange, Ranged
<1> HIDE DEF count, n
<1>7. Ranged(w, count)
  BY <1>2, <1>5, <1>6, RangedBefore
<1>8. cursor.y <= CellH * count /\ cursor.y \in Nat
  BY <1>2, <1>7 DEF RowsCounted, count, OnScreen
<1>9. /\ CellH * (count + n) = CellH * count + CellH * n
      /\ CellH * count \in Nat /\ CellH * n \in Nat
  BY <1>2, <1>5, RowsOfMore
<1>10. CellH * (count + n) < Word
  BY <1>2, <1>5, <1>6, RangedRows
<1> DEFINE rows == CellH * count
           more == CellH * n
<1>11. /\ cursor.y <= rows /\ rows \in Nat /\ more \in Nat /\ rows + more < Word
       /\ CellH * (count + n) = rows + more
  BY <1>8, <1>9, <1>10
<1>12. CellH * Len(str) = more
  BY DEF n
<1> HIDE DEF rows, more
<1>13. Word \in Nat \ {0} /\ 0 \in 0..(Word - 1) /\ 0 + CellW = CellW
  BY Sizes
<1>14. cursor.y + more <= rows + more /\ cursor.y + more < Word
  BY <1>8, <1>11, <1>13
<1>15. cursor'.y <= cursor.y + more
  <2>1. cursor' = PrintCursor(str, cursor)
    BY <1>1 DEF PrintOut
  <2>2. cursor' = Places(str, cursor, 0)[Len(str) + 1]
    BY <1>2, <1>4, <2>1, PrintCursorIsLast
  <2>3. Places(str, cursor, 0)[Len(str) + 1].y <= cursor.y + CellH * ((Len(str) + 1) - 1)
    <3>1. cursor.y + CellH * Len(str) < Word /\ Len(str) + 1 \in 1..(Len(str) + 1)
      BY <1>4, <1>12, <1>14
    <3> QED
      BY <1>2, <1>4, <1>13, <3>1, PlacesClimb
  <2>4. (Len(str) + 1) - 1 = Len(str)
    BY <1>4
  <2> QED
    BY <1>12, <2>2, <2>3, <2>4
<1>16. OnScreen(cursor')
  <2>1. cursor' = Places(str, cursor, 0)[Len(str) + 1]
    BY <1>1, <1>2, <1>4, PrintCursorIsLast DEF PrintOut
  <2>2. Len(str) + 1 \in 1..(Len(str) + 1)
    BY <1>4
  <2> QED
    BY <1>2, <1>4, <1>13, <2>1, <2>2, PlacesAreOnScreen
<1> DEFINE y == cursor'.y
<1>17. y \in Nat /\ y <= cursor.y + more
  BY <1>15, <1>16 DEF OnScreen
<1> HIDE DEF y
<1>18. y <= rows + more
  BY <1>8, <1>11, <1>14, <1>17
<1>19. CellH * (Len(printed') + keys') = rows + more
  BY <1>5, <1>11
<1>20. cursor'.y <= CellH * (Len(printed') + keys')
  BY <1>18, <1>19 DEF y
<1>21. /\ cursor.y + CellH * Len(str) <= CellH * (Len(printed') + keys')
       /\ cursor.y + CellH * Len(str) < Word
  BY <1>12, <1>14, <1>19
<1> QED
  BY <1>2, <1>4, <1>7, <1>20, <1>21 DEF str

\* Nothing else needs a row.
LEMMA OthersAreCounted ==
    ASSUME IInv, RowsCounted, InRange',
           KiUserInit_poll \/ ClearBuffer \/ FillRectangle \/ ResetX \/ ResetY \/ ResetExec
             \/ UNCHANGED vars
    PROVE  /\ InRange
           /\ cursor'.y <= CellH * (Len(printed') + keys')
<1>1. /\ UNCHANGED <<w, printed, keys>>
      /\ cursor' \in {cursor, [cursor EXCEPT !.x = 0], [cursor EXCEPT !.y = 0]}
  BY DEF KiUserInit_poll, ClearBuffer, FillRectangle, ResetX, ResetY, ResetExec, keyboard,
         graphics, text, vars
<1>2. InRange
  BY <1>1 DEF InRange
<1>3. cursor.y <= CellH * (Len(printed) + keys)
  BY <1>2 DEF RowsCounted
<1>4. CellH * (Len(printed) + keys) \in Nat /\ OnScreen(cursor)
  BY <1>2, Countable, RangedRows
<1>5. cursor'.y = cursor.y \/ cursor'.y = 0
  BY <1>1, <1>4 DEF OnScreen
<1> DEFINE rows == CellH * (Len(printed) + keys)
<1>6. rows \in Nat /\ cursor.y <= rows
  BY <1>3, <1>4
<1>7. CellH * (Len(printed') + keys') = rows
  BY <1>1
<1> HIDE DEF rows
<1>8. cursor'.y <= rows
  BY <1>5, <1>6
<1> QED
  BY <1>2, <1>7, <1>8

\* Every step keeps the count.
LEMMA RowsStayCounted ==
    ASSUME IInv, RowsCounted, [Next]_vars
    PROVE  RowsCounted' /\ (InRange' => InRange)
<1>0. skewed' \in BOOLEAN
  BY DEF RowsCounted, Next, int21h_handler, KiUserInit_poll, NtDisplayStringSyscall, PrintOut,
         ClearBuffer, FillRectangle, ResetX, ResetY, ResetExec, vars
<1>1. keys' \in Nat /\ rushed' \in Nat
  BY DEF RowsCounted, Next, int21h_handler, KiUserInit_poll, NtDisplayStringSyscall, ClearBuffer,
         FillRectangle, ResetX, ResetY, ResetExec, keyboard, vars
<1>2. ASSUME InRange' PROVE InRange /\ cursor'.y <= CellH * (Len(printed') + keys')
  BY <1>2, KeyIsCounted, PrintIsCounted, OthersAreCounted DEF Next
<1> QED
  BY <1>0, <1>1, <1>2 DEF RowsCounted

-----------------------------------------------------------------------------
(* Print draws straight *)

\* A string of one row is drawn where a string is whose rows begin at column 0.
LEMMA OneRowIsStraight ==
    ASSUME Sized, OnScreen(cursor), NEW str, Len(str) \in Nat, cursor.y + CellH * Len(str) < Word,
           NEW i \in 1..Len(str), Places(str, cursor, cursor.x)[i].y = cursor.y
    PROVE  Places(str, cursor, cursor.x)[i] = Places(str, cursor, 0)[i]
<1> DEFINE P == Places(str, cursor, cursor.x)
           Q == Places(str, cursor, 0)
           n == Len(str)
           S == {k \in 1..i : P[k] = Q[k]}
<1>1. /\ 0 \in 0..(Word - 1) /\ 0 + CellW = CellW /\ n \in Nat
      /\ cursor.x \in 0..(Word - 1)
      /\ w >= CellW => cursor.x + CellW <= w
  <2>1. cursor \in [x : 0..(Word - 1), y : 0..(Word - 1)] /\ (w >= CellW => cursor.x + CellW <= w)
    BY DEF OnScreen
  <2>2. 0 \in 0..(Word - 1) /\ 0 + CellW = CellW
    BY Sizes
  <2> QED
    BY <2>1, <2>2
<1>2. /\ P[1] = cursor /\ \A k \in 1..(n + 1) : OnScreen(P[k])
      /\ \A k \in 1..n : P[k + 1] = Advance(P[k], str[k], cursor.x)
  BY <1>1, PlacesAreOnScreen DEF OnScreen
<1>3. Q[1] = cursor /\ \A k \in 1..n : Q[k + 1] = Advance(Q[k], str[k], 0)
  BY PlacesFromTheEdge
<1>4. /\ \A k \in 1..n : P[k].y + CellH < Word
      /\ \A j, k \in 1..(n + 1) : j < k => Before(P[j], P[k])
  BY <1>1, PlacesClimb DEF OnScreen
<1>5. P[i].y = cursor.y
  OBVIOUS
<1> HIDE DEF P, Q, n
<1>6. i \in 1..n /\ i \in Nat
  BY <1>1 DEF n
<1>7. \A k \in 1..(n + 1) : P[k].y \in Nat
  BY <1>2 DEF OnScreen
<1>8. \A j, k \in 1..(n + 1) : j <= k => P[j].y <= P[k].y
  <2> SUFFICES ASSUME NEW j \in 1..(n + 1), NEW k \in 1..(n + 1), j <= k PROVE P[j].y <= P[k].y
    OBVIOUS
  <2>1. j = k \/ Before(P[j], P[k])
    BY <1>1, <1>4
  <2>2. P[j].y \in Nat /\ P[k].y \in Nat
    BY <1>7
  <2> QED
    BY <2>1, <2>2 DEF Before
<1>9. 1 \in S
  BY <1>2, <1>3, <1>6
<1>10. ASSUME NEW k \in 1..(i - 1), k \in S PROVE k + 1 \in S
  <2>1. k \in 1..n /\ k + 1 \in 1..i /\ 1 \in 1..(n + 1) /\ k \in 1..(n + 1)
        /\ k + 1 \in 1..(n + 1) /\ i \in 1..(n + 1) /\ 1 <= k /\ k <= k + 1 /\ k + 1 <= i
    BY <1>1, <1>6
  <2>2. P[1].y <= P[k].y /\ P[k].y <= P[k + 1].y /\ P[k + 1].y <= P[i].y
    BY <1>8, <2>1
  <2>3. P[k].y \in Nat /\ P[k + 1].y \in Nat /\ P[i].y \in Nat /\ P[1].y \in Nat
    BY <1>7, <2>1
  <2>4. P[k + 1].y = P[k].y
    BY <1>2, <1>5, <2>2, <2>3
  <2>5. P[k + 1] = Advance(P[k], str[k], cursor.x) /\ OnScreen(P[k]) /\ P[k].y + CellH < Word
    BY <1>2, <1>4, <2>1
  <2>6. Advance(P[k], str[k], cursor.x) = Advance(P[k], str[k], 0)
    BY <1>1, <2>4, <2>5, AdvanceGoesOn
  <2>7. P[k] = Q[k] /\ Q[k + 1] = Advance(Q[k], str[k], 0)
    BY <1>3, <1>10, <2>1
  <2> QED
    BY <2>1, <2>5, <2>6, <2>7
<1>11. 1..i \subseteq S
  <2>1. 1 \in Int /\ i \in Int
    BY <1>6
  <2> HIDE DEF S
  <2> QED
    BY <1>9, <1>10, <2>1, AllAlong
<1> QED
  BY <1>6, <1>11 DEF P, Q

\* Print draws where PrintChar would, and nothing at or behind the cursor, when it
\* begins at column 0 or stays in its row.
LEMMA PrintDrawsStraight ==
    ASSUME Sized, OnScreen(cursor), NEW str, Len(str) \in Nat, DOMAIN str = 1..Len(str),
           cursor.y + CellH * Len(str) < Word, PrintOut(str), skewed \in BOOLEAN,
           \/ cursor.x = 0
           \/ \A i \in DOMAIN str :
                 str[i] # Newline => Places(str, cursor, cursor.x)[i].y = cursor.y
    PROVE  /\ cursor' = Last(Places(str, cursor, 0))
           /\ RenderString(str, cursor) = DrawnString(str, Places(str, cursor, 0))
           /\ skewed' = skewed
<1> DEFINE P == Places(str, cursor, cursor.x)
           Q == Places(str, cursor, 0)
           n == Len(str)
           shown == {j \in DOMAIN str : str[j] # Newline}
           visible == {P[i] : i \in shown}
           end == PrintCursor(str, cursor)
<1>1. /\ 0 \in 0..(Word - 1) /\ 0 + CellW = CellW /\ n \in Nat
  BY Sizes
<1>2. \A i \in shown : P[i] = Q[i]
  BY OneRowIsStraight
<1>3. end = Q[n + 1] /\ cursor' = end
  BY PrintCursorIsLast DEF PrintOut
<1>4. \A j, k \in 1..(n + 1) : j < k => Before(Q[j], Q[k])
  BY <1>1, PlacesClimb
<1>5. \A k \in 1..(n + 1) : OnScreen(Q[k])
  BY <1>1, PlacesAreOnScreen
<1>6. cursor' = Last(Q)
  BY <1>3 DEF PrintCursor
<1>7. RenderString(str, cursor) = UNION {RenderChar(P[i], str[i]) : i \in shown}
  BY DEF RenderString, DrawnString
<1>8. DrawnString(str, Q) = UNION {RenderChar(Q[i], str[i]) : i \in shown}
  BY DEF DrawnString
<1>9. skewed' = (skewed \/ \E p \in visible : NotBefore(p, end))
  BY DEF PrintOut
<1>10. \A i \in shown : i \in 1..n
  OBVIOUS
<1> HIDE DEF P, Q, n, shown, end
<1>11. RenderString(str, cursor) = DrawnString(str, Q)
  BY <1>2, <1>7, <1>8
<1>12. ASSUME NEW i \in shown PROVE ~ NotBefore(P[i], end)
  <2>1. i \in 1..(n + 1) /\ n + 1 \in 1..(n + 1) /\ i < n + 1
    BY <1>1, <1>10
  <2>2. Before(Q[i], end) /\ OnScreen(Q[i]) /\ OnScreen(end)
    BY <1>3, <1>4, <1>5, <2>1
  <2>3. Q[i].x \in Nat /\ Q[i].y \in Nat /\ end.x \in Nat /\ end.y \in Nat
    BY <2>2 DEF OnScreen
  <2> QED
    BY <1>2, <2>2, <2>3 DEF Before, NotBefore
<1>13. ~ \E p \in visible : NotBefore(p, end)
  BY <1>12
<1> HIDE DEF visible
<1>14. skewed' = skewed
  BY <1>9, <1>13, Zenon
<1> QED
  BY <1>6, <1>11, <1>14 DEF Q

\* Only what the kernel displayed is counted yet.
LEMMA InitIsCounted == Init => RowsCounted
<1> SUFFICES ASSUME Init PROVE RowsCounted
  OBVIOUS
<1>1. CellH \in Nat /\ Word \in Nat \ {0}
  BY Sizes
<1>2. cursor.y = 0
  <2>1. 0 % Word = 0
    BY <1>1
  <2> QED
    BY <2>1 DEF Init, Place
<1>3. Len(printed) + keys \in Nat
  <2>1. Len(BootText) \in Nat
    BY StringsAreText
  <2> QED
    BY <2>1 DEF Init
<1>4. CellH * (Len(printed) + keys) \in Nat
  BY <1>1, <1>3, SMTT(30)
<1>5. cursor.y <= CellH * (Len(printed) + keys)
  BY <1>2, <1>4
<1> QED
  BY <1>5 DEF Init, RowsCounted

\* The rows are counted in every state.
LEMMA RowsAreCounted == Spec => [](IInv /\ RowsCounted)
<1>1. Init => IInv /\ RowsCounted
  BY InitHolds, InitIsCounted
<1>2. IInv /\ RowsCounted /\ [Next]_vars => (IInv /\ RowsCounted)'
  BY NextKeeps, RowsStayCounted
<1> QED
  BY <1>1, <1>2, PTL DEF Spec

\* As long as rows and indices are in range, for every screen and every string: Print
\* draws where PrintChar would, and leaves the cursor there, when it begins at column 0
\* or stays in its row.
THEOREM ConsolePrintsStraight == Spec /\ []InRange => PrintIsStraight
<1>1. IInv /\ RowsCounted /\ InRange' /\ [Next]_vars =>
      [ LET str == Head(todo).str
            typed == Places(str, cursor, 0)
            drawn == DrawnString(str, typed)
            oneRow == \A i \in DOMAIN str :
                         str[i] # Newline => Places(str, cursor, cursor.x)[i].y = cursor.y
        IN  Next_is("print") /\ (cursor.x = 0 \/ oneRow) =>
              /\ cursor' = Last(typed)
              /\ buffer' = [a \in DOMAIN buffer |->
                              buffer[a] \cup {d.mark : d \in {e \in drawn : e.pixel = a}}]
              /\ skewed' = skewed
      ]_vars
  <2> DEFINE str == Head(todo).str
             typed == Places(str, cursor, 0)
             drawn == DrawnString(str, typed)
             oneRow == \A i \in DOMAIN str :
                          str[i] # Newline => Places(str, cursor, cursor.x)[i].y = cursor.y
  <2> SUFFICES ASSUME IInv, RowsCounted, InRange', [Next]_vars, Next_is("print"),
                      cursor.x = 0 \/ oneRow
               PROVE  /\ cursor' = Last(typed)
                      /\ buffer' = [a \in DOMAIN buffer |->
                              buffer[a] \cup {d.mark : d \in {e \in drawn : e.pixel = a}}]
                      /\ skewed' = skewed
    BY Zenon
  <2>1. NtDisplayStringSyscall
    <3>1. todo # <<>> /\ Head(todo).does = "print" /\ todo' = Tail(todo) /\ todo \in Seq(Statements)
      BY DEF Next_is, IInv, Lines
    <3>2. Len(Tail(todo)) = Len(todo) - 1 /\ Len(todo) \in Nat
      BY <3>1
    <3>3. todo' # todo
      <4>1. Tail(todo) # todo
        BY <3>2
      <4> QED
        BY <3>1, <4>1
    <3> QED
      BY <3>1, <3>3 DEF Next, vars, int21h_handler, KiUserInit_poll, ClearBuffer, FillRectangle,
                        ResetX, ResetY, ResetExec, Next_is
  <2>2. PrintOut(str)
    BY <2>1 DEF NtDisplayStringSyscall
  <2>3. /\ Len(str) \in Nat /\ DOMAIN str = 1..Len(str) /\ cursor.y + CellH * Len(str) < Word
        /\ Sized /\ OnScreen(cursor) /\ skewed \in BOOLEAN
    BY <2>1, PrintIsCounted, Countable DEF RowsCounted
  <2>4. cursor' = Last(typed) /\ RenderString(str, cursor) = drawn /\ skewed' = skewed
    <3> HIDE DEF str
    <3> QED
      BY <2>2, <2>3, PrintDrawsStraight
  <2>5. buffer' = [a \in DOMAIN buffer |->
                     buffer[a] \cup {d.mark : d \in {e \in drawn : e.pixel = a}}]
    BY <2>2, <2>4 DEF PrintOut, Draw
  <2> QED
    BY <2>4, <2>5
<1> QED
  BY <1>1, RowsAreCounted, PTL DEF Spec, PrintIsStraight

-----------------------------------------------------------------------------
(* The line being typed *)

\* The user waited for the prompt, and what the screen shows can be told.
Clean == /\ InRange /\ setup.font /\ rushed = 0 /\ ~ bent /\ ~ skewed
         /\ w >= CellW /\ w % CellW = 0

\* Nothing is drawn.
Empty(buf) == \A a \in DOMAIN buf : buf[a] = {}

\* The shell waits: the line is where it was typed, and nothing behind it.
Typing == /\ Idle
          /\ Line(w, buffer, input_buffer, start, cursor)
          /\ Fresh(w, buffer, cursor)

\* A line was entered.
Entered == todo = <<>> /\ exec = 1 /\ Fresh(w, buffer, cursor)

\* What the shell has left to do is to display, the prompt last.
Printing(list) == /\ list # <<>> /\ list[Len(list)].does = "print"
                  /\ \A i \in 1..Len(list) : list[i].does \in {"print", "exec"}

Displaying == Printing(todo) /\ Fresh(w, buffer, cursor)

\* It is clearing the screen, at boot or for cls; the columns before the next are black.
Starting == <<Show(Banner), Show(Prompt)>>
Restarting == <<Does("x"), Does("y"), Does("exec"), Show(Prompt)>>

Clearing == \E k \in 1..(w + 1), rest \in {Starting, Restarting} :
               /\ todo = SubSeq(Cleared, k, w + 1) \o rest
               /\ \A a \in DOMAIN buffer : (a % w) + 2 < k => buffer[a] = {}

\* It has cleared the screen and moves the cursor to the top.
Resetting == todo \in {Restarting, Tail(Restarting)} /\ Empty(buffer)

Showing == /\ Cell(w, cursor)
           /\ \/ Typing
              \/ input_buffer = <<>> /\ (Entered \/ Displaying \/ Clearing \/ Resetting)

\* Two lists, one behind the other.
LEMMA ListsJoined ==
    ASSUME NEW S, NEW s \in Seq(S), NEW t \in Seq(S)
    PROVE  /\ s \o t \in Seq(S) /\ Len(s \o t) = Len(s) + Len(t)
           /\ \A i \in 1..Len(s) : (s \o t)[i] = s[i]
           /\ \A i \in 1..Len(t) : (s \o t)[Len(s) + i] = t[i]
<1>1. Len(s) \in Nat /\ Len(t) \in Nat
  OBVIOUS
<1>2. s \o t \in Seq(S) /\ Len(s \o t) = Len(s) + Len(t)
  OBVIOUS
<1>3. \A i \in 1..Len(s) : (s \o t)[i] = s[i]
  BY <1>1
<1>4. ASSUME NEW i \in 1..Len(t) PROVE (s \o t)[Len(s) + i] = t[i]
  <2>1. Len(s) + i \in 1..(Len(s) + Len(t)) /\ ~ Len(s) + i <= Len(s) /\ (Len(s) + i) - Len(s) = i
    BY <1>1
  <2> QED
    BY <2>1
<1> QED
  BY <1>2, <1>3, <1>4

\* The statements behind the next one of a list and of another list.
LEMMA ListGoesOn ==
    ASSUME NEW S, NEW s \in Seq(S), NEW rest \in Seq(S), NEW k \in 1..Len(s)
    PROVE  LET list == SubSeq(s, k, Len(s)) \o rest
           IN  /\ list # <<>> /\ Head(list) = s[k]
               /\ Tail(list) = IF k = Len(s) THEN rest ELSE SubSeq(s, k + 1, Len(s)) \o rest
<1> DEFINE n == Len(s)
           part == SubSeq(s, k, n)
           list == part \o rest
           more == SubSeq(s, k + 1, n)
<1>1. n \in Nat /\ k \in Nat /\ 1 <= k /\ k <= n /\ Len(rest) \in Nat
  OBVIOUS
<1>2. part \in Seq(S) /\ Len(part) = n + 1 - k /\ \A i \in 1..(n + 1 - k) : part[i] = s[k + i - 1]
  OBVIOUS
<1>3. more \in Seq(S) /\ Len(more) = n - k /\ \A i \in 1..(n - k) : more[i] = s[k + i]
  BY <1>1
<1> HIDE DEF part, more, n
<1>4. /\ list \in Seq(S) /\ Len(list) = Len(part) + Len(rest)
      /\ \A i \in 1..Len(part) : list[i] = part[i]
      /\ \A i \in 1..Len(rest) : list[Len(part) + i] = rest[i]
  <2>0. part \in Seq(S) /\ rest \in Seq(S)
    BY <1>2
  <2>1. list \in Seq(S) /\ Len(list) = Len(part) + Len(rest)
    BY <2>0, ListsJoined
  <2>2. \A i \in 1..Len(part) : list[i] = part[i]
    BY <2>0, ListsJoined
  <2>3. \A i \in 1..Len(rest) : list[Len(part) + i] = rest[i]
    BY <2>0, ListsJoined
  <2> QED
    BY <2>1, <2>2, <2>3
<1> HIDE DEF list
<1>5. Len(list) > 0 /\ list # <<>> /\ Head(list) = list[1] /\ list[1] = part[1] /\ part[1] = s[k]
  BY <1>1, <1>2, <1>4
<1>6. /\ Tail(list) \in Seq(S) /\ Len(Tail(list)) = Len(list) - 1
      /\ \A i \in 1..(Len(list) - 1) : Tail(list)[i] = list[i + 1]
  BY <1>4, <1>5
<1>7. Len(list) = n + 1 - k + Len(rest)
  BY <1>2, <1>4
<1>8. CASE k = n
  <2>1. Len(Tail(list)) = Len(rest) /\ Len(part) = 1
    BY <1>1, <1>2, <1>6, <1>7, <1>8
  <2>2. \A i \in 1..Len(rest) : Tail(list)[i] = rest[i]
    <3> SUFFICES ASSUME NEW i \in 1..Len(rest) PROVE Tail(list)[i] = rest[i]
      OBVIOUS
    <3>1. i \in 1..(Len(list) - 1) /\ i + 1 = 1 + i
      BY <1>1, <1>6, <2>1
    <3> QED
      BY <1>4, <1>6, <2>1, <3>1
  <2>3. Tail(list) = rest
    BY <1>6, <2>1, <2>2
  <2> QED
    BY <1>5, <1>8, <2>3 DEF list, part, n
<1>9. CASE k # n
  <2> DEFINE then == more \o rest
  <2>1. /\ then \in Seq(S) /\ Len(then) = n - k + Len(rest)
        /\ \A i \in 1..(n - k) : then[i] = more[i]
        /\ \A i \in 1..Len(rest) : then[(n - k) + i] = rest[i]
    <3>0. more \in Seq(S) /\ Len(more) = n - k
      BY <1>3
    <3>1. then \in Seq(S) /\ Len(then) = Len(more) + Len(rest)
      BY <3>0, ListsJoined
    <3>2. \A i \in 1..Len(more) : then[i] = more[i]
      BY <3>0, ListsJoined
    <3>3. \A i \in 1..Len(rest) : then[Len(more) + i] = rest[i]
      BY <3>0, ListsJoined
    <3> HIDE DEF then
    <3> QED
      BY <3>0, <3>1, <3>2, <3>3
  <2> HIDE DEF then
  <2>2. Len(Tail(list)) = Len(then)
    BY <1>1, <1>6, <1>7, <2>1
  <2>3. ASSUME NEW i \in 1..Len(then) PROVE Tail(list)[i] = then[i]
    <3>1. i \in 1..(Len(list) - 1)
      BY <1>1, <1>7, <2>1
    <3>2. Tail(list)[i] = list[i + 1]
      BY <1>6, <3>1
    <3>3. CASE i <= n - k
      <4>1. i + 1 \in 1..Len(part) /\ i \in 1..(n - k) /\ i + 1 \in 1..(n + 1 - k) /\ k + (i + 1) - 1 = k + i
        BY <1>1, <1>2, <3>3
      <4>2. list[i + 1] = s[k + i]
        BY <1>2, <1>4, <4>1
      <4>3. then[i] = s[k + i]
        BY <1>3, <2>1, <4>1
      <4> QED
        BY <3>2, <4>2, <4>3
    <3>4. CASE ~ i <= n - k
      <4> DEFINE j == i - (n - k)
      <4>1. j \in 1..Len(rest) /\ i + 1 = Len(part) + j /\ i = (n - k) + j
        BY <1>1, <1>2, <2>1, <3>4
      <4> HIDE DEF j
      <4> QED
        BY <1>4, <2>1, <3>2, <4>1
    <3> QED
      BY <3>3, <3>4
  <2>4. Tail(list) = then
    BY <1>6, <2>1, <2>2, <2>3
  <2> QED
    BY <1>5, <1>9, <2>4 DEF list, part, n, then, more
<1> QED
  BY <1>8, <1>9

\* The statements that clear the screen.
LEMMA ClearedList ==
    ASSUME Sized
    PROVE  /\ w + 1 \in Nat /\ Cleared \in Seq(Statements) /\ Len(Cleared) = w + 1
           /\ Cleared[1] = Does("memset")
           /\ \A k \in 2..(w + 1) : Cleared[k] = Fill(k - 2)
<1> DEFINE fills == [i \in 1..w |-> Fill(i - 1)]
<1>1. w \in Nat
  BY DEF Sized
<1>2. \A i \in 1..w : Fill(i - 1) \in Statements
  BY <1>1 DEF Fill, Statements
<1>3. fills \in Seq(Statements) /\ Len(fills) = w /\ \A i \in 1..w : fills[i] = Fill(i - 1)
  BY <1>1, <1>2
<1>4. Does("memset") \in Statements
  BY DEF Does, Statements
<1>5. Cleared = <<Does("memset")>> \o fills
  BY DEF Cleared
<1> HIDE DEF fills, Statements, Does, Fill, Cleared
<1>6. Cleared \in Seq(Statements) /\ Len(Cleared) = w + 1 /\ Cleared[1] = Does("memset")
  BY <1>1, <1>3, <1>4, <1>5
<1>7. ASSUME NEW k \in 2..(w + 1) PROVE Cleared[k] = Fill(k - 2)
  <2>1. k - 1 \in 1..w /\ (k - 1) - 1 = k - 2 /\ k = 1 + (k - 1)
    BY <1>1
  <2>2. Cleared[k] = fills[k - 1]
    BY <1>1, <1>3, <1>4, <1>5, <2>1
  <2> QED
    BY <1>3, <2>1, <2>2
<1> QED
  BY <1>1, <1>6, <1>7

\* So are the shell's statements behind them.
LEMMA EndingsAreStatements ==
    /\ Starting \in Seq(Statements) /\ Restarting \in Seq(Statements)
    /\ {Show(Banner), Show(Prompt), Does("x"), Does("y"), Does("exec")} \subseteq Statements
<1>1. {Show(Banner), Show(Prompt)} \subseteq Statements
  BY StringsAreText, ShowIsStatement
<1>2. {Does("x"), Does("y"), Does("exec")} \subseteq Statements
  BY DEF Does, Statements
<1> HIDE DEF Statements, Does, Show
<1>3. Starting \in Seq(Statements) /\ Restarting \in Seq(Statements)
  BY <1>1, <1>2 DEF Starting, Restarting
<1> QED
  BY <1>1, <1>2, <1>3

-----------------------------------------------------------------------------
(* Each step shows the line, or is on the way to *)

\* What the screen is, as long as it is clean.
LEMMA CleanScreen ==
    ASSUME IInv, RowsCounted, Clean
    PROVE  /\ Sized /\ w \in Nat /\ Grid(w) /\ Pixels(buffer)
           /\ cursor.y <= CellH * (Len(printed) + keys)
           /\ Cell(w, cursor) => Indexed(w, cursor)
<1> DEFINE count == Len(printed) + keys
<1>1. Sized /\ w \in Nat /\ count \in Nat /\ Ranged(w, count) /\ OnScreen(cursor)
  BY Countable DEF Clean
<1>2. cursor.y <= CellH * count /\ cursor.y \in Nat
  BY <1>1 DEF Clean, RowsCounted, OnScreen
<1>3. Multiple(w, CellW)
  <2>1. CellW \in Nat \ {0} /\ w % CellW = 0
    BY ConsoleAssumption DEF Clean
  <2>2. w \div CellW \in Nat /\ w = CellW * (w \div CellW) + (w % CellW)
    BY <1>1, <2>1, SMTT(30)
  <2> DEFINE k == w \div CellW
  <2>3. k \in Nat /\ w = CellW * k
    <3>1. CellW * k \in Nat
      BY <2>1, <2>2, SMTT(30)
    <3> HIDE DEF k
    <3> QED
      BY <2>1, <2>2, <3>1 DEF k
  <2> HIDE DEF k
  <2>4. CellW * k = k * CellW
    BY <2>1, <2>3, SMTT(30)
  <2> QED
    BY <2>3, <2>4 DEF Multiple
<1>4. Grid(w)
  BY <1>1, <1>3 DEF Grid, Sized, Clean
<1>5. Pixels(buffer)
  BY DEF IInv, Drawn, Pixels
<1>6. Indexed(w, cursor)
  BY <1>1, <1>2, RangedRows DEF Indexed
<1> QED
  BY <1>1, <1>2, <1>4, <1>5, <1>6

\* A screen that is clean was.
LEMMA CleanBefore == ASSUME IInv, RowsCounted, [Next]_vars, Clean' PROVE Clean
<1>1. InRange
  BY RowsStayCounted DEF Clean
<1>2. UNCHANGED <<w, setup>>
  BY DEF Next, vars, int21h_handler, KiUserInit_poll, NtDisplayStringSyscall, ClearBuffer,
         FillRectangle, ResetX, ResetY, ResetExec
<1>3. rushed = 0
  <2>1. rushed' = rushed \/ rushed' = rushed + 1
    BY DEF Next, vars, int21h_handler, KiUserInit_poll, NtDisplayStringSyscall, ClearBuffer,
           FillRectangle, ResetX, ResetY, ResetExec, keyboard
  <2>2. rushed' = 0 /\ rushed \in Nat
    BY DEF Clean, RowsCounted
  <2> QED
    BY <2>1, <2>2
<1>4. bent => bent'
  BY DEF Next, vars, int21h_handler, KiUserInit_poll, NtDisplayStringSyscall, ClearBuffer,
         FillRectangle, ResetX, ResetY, ResetExec, keyboard
<1>5. skewed => skewed'
  BY DEF Next, vars, int21h_handler, KiUserInit_poll, NtDisplayStringSyscall, PrintOut, ClearBuffer,
         FillRectangle, ResetX, ResetY, ResetExec
<1> QED
  BY <1>1, <1>2, <1>3, <1>4, <1>5 DEF Clean

\* What the shell does next while it is clearing the screen.
LEMMA ClearingGoesOn ==
    ASSUME Sized, NEW k \in 1..(w + 1), NEW rest \in {Starting, Restarting},
           todo = SubSeq(Cleared, k, w + 1) \o rest
    PROVE  /\ todo # <<>> /\ Head(todo) = Cleared[k]
           /\ Tail(todo) = IF k = w + 1 THEN rest ELSE SubSeq(Cleared, k + 1, w + 1) \o rest
<1>1. Cleared \in Seq(Statements) /\ Len(Cleared) = w + 1 /\ rest \in Seq(Statements)
  BY ClearedList, EndingsAreStatements
<1> HIDE DEF Cleared, Statements
<1>2. k \in 1..Len(Cleared)
  BY <1>1
<1>3. LET list == SubSeq(Cleared, k, Len(Cleared)) \o rest
      IN  /\ list # <<>> /\ Head(list) = Cleared[k]
          /\ Tail(list) = IF k = Len(Cleared) THEN rest
                          ELSE SubSeq(Cleared, k + 1, Len(Cleared)) \o rest
  BY <1>1, <1>2, ListGoesOn
<1> QED
  BY <1>1, <1>3

\* The next statement tells what the shell is at.
LEMMA NextTells ==
    ASSUME IInv, Showing
    PROVE  /\ Idle => Typing
           /\ todo = <<>> /\ exec = 1 => Entered /\ input_buffer = <<>>
           /\ todo # <<>> => /\ input_buffer = <<>>
                             /\ Head(todo).does \in {"print", "exec"} => Displaying
                             /\ Head(todo).does \in {"memset", "fill"} => Clearing
                             /\ Head(todo).does \in {"x", "y"} => Resetting
<1>1. Typing => Idle
  BY DEF Typing
<1>2. Entered => todo = <<>> /\ exec = 1
  BY DEF Entered
<1>3. Displaying => todo # <<>> /\ Head(todo).does \in {"print", "exec"}
  <2> SUFFICES ASSUME Displaying PROVE todo # <<>> /\ Head(todo).does \in {"print", "exec"}
    OBVIOUS
  <2>1. todo \in Seq(Statements) /\ todo # <<>>
    BY DEF IInv, Lines, Displaying, Printing
  <2> HIDE DEF Statements
  <2>2. 1 \in 1..Len(todo) /\ Head(todo) = todo[1]
    BY <2>1
  <2> QED
    BY <2>1, <2>2 DEF Displaying, Printing
<1>4. Clearing => todo # <<>> /\ Head(todo).does \in {"memset", "fill"}
  <2> SUFFICES ASSUME Clearing PROVE todo # <<>> /\ Head(todo).does \in {"memset", "fill"}
    OBVIOUS
  <2>1. Sized
    BY DEF IInv, Drawn
  <2>2. PICK k \in 1..(w + 1), rest \in {Starting, Restarting} :
           todo = SubSeq(Cleared, k, w + 1) \o rest
    BY DEF Clearing
  <2>3. todo # <<>> /\ Head(todo) = Cleared[k]
    BY <2>1, <2>2, ClearingGoesOn
  <2>4. k = 1 \/ k \in 2..(w + 1)
    BY <2>1, ClearedList
  <2>5. Cleared[k] = Does("memset") \/ Cleared[k] = Fill(k - 2)
    BY <2>1, <2>4, ClearedList
  <2> QED
    BY <2>3, <2>5 DEF Does, Fill
<1>5. Resetting => todo # <<>> /\ Head(todo).does \in {"x", "y"}
  BY DEF Resetting, Restarting, Does
<1>6. Idle => todo = <<>> /\ exec = 0
  BY DEF Idle
<1> QED
  BY <1>1, <1>2, <1>3, <1>4, <1>5, <1>6 DEF Showing

\* When the system starts the shell is about to clear the screen.
LEMMA InitShows == Init => (Clean => Showing)
<1> SUFFICES ASSUME Init, Clean PROVE Showing
  OBVIOUS
<1>1. IInv /\ RowsCounted
  BY InitHolds, InitIsCounted
<1>2. Sized /\ Grid(w) /\ w \in Nat
  BY <1>1, CleanScreen
<1>3. {CellW, CellH, Word} \subseteq Nat \ {0}
  BY Sizes
<1>4. Cell(w, cursor)
  <2>1. 0 % Word = 0 /\ 0 \in 0..(Word - 1)
    BY <1>3
  <2>2. cursor = [x |-> 0, y |-> 0]
    BY <2>1 DEF Init, Place
  <2>3. 0 + CellW <= w
    BY <1>2, <1>3 DEF Grid
  <2>4. Multiple(0, CellW) /\ Multiple(0, CellH)
    BY <1>3, Steps
  <2> QED
    BY <2>1, <2>2, <2>3, <2>4 DEF Cell
<1>5. Clearing
  <2>1. todo = Cleared \o Starting
    BY DEF Init, Opening, Starting
  <2>2. Cleared \in Seq(Statements) /\ Len(Cleared) = w + 1
    BY <1>2, ClearedList
  <2> HIDE DEF Cleared, Statements
  <2>3. SubSeq(Cleared, 1, w + 1) = Cleared
    BY <1>2, <2>2
  <2>4. \A a \in DOMAIN buffer : ~ (a % w) + 2 < 1
    <3>1. w \in Nat \ {0} /\ DOMAIN buffer \subseteq Nat
      BY <1>1, <1>2, <1>3, CleanScreen DEF Grid, Pixels
    <3> QED
      BY <3>1
  <2>5. 1 \in 1..(w + 1)
    BY <1>2
  <2> QED
    BY <2>1, <2>3, <2>4, <2>5 DEF Clearing
<1>6. input_buffer = <<>>
  BY DEF Init
<1> QED
  BY <1>4, <1>5, <1>6 DEF Showing

\* A line without its last character.
LEMMA FrontIsShorter ==
    ASSUME NEW S, NEW s \in Seq(S), s # <<>>
    PROVE  Len(Front(s)) = Len(s) - 1 /\ \A i \in 1..(Len(s) - 1) : Front(s)[i] = s[i]
<1>1. Len(s) \in Nat \ {0}
  OBVIOUS
<1>2. Front(s) = SubSeq(s, 1, Len(s) - 1)
  BY DEF Front
<1> DEFINE n == Len(s) - 1
<1>3. 1 \in Int /\ n \in Int /\ \A i \in 1..n : s[i] \in S
  BY <1>1
<1>4. n \in Nat
  BY <1>1
<1> HIDE DEF n
<1>5. Len(SubSeq(s, 1, n)) = IF 1 <= n THEN n - 1 + 1 ELSE 0
  BY <1>3, SubSeqProperties
<1>6. \A i \in 1..(n - 1 + 1) : SubSeq(s, 1, n)[i] = s[1 + i - 1]
  BY <1>3, SubSeqProperties
<1>7. /\ n - 1 + 1 = n /\ (IF 1 <= n THEN n - 1 + 1 ELSE 0) = n
      /\ \A i \in 1..n : 1 + i - 1 = i
  BY <1>4
<1> QED
  BY <1>2, <1>5, <1>6, <1>7 DEF n

\* A key is pressed while the shell waits: the line on the screen follows it.
LEMMA KeyShows ==
    ASSUME IInv, RowsCounted, Clean, Clean', Showing,
           NEW key \in Keys \cup {Backspace, Enter}, int21h_handler(key)
    PROVE  Showing'
<1>1. /\ UNCHANGED <<w, todo, start>> /\ printed' = printed /\ keys' = keys + 1
  BY DEF int21h_handler, text
<1>2. Sized /\ w \in Nat /\ Grid(w) /\ Pixels(buffer) /\ Cell(w, cursor) /\ Indexed(w, cursor)
  BY CleanScreen DEF Showing
<1>3. Idle
  <2>1. rushed = 0 /\ rushed' = 0 /\ rushed' = IF Idle THEN rushed ELSE rushed + 1
    BY DEF Clean, int21h_handler
  <2> HIDE DEF Idle
  <2> QED
    BY <2>1
<1>4. /\ Line(w, buffer, input_buffer, start, cursor) /\ Fresh(w, buffer, cursor)
      /\ todo = <<>> /\ exec = 0
  BY <1>3, NextTells DEF Typing, Idle
<1>5. input_buffer \in Seq(Keys \cup {Backspace}) /\ Len(input_buffer) \in Nat
  BY DEF IInv, Lines
<1>6. CASE key = Enter /\ exec' = 1 /\ input_buffer' = <<>> /\ UNCHANGED graphics
  <2>1. Entered'
    BY <1>1, <1>4, <1>6 DEF Entered, graphics
  <2>2. Cell(w, cursor)'
    BY <1>1, <1>2, <1>6 DEF graphics, Cell, Multiple
  <2> QED
    BY <1>6, <2>1, <2>2 DEF Showing
<1>7. CASE /\ key = Backspace /\ input_buffer # <<>> /\ input_buffer' = Front(input_buffer)
           /\ PrintChar(Backspace) /\ UNCHANGED <<exec, bent>>
  <2> DEFINE n == Len(input_buffer)
             c == input_buffer[n]
             shorter == Front(input_buffer)
  <2>1. /\ Len(shorter) = n - 1 /\ Len(shorter) \in Nat /\ n \in 1..n
        /\ \A i \in 1..Len(shorter) : shorter[i] = input_buffer[i]
    <3>1. n \in Nat \ {0}
      BY <1>5, <1>7
    <3>2. Len(shorter) = n - 1 /\ \A i \in 1..(n - 1) : shorter[i] = input_buffer[i]
      BY <1>5, <1>7, FrontIsShorter
    <3> QED
      BY <3>1, <3>2
  <2>2. c # Newline
    BY <1>5, <2>1, ConsoleAssumption
  <2> HIDE DEF shorter, c, n
  <2>3. PICK p \in Cells(w) :
          /\ cursor = Following(w, p, c, 0) /\ cursor \in Cells(w) /\ Before(p, cursor)
          /\ \A next : Kept(w, p, buffer, next) => Line(w, next, shorter, start, p)
    BY <1>2, <1>4, <1>5, <2>1, LineShrinks DEF n, c
  <2>4. Cell(w, p)
    BY DEF Cells
  <2>5. Indexed(w, p)
    <3>1. p.y <= cursor.y /\ p.y \in Nat /\ cursor.y \in Nat
      BY <1>2, <2>3, <2>4, BeforeIsOrder, CellTyped
    <3>2. cursor.y <= CellH * (Len(printed) + keys) /\ CellH * (Len(printed) + keys) \in Nat
          /\ \A row \in Nat : row <= CellH * (Len(printed) + keys) => (row + CellH) * w <= Word
      BY CleanScreen, Countable, RangedRows DEF Clean
    <3>3. p.y <= CellH * (Len(printed) + keys)
      <4> DEFINE rows == CellH * (Len(printed) + keys)
      <4>1. rows \in Nat /\ cursor.y <= rows
        BY <3>2
      <4> HIDE DEF rows
      <4>2. p.y <= rows
        BY <3>1, <4>1
      <4> QED
        BY <4>2 DEF rows
    <3> QED
      BY <3>1, <3>2, <3>3 DEF Indexed
  <2>6. cursor' = p /\ Kept(w, p, buffer, buffer') /\ Fresh(w, buffer', p)
    BY <1>2, <1>4, <1>7, <2>2, <2>3, <2>4, <2>5, BackspaceClears
  <2>7. Line(w, buffer', shorter, start, p)
    BY <2>3, <2>6
  <2>8. Typing'
    BY <1>1, <1>3, <1>7, <2>6, <2>7 DEF Typing, Idle, shorter
  <2>9. Cell(w, cursor)'
    BY <1>1, <2>4, <2>6 DEF Cell, Multiple
  <2> QED
    BY <2>8, <2>9 DEF Showing
<1>8. CASE /\ key # Enter /\ (key = Backspace => input_buffer = <<>>)
           /\ input_buffer' = Append(input_buffer, key)
           /\ PrintChar(key) /\ bent' = (bent \/ key = Backspace) /\ UNCHANGED exec
  <2> DEFINE longer == Append(input_buffer, key)
             n == Len(longer)
             end == Following(w, cursor, key, 0)
  <2>1. key \notin {Backspace, Blank, Newline}
    <3>1. key # Backspace
      BY <1>8 DEF Clean
    <3> QED
      BY <1>8, <3>1, ConsoleAssumption
  <2>2. /\ n = Len(input_buffer) + 1 /\ longer[n] = key
        /\ \A i \in 1..Len(input_buffer) : longer[i] = input_buffer[i]
    BY <1>5
  <2>3. end.y < Word
    <3> DEFINE count == Len(printed) + keys
    <3>1. count \in Nat /\ Ranged(w, count) /\ Ranged(w', Len(printed') + keys')
      BY Countable DEF Clean, InRange, Ranged
    <3>2. Len(printed') + keys' = count + 1
      BY <1>1, Countable
    <3>3. Ranged(w, count + 1)
      BY <1>1, <3>1, <3>2
    <3>4. CellH * (count + 1) < Word /\ CellH * (count + 1) = CellH * count + CellH
          /\ CellH * count \in Nat
      BY <1>2, <3>1, <3>3, RangedRows
    <3>5. cursor.y <= CellH * count /\ cursor.y \in Nat
      BY <1>2, CleanScreen, CellTyped
    <3> DEFINE rows == CellH * count
    <3>6. cursor.y <= rows /\ rows \in Nat /\ rows + CellH < Word
      BY <3>4, <3>5
    <3> HIDE DEF rows
    <3>7. CellH \in Nat /\ Word \in Nat
      BY Sizes
    <3>8. cursor.y + CellH < Word /\ cursor.y < Word
      BY <3>5, <3>6, <3>7
    <3> QED
      BY <3>8 DEF Following
  <2> HIDE DEF end
  <2>4. /\ cursor' = end /\ Cell(w, cursor')
        /\ Kept(w, cursor, buffer, buffer') /\ Shows(w, buffer', cursor, key)
        /\ Fresh(w, buffer', cursor')
    BY <1>2, <1>4, <1>8, <2>1, <2>3, EchoIsShown DEF end, Clean
  <2> HIDE DEF longer, n
  <2>5. Line(w, buffer', longer, start, end)
    <3>1. /\ Shows(w, buffer', cursor, longer[Len(longer)])
          /\ Following(w, cursor, longer[Len(longer)], 0) = end
          /\ Len(longer) = Len(input_buffer) + 1
      BY <2>2, <2>4 DEF n, end
    <3> QED
      BY <1>2, <1>4, <1>5, <2>2, <2>3, <2>4, <3>1, LineGrows
  <2>6. Typing'
    BY <1>1, <1>3, <1>8, <2>4, <2>5 DEF Typing, Idle, longer
  <2>7. Cell(w, cursor)'
    BY <1>1, <2>4 DEF Cell, Multiple
  <2> QED
    BY <2>6, <2>7 DEF Showing
<1> QED
  BY <1>6, <1>7, <1>8 DEF int21h_handler

\* What cls does behind clearing the screen.
LEMMA ResetsAndPrompt == <<Does("x"), Does("y")>> \o <<Does("exec"), Show(Prompt)>> = Restarting
<1> DEFINE reset == <<Does("x"), Does("y")>>
           end == <<Does("exec"), Show(Prompt)>>
           both == reset \o end
<1>1. {Does("x"), Does("y"), Does("exec"), Show(Prompt)} \subseteq Statements
  BY EndingsAreStatements
<1> HIDE DEF Statements, Does, Show
<1>2. reset \in Seq(Statements) /\ end \in Seq(Statements) /\ Len(reset) = 2 /\ Len(end) = 2
  BY <1>1
<1>0. reset \in Seq(Statements) /\ end \in Seq(Statements)
  BY <1>2
<1>3. Restarting \in Seq(Statements) /\ Len(Restarting) = 4
  BY EndingsAreStatements DEF Restarting
<1>4. /\ reset[1] = Restarting[1] /\ reset[2] = Restarting[2]
      /\ end[1] = Restarting[3] /\ end[2] = Restarting[4]
  BY DEF Restarting
<1> HIDE DEF reset, end
<1>5. both \in Seq(Statements) /\ Len(both) = Len(reset) + Len(end)
  BY <1>0, ListsJoined
<1>6. \A i \in 1..Len(reset) : both[i] = reset[i]
  BY <1>0, ListsJoined
<1>7. \A i \in 1..Len(end) : both[Len(reset) + i] = end[i]
  <2>1. reset \in Seq(Statements) /\ end \in Seq(Statements)
    BY <1>2
  <2> QED
    BY <2>1, ListsJoined
<1> HIDE DEF both
<1>9. both[1] = reset[1] /\ both[2] = reset[2] /\ both[2 + 1] = end[1] /\ both[2 + 2] = end[2]
  BY <1>2, <1>6, <1>7
<1>10. \A i \in 1..4 : both[i] = Restarting[i]
  <2>1. \A i \in 1..4 : i = 1 \/ i = 2 \/ i = 2 + 1 \/ i = 2 + 2
    OBVIOUS
  <2>2. 2 + 1 = 3 /\ 2 + 2 = 4
    OBVIOUS
  <2> QED
    BY <1>4, <1>9, <2>1, <2>2
<1>11. both = Restarting
  BY <1>2, <1>3, <1>5, <1>10, SeqEqual
<1> QED
  BY <1>11 DEF both, reset, end

\* Text to display, and then the prompt.
LEMMA PromptBehind ==
    ASSUME NEW s \in Seq(Statements), \A i \in 1..Len(s) : s[i].does = "print"
    PROVE  Printing(s \o <<Does("exec"), Show(Prompt)>>)
<1> DEFINE end == <<Does("exec"), Show(Prompt)>>
           list == s \o end
<1>1. Does("exec") \in Statements /\ Show(Prompt) \in Statements
  BY EndingsAreStatements
<1>2. end[1].does = "exec" /\ end[2].does = "print" /\ Len(end) = 2
  BY DEF Does, Show
<1> HIDE DEF Statements, Does, Show
<1>3. end \in Seq(Statements) /\ Len(s) \in Nat
  BY <1>1
<1> HIDE DEF end
<1>4. list \in Seq(Statements) /\ Len(list) = Len(s) + 2
  <2>1. list \in Seq(Statements) /\ Len(list) = Len(s) + Len(end)
    BY <1>3, ListsJoined
  <2> QED
    BY <1>2, <2>1
<1>5. \A i \in 1..Len(s) : list[i] = s[i]
  BY <1>3, ListsJoined
<1>6. \A i \in 1..2 : list[Len(s) + i] = end[i]
  <2>1. \A i \in 1..Len(end) : list[Len(s) + i] = end[i]
    BY <1>3, ListsJoined
  <2> QED
    BY <1>2, <2>1
<1> HIDE DEF list
<1>7. ASSUME NEW i \in 1..Len(list) PROVE list[i].does \in {"print", "exec"}
  <2>1. i \in 1..Len(s) \/ i = Len(s) + 1 \/ i = Len(s) + 2
    BY <1>3, <1>4
  <2> QED
    BY <1>2, <1>5, <1>6, <2>1
<1>8. list[Len(list)].does = "print"
  BY <1>2, <1>4, <1>6
<1>9. list # <<>>
  BY <1>3, <1>4
<1> QED
  BY <1>7, <1>8, <1>9 DEF Printing, list, end

\* The shell takes a line up.
LEMMA PollShows ==
    ASSUME IInv, RowsCounted, Clean, Showing, KiUserInit_poll
    PROVE  Showing'
<1>1. /\ UNCHANGED <<w, buffer, cursor, input_buffer>> /\ todo = <<>> /\ exec = 1
      /\ \E output \in Outputs \cup {<<>>} : todo' = NsExec(ex_buffer, output)
  BY DEF KiUserInit_poll, graphics, keyboard
<1>2. Sized /\ w \in Nat /\ Grid(w) /\ Pixels(buffer) /\ Cell(w, cursor)
  BY CleanScreen DEF Showing
<1>3. Entered /\ input_buffer = <<>>
  BY <1>1, NextTells
<1>4. PICK output \in Outputs \cup {<<>>} : todo' = NsExec(ex_buffer, output)
  BY <1>1
<1> DEFINE end == <<Does("exec"), Show(Prompt)>>
           first == CASE ex_buffer = Cls -> Cleared \o <<Does("x"), Does("y")>>
                      [] ex_buffer = Help -> <<Show(HelpMsg)>>
                      [] ex_buffer = <<>> -> <<Show(<<Newline>>)>>
                      [] ex_buffer \in Programs -> <<Show(<<Newline>>), Show(output)>>
                      [] OTHER -> <<Show(<<Newline>>), Show(Quote), Show(ex_buffer), Show(NotRecognized)>>
<1>5. todo' = first \o end
  BY <1>4 DEF NsExec
<1>6. \/ first = Cleared \o <<Does("x"), Does("y")>>
      \/ first = <<Show(HelpMsg)>>
      \/ first = <<Show(<<Newline>>)>>
      \/ first = <<Show(<<Newline>>), Show(output)>>
      \/ first = <<Show(<<Newline>>), Show(Quote), Show(ex_buffer), Show(NotRecognized)>>
  <2> HIDE DEF Cleared, Does, Show
  <2> QED
    OBVIOUS
<1> HIDE DEF first
<1>7. Cell(w, cursor)'
  BY <1>1, <1>2 DEF Cell, Multiple
<1>8. CASE first = Cleared \o <<Does("x"), Does("y")>>
  <2>1. todo' = (Cleared \o <<Does("x"), Does("y")>>) \o end
    BY <1>5, <1>8
  <2>2. /\ Cleared \in Seq(Statements) /\ Len(Cleared) = w + 1
        /\ {Does("x"), Does("y"), Does("exec"), Show(Prompt)} \subseteq Statements
    BY <1>2, ClearedList, EndingsAreStatements
  <2> HIDE DEF Cleared, Statements, Does, Show
  <2>3. SubSeq(Cleared, 1, w + 1) = Cleared
    BY <1>2, <2>2
  <2>4. (Cleared \o <<Does("x"), Does("y")>>) \o end = Cleared \o Restarting
    <3>1. /\ <<Does("x"), Does("y")>> \in Seq(Statements) /\ end \in Seq(Statements)
          /\ <<Does("x"), Does("y")>> \o end = Restarting
      BY <2>2, ResetsAndPrompt
    <3> HIDE DEF end
    <3>2. (Cleared \o <<Does("x"), Does("y")>>) \o end = Cleared \o (<<Does("x"), Does("y")>> \o end)
      BY <2>2, <3>1, ConcatAssociative
    <3> QED
      BY <3>1, <3>2
  <2>5. \A a \in DOMAIN buffer : ~ (a % w) + 2 < 1
    <3>1. w \in Nat \ {0} /\ DOMAIN buffer \subseteq Nat
      BY <1>2, Sizes DEF Grid, Pixels
    <3> QED
      BY <3>1
  <2>6. 1 \in 1..(w + 1)
    BY <1>2
  <2>7. todo' = SubSeq(Cleared, 1, w + 1) \o Restarting
    BY <2>1, <2>3, <2>4
  <2>8. Cleared' = Cleared
    BY <1>1 DEF Cleared
  <2>9. Clearing'
    BY <1>1, <2>5, <2>6, <2>7, <2>8 DEF Clearing, Restarting, Starting, Does, Show
  <2> QED
    BY <1>1, <1>3, <1>7, <2>9 DEF Showing
<1>9. CASE first # Cleared \o <<Does("x"), Does("y")>>
  <2>1. output \in Seq(Letters) /\ ex_buffer \in Seq(Letters)
    BY <1>4, StringsAreText DEF IInv, Lines
  <2>2. {Show(HelpMsg), Show(<<Newline>>), Show(output), Show(Quote), Show(ex_buffer),
         Show(NotRecognized)} \subseteq Statements
    BY <2>1, StringsAreText, ShowIsStatement
  <2>3. \A str : Show(str).does = "print"
    BY DEF Show
  <2> HIDE DEF Show, Statements
  <2>4. first \in Seq(Statements) /\ \A i \in 1..Len(first) : first[i].does = "print"
    <3>1. CASE first = <<Show(HelpMsg)>>
      BY <2>2, <2>3, <3>1
    <3>2. CASE first = <<Show(<<Newline>>)>>
      BY <2>2, <2>3, <3>2
    <3>3. CASE first = <<Show(<<Newline>>), Show(output)>>
      BY <2>2, <2>3, <3>3
    <3>4. CASE first = <<Show(<<Newline>>), Show(Quote), Show(ex_buffer), Show(NotRecognized)>>
      BY <2>2, <2>3, <3>4
    <3> QED
      BY <1>6, <1>9, <3>1, <3>2, <3>3, <3>4
  <2>8. Printing(todo')
    BY <1>5, <2>4, PromptBehind
  <2>9. Fresh(w, buffer, cursor)'
    BY <1>1, <1>3 DEF Entered, Fresh, Behind
  <2>10. Displaying'
    BY <2>8, <2>9 DEF Displaying
  <2> QED
    BY <1>1, <1>3, <1>7, <2>10 DEF Showing
<1> QED
  BY <1>8, <1>9

\* What is left of a list that displays.
LEMMA PrintingGoesOn ==
    ASSUME NEW list \in Seq(Statements), Printing(list)
    PROVE  /\ Tail(list) = <<>> \/ Printing(Tail(list))
           /\ Head(list).does = "exec" => Tail(list) # <<>>
<1> HIDE DEF Statements
<1> DEFINE n == Len(list)
           rest == Tail(list)
<1>1. n \in Nat \ {0} /\ Head(list) = list[1]
  BY DEF Printing
<1>2. rest \in Seq(Statements) /\ Len(rest) = n - 1 /\ \A i \in 1..(n - 1) : rest[i] = list[i + 1]
  BY <1>1
<1>3. list[n].does = "print" /\ \A i \in 1..n : list[i].does \in {"print", "exec"}
  BY DEF Printing
<1> HIDE DEF n, rest
<1>4. CASE n = 1
  <2>1. rest = <<>>
    BY <1>2, <1>4
  <2>2. list[1].does = "print"
    BY <1>3, <1>4
  <2> QED
    BY <1>1, <2>1, <2>2 DEF rest
<1>5. CASE n # 1
  <2>1. n - 1 \in 1..(n - 1) /\ (n - 1) + 1 = n /\ rest # <<>>
    BY <1>1, <1>2, <1>5
  <2>2. rest[Len(rest)].does = "print"
    BY <1>2, <1>3, <2>1
  <2>3. ASSUME NEW i \in 1..Len(rest) PROVE rest[i].does \in {"print", "exec"}
    <3>1. i \in 1..(n - 1) /\ i + 1 \in 1..n
      BY <1>1, <1>2
    <3> QED
      BY <1>2, <1>3, <3>1
  <2> QED
    BY <2>1, <2>2, <2>3 DEF Printing, rest
<1> QED
  BY <1>4, <1>5

\* A string is displayed; behind the last one, the prompt, a line is typed.
LEMMA DisplayShows ==
    ASSUME IInv, RowsCounted, Clean, Clean', Showing, NtDisplayStringSyscall
    PROVE  Showing'
<1> DEFINE str == Head(todo).str
           count == Len(printed') + keys'
           last == CellH * count
<1>1. /\ UNCHANGED <<w, input_buffer, exec>> /\ PrintOut(str)
      /\ todo # <<>> /\ Head(todo).does = "print" /\ todo' = Tail(todo)
      /\ start' = IF todo' = <<>> THEN cursor' ELSE start
  BY DEF NtDisplayStringSyscall, Next_is, keyboard
<1>2. Sized /\ w \in Nat /\ Grid(w) /\ Pixels(buffer) /\ Cell(w, cursor)
  BY CleanScreen DEF Showing
<1>3. Printing(todo) /\ Fresh(w, buffer, cursor) /\ input_buffer = <<>>
  BY <1>1, NextTells DEF Displaying
<1>4. InRange'
  BY DEF Clean
<1>5. /\ cursor.y + CellH * Len(str) <= last /\ cursor.y + CellH * Len(str) < Word
      /\ Len(str) \in Nat /\ DOMAIN str = 1..Len(str)
  BY <1>4, PrintIsCounted
<1>6. last \in Nat /\ last < Word /\ (last + CellH) * w <= Word
  <2>1. count \in Nat
    <3>1. Len(printed') \in Nat /\ keys' \in Nat
      <4>1. IInv' /\ RowsCounted'
        BY NextKeeps, RowsStayCounted DEF Next
      <4> QED
        BY <4>1 DEF IInv, Displayed, RowsCounted
    <3> QED
      BY <3>1
  <2>2. Ranged(w, count)
    BY <1>1, <1>4 DEF InRange, Ranged
  <2> HIDE DEF count
  <2> QED
    BY <1>2, <2>1, <2>2, RangedRows
<1>7. ~ skewed'
  BY DEF Clean
<1> HIDE DEF str, last
<1>8. Cell(w, cursor') /\ Fresh(w, buffer', cursor')
  BY <1>1, <1>2, <1>3, <1>5, <1>6, <1>7, PrintIsFresh
<1>9. Cell(w, cursor)' /\ Fresh(w, buffer, cursor)'
  BY <1>1, <1>8 DEF Cell, Multiple, Fresh, Behind
<1>10. todo \in Seq(Statements) /\ exec \in {0, 1}
  BY DEF IInv, Lines
<1>11. todo' = <<>> \/ Printing(todo')
  BY <1>1, <1>3, <1>10, PrintingGoesOn
<1>12. CASE Printing(todo')
  <2>1. Displaying'
    BY <1>9, <1>12 DEF Displaying
  <2> QED
    BY <1>1, <1>3, <1>9, <2>1 DEF Showing
<1>13. CASE todo' = <<>> /\ exec = 1
  <2>1. Entered'
    BY <1>1, <1>9, <1>13 DEF Entered
  <2> QED
    BY <1>1, <1>3, <1>9, <2>1 DEF Showing
<1>14. CASE todo' = <<>> /\ exec = 0
  <2>1. Line(w, buffer', <<>>, cursor', cursor')
    BY <1>8, LineBegins
  <2>2. Line(w', buffer', input_buffer', start', cursor')
    BY <1>1, <1>3, <1>14, <2>1
  <2>3. Typing'
    BY <1>1, <1>9, <1>14, <2>2 DEF Typing, Idle
  <2> QED
    BY <1>9, <2>3 DEF Showing
<1> QED
  BY <1>10, <1>11, <1>12, <1>13, <1>14

\* The screen is cleared, and then column after column.
LEMMA ClearingShows ==
    ASSUME IInv, RowsCounted, Clean, Showing, ClearBuffer \/ FillRectangle
    PROVE  Showing'
<1>1. /\ UNCHANGED <<w, cursor, input_buffer>>
      /\ todo # <<>> /\ Head(todo).does \in {"memset", "fill"} /\ todo' = Tail(todo)
  BY DEF ClearBuffer, FillRectangle, Next_is, keyboard
<1>2. /\ Sized /\ w \in Nat \ {0} /\ Pixels(buffer) /\ Cell(w, cursor)
  BY CleanScreen, Sizes DEF Showing, Grid
<1>3. input_buffer = <<>>
  BY <1>1, NextTells
<1>4. PICK k \in 1..(w + 1), rest \in {Starting, Restarting} :
         /\ todo = SubSeq(Cleared, k, w + 1) \o rest
         /\ \A a \in DOMAIN buffer : (a % w) + 2 < k => buffer[a] = {}
  <2>1. Clearing
    BY <1>1, NextTells
  <2> QED
    BY <2>1 DEF Clearing
<1>5. /\ Head(todo) = Cleared[k]
      /\ todo' = IF k = w + 1 THEN rest ELSE SubSeq(Cleared, k + 1, w + 1) \o rest
  BY <1>1, <1>2, <1>4, ClearingGoesOn
<1>6. /\ k = 1 => Head(todo) = Does("memset")
      /\ k # 1 => Head(todo) = Fill(k - 2)
  <2>1. k # 1 => k \in 2..(w + 1)
    BY <1>2
  <2> QED
    BY <1>2, <1>5, <2>1, ClearedList
<1>7. DOMAIN buffer' = DOMAIN buffer
  BY DEF ClearBuffer, FillRectangle
<1>8. ASSUME NEW a \in DOMAIN buffer', (a % w) + 2 < k + 1 PROVE buffer'[a] = {}
  <2>1. a \in DOMAIN buffer /\ a \in Nat
    BY <1>2, <1>7 DEF Pixels
  <2>2. a % w \in Nat
    BY <1>2, <2>1
  <2>3. k # 1
    BY <1>8, <2>2
  <2>4. Head(todo).does = "fill" /\ Head(todo).column = k - 2
    BY <1>6, <2>3 DEF Fill
  <2>5. buffer'[a] = IF a % w = k - 2 THEN {} ELSE buffer[a]
    <3>1. FillRectangle
      BY <2>4 DEF ClearBuffer, Next_is
    <3>2. buffer'[a] = IF a % w = Head(todo).column THEN {} ELSE buffer[a]
      BY <2>1, <3>1 DEF FillRectangle
    <3> QED
      BY <2>4, <3>2
  <2>6. CASE a % w = k - 2
    BY <2>5, <2>6
  <2>7. CASE a % w # k - 2
    <3> DEFINE c == a % w
    <3>1. c \in Nat /\ c # k - 2 /\ c + 2 < k + 1
      BY <1>8, <2>2, <2>7
    <3> HIDE DEF c
    <3>2. c + 2 < k
      BY <3>1
    <3> QED
      BY <1>4, <2>1, <2>5, <2>7, <3>2 DEF c
  <2> QED
    BY <2>6, <2>7
<1>9. Cell(w, cursor)'
  BY <1>1, <1>2 DEF Cell, Multiple
<1>10. CASE k # w + 1
  <2>1. k + 1 \in 1..(w + 1)
    BY <1>2, <1>10
  <2>2. todo' = SubSeq(Cleared, k + 1, w + 1) \o rest
    BY <1>5, <1>10
  <2>3. Cleared' = Cleared
    BY <1>1 DEF Cleared
  <2>4. Clearing'
    <3> HIDE DEF Cleared
    <3>1. \E i \in 1..(w + 1), r \in {Starting, Restarting} :
             /\ todo' = SubSeq(Cleared, i, w + 1) \o r
             /\ \A a \in DOMAIN buffer' : (a % w) + 2 < i => buffer'[a] = {}
      BY <1>8, <2>1, <2>2
    <3>2. Starting' = Starting /\ Restarting' = Restarting
      BY DEF Starting, Restarting, Does, Show
    <3> QED
      BY <1>1, <2>3, <3>1, <3>2 DEF Clearing
  <2> QED
    BY <1>1, <1>3, <1>9, <2>4 DEF Showing
<1>11. CASE k = w + 1
  <2>1. Empty(buffer')
    <3> SUFFICES ASSUME NEW a \in DOMAIN buffer' PROVE buffer'[a] = {}
      BY DEF Empty
    <3>1. a \in Nat
      BY <1>2, <1>7 DEF Pixels
    <3>2. (a % w) + 2 < k + 1
      BY <1>2, <1>11, <3>1
    <3> QED
      BY <1>8, <3>2
  <2>2. todo' = rest
    BY <1>5, <1>11
  <2>3. CASE rest = Starting
    <3>1. Printing(todo')
      BY <2>2, <2>3 DEF Printing, Starting, Show
    <3>2. Fresh(w, buffer, cursor)'
      BY <2>1 DEF Fresh, Empty
    <3>3. Displaying'
      BY <3>1, <3>2 DEF Displaying
    <3> QED
      BY <1>1, <1>3, <1>9, <3>3 DEF Showing
  <2>4. CASE rest = Restarting
    <3>1. Resetting'
      BY <2>1, <2>2, <2>4 DEF Resetting, Empty, Restarting, Does, Show
    <3> QED
      BY <1>1, <1>3, <1>9, <3>1 DEF Showing
  <2> QED
    BY <2>3, <2>4
<1> QED
  BY <1>10, <1>11

\* The cursor goes back to the top of the cleared screen, column first.
LEMMA ResetShows ==
    ASSUME IInv, RowsCounted, Clean, Showing, ResetX \/ ResetY
    PROVE  Showing'
<1>1. /\ UNCHANGED <<w, buffer, input_buffer>>
      /\ cursor' \in {[cursor EXCEPT !.x = 0], [cursor EXCEPT !.y = 0]}
      /\ todo # <<>> /\ Head(todo).does \in {"x", "y"} /\ todo' = Tail(todo)
  BY DEF ResetX, ResetY, Next_is, keyboard
<1>2. /\ Grid(w) /\ Cell(w, cursor) /\ {CellW, CellH, Word} \subseteq Nat \ {0}
  BY CleanScreen, Sizes DEF Showing
<1>3. input_buffer = <<>> /\ Resetting
  BY <1>1, NextTells
<1>4. Cell(w, cursor')
  <2>1. Multiple(0, CellW) /\ Multiple(0, CellH) /\ 0 \in 0..(Word - 1) /\ 0 + CellW <= w
    BY <1>2, Steps DEF Grid
  <2> QED
    BY <1>1, <1>2, <2>1 DEF Cell
<1>5. Cell(w, cursor)'
  BY <1>1, <1>4 DEF Cell, Multiple
<1>6. Empty(buffer)'
  BY <1>1, <1>3 DEF Resetting, Empty
<1>7. CASE todo = Restarting
  <2>1. todo' = Tail(Restarting)
    BY <1>1, <1>7
  <2>2. Resetting'
    BY <1>6, <2>1 DEF Resetting, Restarting, Does, Show
  <2> QED
    BY <1>1, <1>3, <1>5, <2>2 DEF Showing
<1>8. CASE todo = Tail(Restarting)
  <2>1. todo' = <<Does("exec"), Show(Prompt)>>
    BY <1>1, <1>8 DEF Restarting
  <2>2. Printing(todo')
    BY <2>1 DEF Printing, Does, Show
  <2>3. Fresh(w, buffer, cursor)'
    BY <1>6 DEF Fresh, Empty
  <2>4. Displaying'
    BY <2>2, <2>3 DEF Displaying
  <2> QED
    BY <1>1, <1>3, <1>5, <2>4 DEF Showing
<1> QED
  BY <1>3, <1>7, <1>8 DEF Resetting

\* The shell lets go of the line it worked on.
LEMMA ExecShows ==
    ASSUME IInv, RowsCounted, Clean, Showing, ResetExec
    PROVE  Showing'
<1>1. /\ UNCHANGED <<w, buffer, cursor, input_buffer>>
      /\ todo # <<>> /\ Head(todo).does = "exec" /\ todo' = Tail(todo)
  BY DEF ResetExec, Next_is, keyboard, graphics
<1>2. input_buffer = <<>> /\ Displaying
  BY <1>1, NextTells
<1>3. todo \in Seq(Statements)
  BY DEF IInv, Lines
<1>4. Printing(todo')
  BY <1>1, <1>2, <1>3, PrintingGoesOn DEF Displaying
<1>5. Displaying'
  BY <1>1, <1>2, <1>4 DEF Displaying, Fresh, Behind
<1>6. Cell(w, cursor)'
  BY <1>1 DEF Showing, Cell, Multiple
<1> QED
  BY <1>1, <1>2, <1>5, <1>6 DEF Showing

\* Every step keeps the screen showing the line, or on the way to, as long as it can.
LEMMA NextShows ==
    ASSUME IInv, RowsCounted, Clean => Showing, [Next]_vars
    PROVE  Clean' => Showing'
<1> SUFFICES ASSUME Clean' PROVE Showing'
  OBVIOUS
<1>1. Clean /\ Showing
  BY CleanBefore
<1>2. CASE UNCHANGED vars
  <2>1. Cleared' = Cleared /\ UNCHANGED <<w, buffer, cursor, input_buffer, todo, exec, start>>
    BY <1>2 DEF vars, graphics, keyboard, Cleared
  <2>2. Typing => Typing'
    BY <2>1 DEF Typing, Idle
  <2>3. Entered => Entered'
    BY <2>1 DEF Entered, Fresh, Behind
  <2>4. Displaying => Displaying'
    BY <2>1 DEF Displaying, Printing, Fresh, Behind
  <2>5. Clearing => Clearing'
    BY <2>1 DEF Clearing, Starting, Restarting, Does, Show
  <2>6. Resetting => Resetting'
    BY <2>1 DEF Resetting, Restarting, Does, Show, Empty
  <2>7. Cell(w, cursor)'
    BY <1>1, <2>1 DEF Showing, Cell, Multiple
  <2> QED
    BY <1>1, <2>1, <2>2, <2>3, <2>4, <2>5, <2>6, <2>7 DEF Showing
<1> QED
  BY <1>1, <1>2, KeyShows, PollShows, DisplayShows, ClearingShows, ResetShows, ExecShows DEF Next

\* What is typed is where LineIsShown says.
LEMMA TypingShowsLine ==
    ASSUME IInv, RowsCounted, Clean, Showing
    PROVE  LineIsShown
<1> DEFINE n == Len(input_buffer)
           P == Places(input_buffer, start, 0)
<1> SUFFICES ASSUME Idle
             PROVE  /\ cursor = Last(P)
                    /\ \A i \in DOMAIN input_buffer : \A part \in Parts :
                          PixelAt(P[i], part) \in DOMAIN buffer =>
                             buffer[PixelAt(P[i], part)] =
                               IF input_buffer[i] = Blank THEN {} ELSE {<<input_buffer[i], part>>}
                    /\ \A part \in Parts :
                          PixelAt(cursor, part) \in DOMAIN buffer =>
                             buffer[PixelAt(cursor, part)] = {}
  BY DEF LineIsShown
<1>1. /\ Sized /\ w \in Nat /\ Grid(w) /\ Pixels(buffer) /\ Cell(w, cursor) /\ Indexed(w, cursor)
      /\ cursor.y <= CellH * (Len(printed) + keys)
  BY CleanScreen DEF Showing
<1>2. Line(w, buffer, input_buffer, start, cursor) /\ Fresh(w, buffer, cursor)
  BY NextTells DEF Typing
<1>3. n \in Nat /\ DOMAIN input_buffer = 1..n /\ \A i \in 1..n : input_buffer[i] # Blank
  <2>1. input_buffer \in Seq(Keys \cup {Backspace})
    BY DEF IInv, Lines
  <2>2. Blank \notin Keys \cup {Backspace}
    BY ConsoleAssumption
  <2> HIDE DEF P
  <2> QED
    BY <2>1, <2>2
<1>4. PICK places \in [1..(n + 1) -> Cells(w)] :
        /\ places[1] = start /\ places[n + 1] = cursor
        /\ \A i \in 1..n : /\ places[i + 1] = Following(w, places[i], input_buffer[i], 0)
                           /\ Shows(w, buffer, places[i], input_buffer[i])
        /\ \A i, j \in 1..(n + 1) : i < j => Before(places[i], places[j])
  BY <1>2 DEF Line
<1>5. \A i \in 1..(n + 1) : Cell(w, places[i])
  BY <1>4 DEF Cells
<1>6. Cell(w, start) /\ OnScreen(start) /\ 0 \in 0..(Word - 1) /\ 0 + CellW = CellW
  <2>1. 1 \in 1..(n + 1)
    BY <1>3
  <2> QED
    BY <1>1, <1>4, <1>5, <2>1, CellIsOnScreen, Sizes
<1>7. /\ DOMAIN P = 1..(n + 1) /\ P[1] = start
      /\ \A i \in 1..n : P[i + 1] = Advance(P[i], input_buffer[i], 0)
  <2>1. Len(input_buffer) \in Nat
    BY <1>3
  <2> QED
    BY <1>1, <1>6, <2>1, PlacesFromTheEdge
<1>8. Last(P) = P[n + 1]
  <2>1. Len(P) = n + 1
    BY <1>3, <1>7
  <2> QED
    BY <2>1 DEF Last
<1> HIDE DEF P, n
<1>9. \A i \in 1..(n + 1) : P[i] = places[i]
  <2> DEFINE S == {i \in 1..(n + 1) : P[i] = places[i]}
  <2>1. 1 \in S
    BY <1>3, <1>4, <1>7
  <2>2. ASSUME NEW i \in 1..((n + 1) - 1), i \in S PROVE i + 1 \in S
    <3>1. i \in 1..n /\ i \in 1..(n + 1) /\ i + 1 \in 1..(n + 1)
      BY <1>3
    <3>2. P[i] = places[i] /\ Cell(w, places[i]) /\ Cell(w, places[i + 1])
      BY <1>5, <2>2, <3>1
    <3>3. places[i + 1] = Following(w, places[i], input_buffer[i], 0) /\ places[i + 1].y < Word
      BY <1>1, <1>4, <3>1, <3>2, CellTyped
    <3>4. Advance(places[i], input_buffer[i], 0) = places[i + 1]
      BY <1>1, <1>6, <3>2, <3>3, AdvanceFollows
    <3> QED
      BY <1>7, <3>1, <3>2, <3>4
  <2>3. 1..(n + 1) \subseteq S
    <3>1. 1 \in Int /\ n + 1 \in Int
      BY <1>3
    <3> HIDE DEF S
    <3> QED
      BY <2>1, <2>2, <3>1, AllAlong
  <2> QED
    BY <2>3
<1>10. cursor = Last(P)
  BY <1>3, <1>4, <1>8, <1>9
<1>11. ASSUME NEW i \in 1..n PROVE Indexed(w, places[i])
  <2>1. Cell(w, places[i]) /\ Before(places[i], cursor)
    BY <1>3, <1>4, <1>5
  <2>2. places[i].y <= cursor.y /\ places[i].y \in Nat /\ cursor.y \in Nat
    BY <1>1, <2>1, BeforeIsOrder, CellTyped
  <2>3. CellH * (Len(printed) + keys) \in Nat
        /\ \A row \in Nat : row <= CellH * (Len(printed) + keys) => (row + CellH) * w <= Word
    BY Countable, RangedRows DEF Clean
  <2>4. places[i].y <= CellH * (Len(printed) + keys)
    <3> DEFINE rows == CellH * (Len(printed) + keys)
    <3>1. rows \in Nat /\ cursor.y <= rows
      BY <1>1, <2>3
    <3> HIDE DEF rows
    <3>2. places[i].y <= rows
      BY <2>2, <3>1
    <3> QED
      BY <3>2 DEF rows
  <2> QED
    BY <2>2, <2>3, <2>4 DEF Indexed
<1>12. ASSUME NEW i \in 1..n, NEW part \in Parts, PixelAt(P[i], part) \in DOMAIN buffer
       PROVE  buffer[PixelAt(P[i], part)] = {<<input_buffer[i], part>>}
  <2> DEFINE a == PixelAt(P[i], part)
  <2>1. a \in DOMAIN buffer /\ a \in Nat
    BY <1>1, <1>12 DEF Pixels
  <2>2. P[i] = places[i] /\ Cell(w, places[i]) /\ Indexed(w, places[i])
    BY <1>3, <1>5, <1>9, <1>11
  <2>3. PixelAt(places[i], part) = a
    BY <2>2
  <2> HIDE DEF a
  <2>4. IsPixel(w, places[i], part, a)
    BY <1>1, <2>1, <2>2, <2>3, PixelIsThat
  <2>5. buffer[a] = {<<input_buffer[i], part>>}
    BY <1>4, <2>1, <2>4 DEF Shows
  <2> QED
    BY <2>5 DEF a
<1>13. ASSUME NEW part \in Parts, PixelAt(cursor, part) \in DOMAIN buffer
       PROVE  buffer[PixelAt(cursor, part)] = {}
  <2> DEFINE a == PixelAt(cursor, part)
  <2>1. a \in DOMAIN buffer /\ a \in Nat /\ PixelAt(cursor, part) = a
    BY <1>1, <1>13 DEF Pixels
  <2> HIDE DEF a
  <2>2. IsPixel(w, cursor, part, a)
    BY <1>1, <2>1, PixelIsThat
  <2>3. Behind(w, cursor, a)
    BY <1>1, <2>1, <2>2, PixelsInOrder
  <2> QED
    BY <1>2, <2>1, <2>3 DEF Fresh, a
<1> QED
  BY <1>3, <1>10, <1>12, <1>13

\* For every screen, every key and every program: as long as rows and indices are in
\* range, the line a user types who waits for the prompt is on the screen behind it,
\* whole and alone, with the cursor behind it.
THEOREM ConsoleShowsLine == Spec => [](InRange => LineIsShown)
<1> DEFINE Inv == IInv /\ RowsCounted /\ (Clean => Showing)
<1>1. Init => Inv
  BY InitHolds, InitIsCounted, InitShows
<1>2. Inv /\ [Next]_vars => Inv'
  BY NextKeeps, RowsStayCounted, NextShows
<1>3. Inv => (InRange => LineIsShown)
  <2> SUFFICES ASSUME Inv, InRange PROVE LineIsShown
    OBVIOUS
  <2>1. CASE Clean
    BY <2>1, TypingShowsLine
  <2>2. CASE ~ Clean
    BY <2>2 DEF LineIsShown, Clean
  <2> QED
    BY <2>1, <2>2
<1> HIDE DEF Inv
<1> QED
  BY <1>1, <1>2, <1>3, PTL DEF Spec

================================================================================
