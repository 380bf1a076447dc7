-------------------------- MODULE GuestShellProofs ---------------------------
(***************************************************************************)
(* What frridge-mp may believe of a command it ran in the guest: proofs    *)
(* about GuestShell, for any statuses, any words and any number of them.   *)
(*                                                                         *)
(* First what parseShellOutput finds in an output of a given shape, then   *)
(* the shape every output has, whoever read, wrote or cut what.            *)
(***************************************************************************)
EXTENDS GuestShell, WellFoundedInduction, SequenceTheorems, TLAPS

-----------------------------------------------------------------------------
(* The parser.                                                             *)

Token == Word \cup Mark \cup Digit

\* The first output marker is at b, if the output goes that far.
BeginsAt(b, out) ==
    \A i \in 1..Len(out) :
        /\ i < b => out[i] # "begin"
        /\ i = b => out[i] = "begin"
        /\ i = b + 1 => out[i] = "newline"

\* What follows a status marker at i is what follows it in the script.
Echoed(i, out) == out[i] = "status" /\ i < Len(out) => out[i + 1] = "text"

\* No status was reported: all markers after the first are echoes.
Unreported(b, out) == \A i \in (b + 2)..Len(out) : Echoed(i, out)

\* Status s was reported after the words W: all other markers are echoes.
Reported(b, W, s, out) ==
    LET r == b + 2 + Len(W)
        e == r + Len(s) + 1
    IN  \A i \in (b + 2)..Len(out) :
          /\ i < r => out[i] = W[i - b - 1] /\ Echoed(i, out)
          /\ i = r => out[i] = "status"
          /\ r < i /\ i < e => out[i] = s[i - r]
          /\ i = e => out[i] = "newline"
          /\ e < i => Echoed(i, out)

LastStatus(r, b, out) ==
    /\ r \in (b + 2)..Len(out) /\ out[r] = "status"
    /\ \A j \in (r + 1)..Len(out) : out[j] # "status"

CodeAt(r, out) == Terminated(SubSeq(out, r + 1, Len(out)))

LEMMA NatMin ==
  ASSUME NEW T \in SUBSET Nat, T # {}
  PROVE  \E x \in T : \A y \in T : x <= y
  <1> DEFINE R == OpToRel(<, Nat)
  <1>1. IsWellFoundedOn(R, Nat) BY NatLessThanWellFounded
  <1>2. \A x, y \in Nat : <<x, y>> \in R <=> x < y BY DEF OpToRel
  <1> HIDE DEF R
  <1>3. PICK x \in T : \A y \in T : ~ (<<y, x>> \in R) BY <1>1, WFMin
  <1>4. \A y \in T : x <= y
    <2> TAKE y \in T
    <2>1. x \in Nat /\ y \in Nat OBVIOUS
    <2>2. ~ (y < x) BY <1>2, <1>3, <2>1
    <2> QED BY <2>1, <2>2
  <1> QED BY <1>4

\* If there is a status marker after the first output marker, there is a last
\* one.
LEMMA SomeLastStatus ==
  ASSUME NEW out \in Seq(Token), NEW b \in Nat,
         NEW i \in (b + 2)..Len(out), out[i] = "status"
  PROVE  \E r : LastStatus(r, b, out)
  <1> DEFINE T == {Len(out) - j : j \in {k \in (b + 2)..Len(out) : out[k] = "status"}}
  <1>1. Len(out) \in Nat OBVIOUS
  <1>2. T \in SUBSET Nat /\ T # {} BY <1>1
  <1>3. PICK x \in T : \A y \in T : x <= y BY <1>2, NatMin
  <1>4. PICK r \in (b + 2)..Len(out) : out[r] = "status" /\ x = Len(out) - r BY <1>3
  <1>5. ASSUME NEW j \in (r + 1)..Len(out) PROVE out[j] # "status"
    <2> SUFFICES ASSUME out[j] = "status" PROVE FALSE OBVIOUS
    <2>1. j \in (b + 2)..Len(out) BY <1>1, <1>4
    <2>2. Len(out) - j \in T BY <2>1
    <2>3. x <= Len(out) - j BY <1>3, <2>2
    <2> QED BY <1>1, <1>4, <2>3
  <1> QED BY <1>4, <1>5 DEF LastStatus

LEMMA PrefixFacts ==
  ASSUME NEW S, NEW s \in Seq(S), NEW n \in 0..Len(s)
  PROVE  /\ SubSeq(s, 1, n) \in Seq(S) /\ Len(SubSeq(s, 1, n)) = n
         /\ \A i \in 1..n : SubSeq(s, 1, n)[i] = s[i]
  <1> DEFINE u == SubSeq(s, 1, n)
  <1>1. Len(s) \in Nat /\ n \in Nat OBVIOUS
  <1>2. \A i \in 1..n : s[i] \in S BY <1>1
  <1>3. /\ u \in Seq(S) /\ Len(u) = IF 1 <= n THEN n - 1 + 1 ELSE 0
        /\ \A i \in 1..(n - 1 + 1) : u[i] = s[1 + i - 1]
    BY <1>1, <1>2, SubSeqProperties
  <1> HIDE DEF u
  <1>4. ASSUME NEW i \in 1..n PROVE u[i] = s[i]
    <2>1. n - 1 + 1 = n /\ 1 + i - 1 = i BY <1>1
    <2> QED BY <1>3, <2>1
  <1> QED BY <1>1, <1>3, <1>4 DEF u

LEMMA SuffixFacts ==
  ASSUME NEW S, NEW s \in Seq(S), NEW r \in 0..Len(s), NEW n \in r..Len(s)
  PROVE  /\ SubSeq(s, r + 1, n) \in Seq(S) /\ Len(SubSeq(s, r + 1, n)) = n - r
         /\ \A i \in 1..(n - r) : SubSeq(s, r + 1, n)[i] = s[r + i]
  <1> DEFINE u == SubSeq(s, r + 1, n)
  <1>1. Len(s) \in Nat /\ r \in Nat /\ n \in Nat /\ r <= n /\ n <= Len(s) OBVIOUS
  <1>2. \A i \in (r + 1)..n : s[i] \in S BY <1>1
  <1>3. /\ u \in Seq(S) /\ Len(u) = IF r + 1 <= n THEN n - (r + 1) + 1 ELSE 0
        /\ \A i \in 1..(n - (r + 1) + 1) : u[i] = s[(r + 1) + i - 1]
    BY <1>1, <1>2, SubSeqProperties
  <1> HIDE DEF u
  <1>4. ASSUME NEW i \in 1..(n - r) PROVE u[i] = s[r + i]
    <2>1. n - (r + 1) + 1 = n - r /\ (r + 1) + i - 1 = r + i BY <1>1
    <2> QED BY <1>3, <2>1
  <1> QED BY <1>1, <1>3, <1>4 DEF u

\* The text after the last marker is a status only if digits and a newline
\* follow, and nothing else.
LEMMA CodeFacts ==
  ASSUME NEW out \in Seq(Token), NEW r \in 1..Len(out), IsCode(CodeAt(r, out))
  PROVE  /\ Len(out) >= r + 2 /\ out[Len(out)] = "newline"
         /\ \A i \in (r + 1)..(Len(out) - 1) : out[i] \in Digit
         /\ CodeAt(r, out) = SubSeq(out, r + 1, Len(out) - 1)
  <1> DEFINE t == SubSeq(out, r + 1, Len(out))
             c == Terminated(t)
             n == Len(out) - r
             u == SubSeq(out, r + 1, Len(out) - 1)
  <1>0. Len(out) \in Nat /\ r \in Nat /\ n \in Nat /\ r <= Len(out) OBVIOUS
  <1>1. t \in Seq(Token) /\ Len(t) = n /\ \A i \in 1..n : t[i] = out[r + i]
    BY <1>0, SuffixFacts
  <1>c. IsCode(c) BY DEF CodeAt
  <1>2. c # <<>> BY <1>c DEF IsCode
  <1> HIDE DEF t
  <1>3. t # <<>> /\ t[Len(t)] = "newline" /\ c = SubSeq(t, 1, Len(t) - 1)
    BY <1>2 DEF Terminated, Last, Front
  <1> HIDE DEF c
  <1>n. n - 1 \in 0..Len(t) BY <1>1, <1>3
  <1>4. c \in Seq(Token) /\ Len(c) = n - 1 /\ \A i \in 1..(n - 1) : c[i] = t[i]
    BY <1>1, <1>3, <1>n, PrefixFacts
  <1>5. DOMAIN c = 1..(n - 1) /\ n - 1 # 0 BY <1>2, <1>4
  <1>6. \A i \in 1..(n - 1) : c[i] \in Digit BY <1>c, <1>5 DEF IsCode
  <1>7. n >= 2 BY <1>n, <1>5
  <1>8. t[n] = out[r + n] /\ r + n = Len(out) BY <1>0, <1>1, <1>7
  <1>9. \A i \in 1..(n - 1) : t[i] = out[r + i]
    <2> TAKE i \in 1..(n - 1)
    <2>1. i \in 1..n BY <1>0
    <2> QED BY <1>1, <2>1
  <1>10. ASSUME NEW i \in (r + 1)..(Len(out) - 1) PROVE out[i] \in Digit
    <2>1. i - r \in 1..(n - 1) /\ r + (i - r) = i BY <1>0
    <2> QED BY <1>4, <1>6, <1>9, <2>1
  <1>11. /\ u \in Seq(Token) /\ Len(u) = (Len(out) - 1) - r
         /\ \A i \in 1..((Len(out) - 1) - r) : u[i] = out[r + i]
    <2>1. r \in 0..Len(out) /\ Len(out) - 1 \in r..Len(out) BY <1>0, <1>7
    <2> HIDE DEF n
    <2> QED BY <2>1, SuffixFacts
  <1>12. (Len(out) - 1) - r = n - 1 BY <1>0
  <1> HIDE DEF u
  <1>13. c = u
    <2>1. \A i \in 1..Len(c) : c[i] = u[i] BY <1>4, <1>9, <1>11, <1>12
    <2>2. Len(c) = Len(u) BY <1>4, <1>11, <1>12
    <2> HIDE DEF n
    <2> QED BY <1>4, <1>11, <2>1, <2>2, SeqEqual
  <1>14. Len(out) >= r + 2 BY <1>0, <1>7
  <1>15. out[Len(out)] = "newline" BY <1>1, <1>3, <1>8
  <1> QED BY <1>10, <1>13, <1>14, <1>15 DEF CodeAt, c, t, u

\* parseShellOutput, in terms of positions in the output.
LEMMA ParseAt ==
  ASSUME NEW out \in Seq(Token), NEW b \in Nat \ {0}, BeginsAt(b, out),
         NEW r, LastStatus(r, b, out)
  PROVE  Parse(out) =
           IF IsCode(CodeAt(r, out))
           THEN Answer(IF CodeAt(r, out) = Zero THEN "success" ELSE "exited",
                       CodeAt(r, out), SubSeq(out, b + 2, r - 1))
           ELSE Answer("protocol", NoStatus, <<>>)
  <1> DEFINE begins == {i \in 1..(Len(out) - 1) : out[i] = "begin" /\ out[i + 1] = "newline"}
             first  == CHOOSE i \in begins : \A j \in begins : i <= j
             rest   == SubSeq(out, first + 2, Len(out))
             marks  == {i \in DOMAIN rest : rest[i] = "status"}
             last   == CHOOSE i \in marks : \A j \in marks : j <= i
             code   == Terminated(SubSeq(rest, last + 1, Len(rest)))
  <1>1. Len(out) \in Nat /\ r \in Nat /\ b + 2 <= r /\ r <= Len(out) BY DEF LastStatus
  <1>2. first = b
    <2>1. b \in begins BY <1>1 DEF BeginsAt
    <2>2. \A j \in begins : b <= j BY <1>1 DEF BeginsAt
    <2>3. begins \subseteq Nat BY <1>1
    <2> HIDE DEF begins
    <2>4. \A x \in begins : (\A j \in begins : x <= j) => x = b BY <2>1, <2>2, <2>3
    <2>5. \E x \in begins : \A j \in begins : x <= j BY <2>1, <2>2
    <2> QED BY <2>4, <2>5
  <1> HIDE DEF first
  <1>3. /\ rest \in Seq(Token) /\ Len(rest) = Len(out) - (b + 1)
        /\ \A i \in 1..(Len(out) - (b + 1)) : rest[i] = out[(b + 1) + i]
    <2>1. b + 1 \in 0..Len(out) /\ Len(out) \in (b + 1)..Len(out) BY <1>1
    <2>2. rest = SubSeq(out, (b + 1) + 1, Len(out)) BY <1>2
    <2> HIDE DEF rest
    <2> QED BY <2>1, <2>2, SuffixFacts
  <1> HIDE DEF rest
  <1>4. \A i \in marks : i \in 1..(Len(out) - (b + 1)) /\ out[(b + 1) + i] = "status"
    <2> TAKE i \in marks
    <2>1. DOMAIN rest = 1..(Len(out) - (b + 1)) BY <1>3
    <2>2. i \in 1..(Len(out) - (b + 1)) /\ rest[i] = "status" BY <2>1
    <2> QED BY <1>3, <2>2
  <1>5. r - (b + 1) \in marks
    <2>1. r - (b + 1) \in 1..(Len(out) - (b + 1)) /\ (b + 1) + (r - (b + 1)) = r BY <1>1
    <2>2. rest[r - (b + 1)] = "status" BY <1>3, <2>1 DEF LastStatus
    <2> QED BY <1>3, <2>1, <2>2
  <1>6. \A j \in marks : j <= r - (b + 1)
    <2> TAKE j \in marks
    <2>1. j \in 1..(Len(out) - (b + 1)) /\ out[(b + 1) + j] = "status" BY <1>4
    <2>2. (b + 1) + j \notin (r + 1)..Len(out) BY <2>1 DEF LastStatus
    <2> HIDE DEF marks
    <2> QED BY <1>1, <2>1, <2>2
  <1>7. last = r - (b + 1)
    <2>1. marks \subseteq Nat BY <1>4
    <2> HIDE DEF marks
    <2>2. \A x \in marks : (\A j \in marks : j <= x) => x = r - (b + 1)
      BY <1>1, <1>5, <1>6, <2>1
    <2>3. \E x \in marks : \A j \in marks : j <= x BY <1>5, <1>6
    <2> QED BY <2>2, <2>3
  <1> HIDE DEF last, marks, begins
  <1>n. /\ last \in Nat /\ last >= 1 /\ last <= Len(rest) /\ (b + 1) + last = r
        /\ Len(rest) \in Nat /\ Len(out) - r = Len(rest) - last
    BY <1>1, <1>3, <1>7
  <1>8. SubSeq(rest, last + 1, Len(rest)) = SubSeq(out, r + 1, Len(out))
    <2> DEFINE x == SubSeq(rest, last + 1, Len(rest))
               y == SubSeq(out, r + 1, Len(out))
    <2>1. /\ x \in Seq(Token) /\ Len(x) = Len(rest) - last
          /\ \A i \in 1..(Len(rest) - last) : x[i] = rest[last + i]
      BY <1>3, <1>n, SuffixFacts
    <2>2. /\ y \in Seq(Token) /\ Len(y) = Len(out) - r
          /\ \A i \in 1..(Len(out) - r) : y[i] = out[r + i]
      BY <1>1, SuffixFacts
    <2> HIDE DEF x, y
    <2>3. ASSUME NEW i \in 1..Len(x) PROVE x[i] = y[i]
      <3>1. last + i \in 1..Len(rest) /\ (b + 1) + (last + i) = r + i BY <1>n, <2>1
      <3>2. rest[last + i] = out[(b + 1) + (last + i)] BY <1>3, <3>1
      <3> QED BY <1>n, <2>1, <2>2, <3>1, <3>2
    <2>4. Len(x) = Len(y) BY <1>n, <2>1, <2>2
    <2>5. x = y BY <2>1, <2>2, <2>3, <2>4, SeqEqual
    <2> QED BY <2>5 DEF x, y
  <1>9. SubSeq(rest, 1, last - 1) = SubSeq(out, b + 2, r - 1)
    <2> DEFINE x == SubSeq(rest, 1, last - 1)
               y == SubSeq(out, (b + 1) + 1, r - 1)
    <2>1. /\ x \in Seq(Token) /\ Len(x) = last - 1
          /\ \A i \in 1..(last - 1) : x[i] = rest[i]
      <3>1. last - 1 \in 0..Len(rest) BY <1>n
      <3> QED BY <1>3, <3>1, PrefixFacts
    <2>2. /\ y \in Seq(Token) /\ Len(y) = (r - 1) - (b + 1)
          /\ \A i \in 1..((r - 1) - (b + 1)) : y[i] = out[(b + 1) + i]
      <3>1. b + 1 \in 0..Len(out) /\ r - 1 \in (b + 1)..Len(out) BY <1>1
      <3> QED BY <3>1, SuffixFacts
    <2> HIDE DEF x, y
    <2>3. (r - 1) - (b + 1) = last - 1 BY <1>1, <1>n
    <2>4. ASSUME NEW i \in 1..(last - 1) PROVE x[i] = y[i]
      <3>1. i \in 1..(Len(out) - (b + 1)) BY <1>1, <1>3, <1>n
      <3> QED BY <1>3, <2>1, <2>2, <2>3, <3>1
    <2>5. x = y BY <2>1, <2>2, <2>3, <2>4, SeqEqual
    <2>6. (b + 1) + 1 = b + 2 OBVIOUS
    <2> QED BY <2>5, <2>6 DEF x, y
  <1>10. begins # {} /\ marks # {}
    <2>1. b \in begins BY <1>1 DEF BeginsAt, begins
    <2> QED BY <1>5, <2>1
  <1> HIDE DEF code
  <1>11. code = CodeAt(r, out) BY <1>8 DEF code, CodeAt
  <1>12. Parse(out) = IF begins # {} /\ marks # {} /\ IsCode(code)
           THEN Answer(IF code = Zero THEN "success" ELSE "exited", code, SubSeq(rest, 1, last - 1))
           ELSE Answer("protocol", NoStatus, <<>>)
    BY DEF Parse, code, last, marks, begins, first, rest
  <1> QED BY <1>9, <1>10, <1>11, <1>12

\* Without a marker there is no status.
LEMMA ParseNothing ==
  ASSUME NEW out \in Seq(Token), NEW b \in Nat \ {0}, BeginsAt(b, out),
         \A r : ~ LastStatus(r, b, out)
  PROVE  Parse(out) = Answer("protocol", NoStatus, <<>>)
  <1> DEFINE begins == {i \in 1..(Len(out) - 1) : out[i] = "begin" /\ out[i + 1] = "newline"}
             first  == CHOOSE i \in begins : \A j \in begins : i <= j
             rest   == SubSeq(out, first + 2, Len(out))
             marks  == {i \in DOMAIN rest : rest[i] = "status"}
             last   == CHOOSE i \in marks : \A j \in marks : j <= i
             code   == Terminated(SubSeq(rest, last + 1, Len(rest)))
  <1>0. Len(out) \in Nat OBVIOUS
  <1>1. Parse(out) = IF begins # {} /\ marks # {} /\ IsCode(code)
          THEN Answer(IF code = Zero THEN "success" ELSE "exited", code, SubSeq(rest, 1, last - 1))
          ELSE Answer("protocol", NoStatus, <<>>)
    BY DEF Parse
  <1> HIDE DEF code, last
  <1> SUFFICES ASSUME begins # {}, marks # {} PROVE FALSE BY <1>1
  <1>2. PICK i \in begins : TRUE OBVIOUS
  <1>3. b <= i /\ b \in 1..(Len(out) - 1)
    <2>1. i \in 1..Len(out) /\ out[i] = "begin" /\ i <= Len(out) - 1 BY <1>0, <1>2
    <2>2. ~ (i < b) BY <2>1 DEF BeginsAt
    <2> QED BY <1>0, <2>1, <2>2
  <1>4. first = b
    <2>1. b \in begins BY <1>0, <1>3 DEF BeginsAt
    <2>2. \A j \in begins : b <= j BY <1>0, <1>3 DEF BeginsAt
    <2>3. begins \subseteq Nat BY <1>0
    <2> HIDE DEF begins
    <2>4. \A x \in begins : (\A j \in begins : x <= j) => x = b BY <2>1, <2>2, <2>3
    <2>5. \E x \in begins : \A j \in begins : x <= j BY <2>1, <2>2
    <2> QED BY <2>4, <2>5
  <1> HIDE DEF first
  <1>5. /\ rest \in Seq(Token) /\ Len(rest) = Len(out) - (b + 1)
        /\ \A k \in 1..(Len(out) - (b + 1)) : rest[k] = out[(b + 1) + k]
    <2>1. b + 1 \in 0..Len(out) /\ Len(out) \in (b + 1)..Len(out) BY <1>0, <1>3
    <2>2. rest = SubSeq(out, (b + 1) + 1, Len(out)) BY <1>4
    <2> HIDE DEF rest
    <2> QED BY <2>1, <2>2, SuffixFacts
  <1> HIDE DEF rest
  <1>6. PICK j \in 1..(Len(out) - (b + 1)) : out[(b + 1) + j] = "status"
    <2>1. PICK j \in marks : TRUE OBVIOUS
    <2>2. j \in 1..(Len(out) - (b + 1)) /\ rest[j] = "status" BY <1>5, <2>1
    <2> QED BY <1>5, <2>2
  <1>7. (b + 1) + j \in (b + 2)..Len(out) BY <1>0, <1>6
  <1> QED BY <1>6, <1>7, SomeLastStatus

\* If nothing was reported, nothing is found: echoes of the marker are no
\* status, nor are parts of one.
LEMMA ParseUnreported ==
  ASSUME NEW out \in Seq(Token), NEW b \in Nat \ {0}, BeginsAt(b, out), Unreported(b, out)
  PROVE  Parse(out).kind = "protocol"
  <1>1. CASE \A r : ~ LastStatus(r, b, out) BY <1>1, ParseNothing DEF Answer
  <1>2. ASSUME NEW r, LastStatus(r, b, out) PROVE Parse(out).kind = "protocol"
    <2>1. Len(out) \in Nat /\ r \in Nat /\ r \in 1..Len(out) /\ r \in (b + 2)..Len(out)
          /\ out[r] = "status"
      BY <1>2 DEF LastStatus
    <2>2. ~ IsCode(CodeAt(r, out))
      <3> SUFFICES ASSUME IsCode(CodeAt(r, out)) PROVE FALSE OBVIOUS
      <3>1. Len(out) >= r + 2 /\ out[r + 1] \in Digit BY <2>1, CodeFacts
      <3>2. out[r + 1] = "text" BY <2>1, <3>1 DEF Unreported, Echoed
      <3> QED BY <3>1, <3>2 DEF Digit
    <2> QED BY <1>2, <2>2, ParseAt DEF Answer
  <1> QED BY <1>1, <1>2

\* If a status was reported, it is found with the words before it, or nothing
\* is: neither an echo, nor a part of the status, nor a word after it counts.
LEMMA ParseReported ==
  ASSUME NEW out \in Seq(Token), NEW b \in Nat \ {0}, BeginsAt(b, out),
         NEW W \in Seq(Token), NEW s \in Seq(Digit), IsCode(s), Reported(b, W, s, out),
         \/ Parse(out).kind # "protocol"
         \/ Len(out) = b + 3 + Len(W) + Len(s)
  PROVE  Parse(out) = Answer(IF s = Zero THEN "success" ELSE "exited", s, W)
  <1> DEFINE r == b + 2 + Len(W)
             e == r + Len(s) + 1
             n == Len(out)
  <1>0. /\ n \in Nat /\ r \in Nat /\ e \in Nat /\ Len(s) \in Nat /\ Len(W) \in Nat
        /\ b + 2 <= r /\ r < e /\ DOMAIN s = 1..Len(s)
    OBVIOUS
  <1>1. \A i \in (b + 2)..n :
          /\ i < r => out[i] = W[i - b - 1] /\ Echoed(i, out)
          /\ i = r => out[i] = "status"
          /\ r < i /\ i < e => out[i] = s[i - r]
          /\ i = e => out[i] = "newline"
          /\ e < i => Echoed(i, out)
    BY DEF Reported
  <1>2. \A i \in (b + 2)..n : r < i /\ i < e => out[i] \in Digit
    <2> SUFFICES ASSUME NEW i \in (b + 2)..n, r < i, i < e PROVE out[i] \in Digit OBVIOUS
    <2>1. i - r \in 1..Len(s) BY <1>0
    <2>2. out[i] = s[i - r] BY <1>1
    <2> QED BY <2>1, <2>2
  <1> HIDE DEF r, e
  <1>3. ASSUME NEW q, LastStatus(q, b, out), IsCode(CodeAt(q, out)) PROVE q = r /\ n = e
    <2>1. q \in Nat /\ b + 2 <= q /\ q <= n /\ out[q] = "status" BY <1>0, <1>3 DEF LastStatus
    <2>2. /\ n >= q + 2 /\ out[n] = "newline"
          /\ \A i \in (q + 1)..(n - 1) : out[i] \in Digit
      BY <1>0, <1>3, <2>1, CodeFacts
    <2>3. out[q + 1] \in Digit BY <1>0, <2>1, <2>2
    <2>4. ~ Echoed(q, out) BY <1>0, <2>1, <2>2, <2>3 DEF Echoed, Digit
    <2>5. q = r
      <3>1. q \in (b + 2)..n BY <1>0, <2>1
      <3>2. ~ (q < r) /\ ~ (e < q) BY <1>1, <2>4, <3>1
      <3>3. ~ (r < q /\ q < e) BY <1>2, <2>1, <3>1 DEF Digit
      <3>4. q # e BY <1>1, <2>1, <3>1
      <3> QED BY <1>0, <2>1, <3>2, <3>3, <3>4
    <2>6. ~ (e < n)
      <3> SUFFICES ASSUME e < n PROVE FALSE OBVIOUS
      <3>1. e \in (q + 1)..(n - 1) /\ e \in (b + 2)..n BY <1>0, <2>5
      <3> QED BY <1>1, <2>2, <3>1 DEF Digit
    <2>7. ~ (n < e)
      <3> SUFFICES ASSUME n < e PROVE FALSE OBVIOUS
      <3>1. n \in (b + 2)..n /\ r < n BY <1>0, <2>1, <2>2, <2>5
      <3> QED BY <1>2, <2>2, <3>1 DEF Digit
    <2> QED BY <1>0, <2>5, <2>6, <2>7
  <1>4. ASSUME n = e PROVE LastStatus(r, b, out) /\ CodeAt(r, out) = s /\ IsCode(CodeAt(r, out))
    <2>1. r \in (b + 2)..n /\ out[r] = "status" BY <1>0, <1>1, <1>4
    <2>2. \A j \in (r + 1)..n : out[j] # "status"
      <3> TAKE j \in (r + 1)..n
      <3>1. j \in (b + 2)..n /\ r < j /\ (j < e \/ j = e) BY <1>0, <1>4
      <3> QED BY <1>1, <1>2, <3>1 DEF Digit
    <2>3. CodeAt(r, out) = s
      <3> DEFINE t == SubSeq(out, r + 1, n)
                 u == SubSeq(t, 1, Len(t) - 1)
      <3>1. e = r + Len(s) + 1 BY DEF e
      <3>2. t \in Seq(Token) /\ Len(t) = n - r /\ \A i \in 1..(n - r) : t[i] = out[r + i]
        BY <1>0, <1>4, SuffixFacts
      <3> HIDE DEF t
      <3>3. n - r = Len(s) + 1 /\ r + (n - r) = e BY <1>0, <1>4, <3>1
      <3>4. t # <<>> BY <1>0, <3>2, <3>3
      <3>5. Last(t) = "newline"
        <4>0. n - r \in 1..(n - r) BY <1>0, <3>3
        <4>1. t[n - r] = out[r + (n - r)] BY <3>2, <4>0
        <4>2. out[e] = "newline" BY <1>0, <1>1, <1>4
        <4> QED BY <3>2, <3>3, <4>1, <4>2 DEF Last
      <3>6. u \in Seq(Token) /\ Len(u) = Len(s) /\ \A i \in 1..Len(s) : u[i] = t[i]
        <4>0. Len(t) = Len(s) + 1 BY <3>2, <3>3
        <4>1. Len(t) - 1 = Len(s) /\ Len(s) \in 0..Len(t) BY <1>0, <4>0
        <4> HIDE DEF n
        <4> QED BY <3>2, <4>1, PrefixFacts
      <3>7. ASSUME NEW i \in 1..Len(s) PROVE u[i] = s[i]
        <4>1. i \in 1..(n - r) /\ r + i \in (b + 2)..n /\ r < r + i /\ r + i < e /\ (r + i) - r = i
          BY <1>0, <1>4, <3>1, <3>3
        <4> QED BY <1>1, <3>2, <3>6, <4>1
      <3> HIDE DEF u
      <3>8. s \in Seq(Token)
        <4>1. \A i \in 1..Len(s) : s[i] \in Token BY DEF Token
        <4> QED BY <1>0, <4>1
      <3>9. u = s BY <3>6, <3>7, <3>8, SeqEqual
      <3> QED BY <3>4, <3>5, <3>9 DEF CodeAt, Terminated, Front, t, u
    <2> QED BY <2>1, <2>2, <2>3 DEF LastStatus
  <1>5. n = e
    <2>1. CASE Len(out) = b + 3 + Len(W) + Len(s) BY <1>0, <2>1 DEF e, r
    <2>2. CASE Parse(out).kind # "protocol"
      <3>1. PICK q : LastStatus(q, b, out) BY <2>2, ParseNothing DEF Answer
      <3>2. IsCode(CodeAt(q, out)) BY <2>2, <3>1, ParseAt DEF Answer
      <3> QED BY <1>3, <3>1, <3>2
    <2> QED BY <2>1, <2>2
  <1>6. SubSeq(out, b + 2, r - 1) = W
    <2> DEFINE u == SubSeq(out, (b + 1) + 1, r - 1)
    <2>1. b + 1 \in 0..n /\ r - 1 \in (b + 1)..n BY <1>0, <1>5
    <2>2. /\ u \in Seq(Token) /\ Len(u) = (r - 1) - (b + 1)
          /\ \A i \in 1..((r - 1) - (b + 1)) : u[i] = out[(b + 1) + i]
      BY <2>1, SuffixFacts
    <2> HIDE DEF u
    <2>3. (r - 1) - (b + 1) = Len(W) BY <1>0 DEF r
    <2>4. ASSUME NEW i \in 1..Len(W) PROVE u[i] = W[i]
      <3>1. (b + 1) + i \in (b + 2)..n /\ (b + 1) + i < r /\ (b + 1) + i - b - 1 = i
        BY <1>0, <1>5, <2>3
      <3> QED BY <1>1, <2>2, <2>3, <3>1
    <2>5. u = W BY <2>2, <2>3, <2>4, SeqEqual
    <2>6. (b + 1) + 1 = b + 2 OBVIOUS
    <2> QED BY <2>5, <2>6 DEF u
  <1> QED BY <1>4, <1>5, <1>6, ParseAt

-----------------------------------------------------------------------------
(* The invariant.                                                          *)

\* The script, last line first: what is left of it is known by its length.
LinesOf(m) ==
    IF m = "buffered"
    THEN <<"exit", "report", "status", "command", "noerrexit", "begin", "export", "cd", "set">>
    ELSE <<"users", "exitstatus", "status", "command", "noerrexit", "export", "cd", "set">>

Line == {"set", "cd", "export", "begin", "noerrexit", "command", "status", "report", "exit",
         "exitstatus", "users", "torn"}

Ended == state \notin {Unopened, Opened}

ShellTypes ==
    /\ mode \in {"buffered", "stream"}
    /\ input \in Seq(Line)
    /\ settings \in [errexit : BOOLEAN, nounset : BOOLEAN, status : Status \cup {NoStatus}]
    /\ command \in Status \cup {NotRun, Running}
    /\ output \in Seq(Token)
    /\ history \in [words : Seq(Token), read : BOOLEAN, late : Nat, cut : BOOLEAN, failed : BOOLEAN]

\* Before the command runs nothing has disturbed the shell, and before the
\* connection is opened there is nothing at all.
Untouched ==
    /\ command = NotRun => history.words = <<>> /\ ~history.read /\ history.late = 0
    /\ state = Unopened =>
         /\ input = <<>> /\ command = NotRun /\ output = <<>> /\ answer.kind = "none"
         /\ ~settings.errexit /\ settings.status = NoStatus
         /\ ~history.cut /\ ~history.failed

\* What is left of the script, of which the command may have read a part.
Left(m, in, read) ==
    /\ Len(in) <= Len(LinesOf(m))
    /\ \A i \in 1..Len(in) :
         \/ in[i] = LinesOf(m)[Len(in) - i + 1]
         \/ i = 1 /\ in[i] = "torn" /\ read

InputOK == Left(mode, input, history.read)

\* What the shell knows at each line.
ControlOK ==
    /\ command = NotRun <=> Len(input) >= 4
    /\ settings.errexit => Len(input) >= 5
    /\ settings.status # NoStatus => settings.status = command
    /\ history.cut => Ended

\* If the command reads nothing, the shell gets to every line.
UnreadOK ==
    ~history.read =>
      /\ Len(input) >= 1 /\ (mode = "stream" => Len(input) >= 2)
      /\ command = Running => Len(input) = 3
      /\ Len(input) <= 2 => settings.status # NoStatus

Pending(in) == \E i \in DOMAIN in : in[i] = "report"

\* The output before the report, and after it.
BeforeReport(b) ==
    /\ Unreported(b, output)
    /\ ~history.cut =>
         /\ Len(input) >= 6 => Len(output) < b
         /\ Len(input) <= 5 => Len(output) > b /\ output[Len(output)] # "status"
         /\ Len(input) <= 5 /\ Pending(input) =>
              /\ Len(output) = b + 1 + Len(history.words)
              /\ \A i \in 1..Len(history.words) : output[b + 1 + i] = history.words[i]
    /\ ~history.read => Len(input) >= 2

AfterReport(b) ==
    /\ settings.status \in Status
    /\ Reported(b, history.words, settings.status, output)
    /\ ~Pending(input) /\ Len(input) <= 5
    /\ ~history.cut =>
         /\ Len(output) >= b + 3 + Len(history.words) + Len(settings.status)
         /\ output[Len(output)] # "status"
         /\ history.late = 0 =>
              Len(output) = b + 3 + Len(history.words) + Len(settings.status)

OutputOK ==
    mode = "buffered" =>
      \E b \in Nat \ {0} : BeginsAt(b, output) /\ (BeforeReport(b) \/ AfterReport(b))

Undisturbed == ~history.read /\ history.late = 0 /\ ~history.cut /\ ~history.failed

\* Undisturbed, the shell ends with the status, or with the report of it.
EndOK ==
    Ended /\ Undisturbed =>
      /\ settings.status # NoStatus
      /\ IF mode = "buffered" THEN state = Zero /\ Len(input) = 1 ELSE state = command

ShellCore ==
    /\ ShellTypes /\ Untouched
    /\ state # Unopened => InputOK /\ ControlOK /\ UnreadOK /\ OutputOK
    /\ EndOK

ShellInv ==
    /\ ShellCore
    /\ answer.kind # "none" => Ended
    /\ AnswerIsTheCommands /\ UndisturbedIsAnswered

LEMMA StatusFacts ==
  /\ <<"1">> \in Seq(Digit) /\ <<"1">> \notin {Unopened, Opened, NotRun, Running}
  /\ \A s \in Status :
       /\ s \in Seq(Digit) /\ IsCode(s)
       /\ s \notin {Unopened, Opened, NotRun, Running}
  <1>1. \A s \in Seq(Digit) : s \notin {Unopened, Opened, NotRun, Running}
    <2> TAKE s \in Seq(Digit)
    <2>1. Len(s) = 1 => s[1] \in Digit OBVIOUS
    <2>2. ASSUME NEW x, x \notin Digit PROVE s # <<x>>
      <3>1. Len(<<x>>) = 1 /\ <<x>>[1] = x OBVIOUS
      <3> QED BY <2>1, <2>2, <3>1
    <2>3. {"unopened", "opened", "not run", "running"} \cap Digit = {} BY DEF Digit
    <2> QED BY <2>2, <2>3 DEF Unopened, Opened, NotRun, Running
  <1>2. <<"1">> \in Seq(Digit) BY DEF Digit
  <1> QED BY <1>1, <1>2, StatusAssumption, CodeAssumption

LEMMA StateFacts ==
  /\ Unopened # Opened /\ NotRun # Running
  /\ \A s \in Status : s # <<>>
  BY CodeAssumption DEF Unopened, Opened, NotRun, Running, IsCode

\* Where each line stands in the script.
LEMMA Places ==
  ASSUME NEW m \in {"buffered", "stream"}
  PROVE  /\ Len(LinesOf(m)) = IF m = "buffered" THEN 9 ELSE 8
         /\ \A k \in 1..Len(LinesOf(m)) :
              LET line == LinesOf(m)[k] IN
              /\ line \in Line \ {"torn"}
              /\ line = "set" => k >= 8
              /\ line = "cd" => k >= 7
              /\ line = "export" => k >= 6 /\ (m = "buffered" => k >= 7)
              /\ line = "begin" <=> m = "buffered" /\ k = 6
              /\ line = "noerrexit" <=> k = 5
              /\ line = "command" <=> k = 4
              /\ line = "status" <=> k = 3
              /\ line = "report" <=> m = "buffered" /\ k = 2
              /\ line = "exitstatus" <=> m = "stream" /\ k = 2
              /\ line = "exit" <=> m = "buffered" /\ k = 1
              /\ line = "users" <=> m = "stream" /\ k = 1
  <1>1. CASE m = "buffered" BY <1>1 DEF LinesOf, Line
  <1>2. CASE m = "stream" BY <1>2 DEF LinesOf, Line
  <1> QED BY <1>1, <1>2

LEMMA LineAt ==
  ASSUME NEW m \in {"buffered", "stream"}, NEW in \in Seq(Line), NEW read \in BOOLEAN,
         Left(m, in, read), NEW i \in 1..Len(in), i # 1 \/ ~read \/ in[i] # "torn"
  PROVE  /\ Len(in) \in Nat /\ Len(in) - i + 1 \in 1..Len(LinesOf(m))
         /\ in[i] = LinesOf(m)[Len(in) - i + 1]
  <1>1. Len(in) \in Nat /\ Len(LinesOf(m)) \in Nat BY Places
  <1>2. Len(in) - i + 1 \in 1..Len(LinesOf(m)) BY <1>1 DEF Left
  <1> QED BY <1>1, <1>2 DEF Left

\* The report is still to come if more than it and the exit is left.
LEMMA PendingIs ==
  ASSUME NEW in \in Seq(Line), NEW read \in BOOLEAN, Left("buffered", in, read)
  PROVE  /\ Pending(in) <=> Len(in) >= 3 \/ (Len(in) = 2 /\ in[1] = "report")
         /\ (\E i \in DOMAIN in : in[i] \in {"report", "exitstatus"}) <=> Pending(in)
  <1>1. Len(in) \in Nat /\ DOMAIN in = 1..Len(in) OBVIOUS
  <1>2. ASSUME NEW i \in 1..Len(in)
        PROVE  in[i] # "exitstatus" /\ (in[i] = "report" => Len(in) - i + 1 = 2)
    <2>1. CASE in[i] = "torn" BY <2>1
    <2>2. CASE in[i] # "torn"
      <3>1. Len(in) - i + 1 \in 1..Len(LinesOf("buffered"))
            /\ in[i] = LinesOf("buffered")[Len(in) - i + 1]
        BY <2>2, LineAt
      <3> QED BY <3>1, Places
    <2> QED BY <2>1, <2>2
  <1>3. Len(in) >= 3 => in[Len(in) - 1] = "report"
    <2> SUFFICES ASSUME Len(in) >= 3 PROVE in[Len(in) - 1] = "report" OBVIOUS
    <2>1. Len(in) - 1 \in 1..Len(in) /\ Len(in) - 1 # 1 /\ Len(in) - (Len(in) - 1) + 1 = 2
      BY <1>1
    <2>2. in[Len(in) - 1] = LinesOf("buffered")[2] BY <2>1, LineAt
    <2> QED BY <2>2, Places
  <1>4. Pending(in) => Len(in) >= 3 \/ (Len(in) = 2 /\ in[1] = "report")
    <2> SUFFICES ASSUME NEW i \in 1..Len(in), in[i] = "report"
                 PROVE  Len(in) >= 3 \/ (Len(in) = 2 /\ in[1] = "report")
      BY <1>1 DEF Pending
    <2>1. Len(in) - i + 1 = 2 BY <1>2
    <2>2. i \in Nat /\ i >= 1 BY <1>1
    <2>3. Len(in) = i + 1
      <3>1. \A n, k \in Nat : n - k + 1 = 2 => n = k + 1 OBVIOUS
      <3> QED BY ONLY <1>1, <2>1, <2>2, <3>1
    <2>4. i = 1 \/ i >= 2 BY <2>2
    <2> QED BY <1>1, <2>2, <2>3, <2>4
  <1>5. Len(in) >= 3 \/ (Len(in) = 2 /\ in[1] = "report") => Pending(in)
    <2>1. Len(in) >= 3 => Len(in) - 1 \in DOMAIN in BY <1>1
    <2>2. Len(in) = 2 => 1 \in DOMAIN in BY <1>1
    <2> QED BY <1>3, <2>1, <2>2 DEF Pending
  <1> QED BY <1>1, <1>2, <1>4, <1>5 DEF Pending

\* Without its first line, or with only a part of it, the script is what was
\* left.
LEMMA TailLeft ==
  ASSUME NEW m \in {"buffered", "stream"}, NEW in \in Seq(Line), in # <<>>,
         NEW read \in BOOLEAN, Left(m, in, read), NEW then \in BOOLEAN, read => then
  PROVE  /\ Tail(in) \in Seq(Line) /\ Len(Tail(in)) = Len(in) - 1 /\ Left(m, Tail(in), then)
         /\ m = "buffered" => (Pending(Tail(in)) <=> Len(in) >= 3)
  <1>1. Len(in) \in Nat /\ Len(in) # 0 OBVIOUS
  <1>2. /\ Tail(in) \in Seq(Line) /\ Len(Tail(in)) = Len(in) - 1
        /\ \A i \in 1..Len(Tail(in)) : Tail(in)[i] = in[i + 1]
    BY HeadTailProperties
  <1>3. ASSUME NEW i \in 1..Len(Tail(in))
        PROVE  Tail(in)[i] = LinesOf(m)[Len(Tail(in)) - i + 1]
    <2>1. i + 1 \in 1..Len(in) /\ i + 1 # 1 /\ Len(in) - (i + 1) + 1 = Len(Tail(in)) - i + 1
      BY <1>1, <1>2
    <2>2. in[i + 1] = LinesOf(m)[Len(in) - (i + 1) + 1] BY <2>1, LineAt
    <2> QED BY <1>2, <2>1, <2>2
  <1>4. Left(m, Tail(in), then)
    <2>1. Len(Tail(in)) <= Len(LinesOf(m)) BY <1>1, <1>2, Places DEF Left
    <2> QED BY <1>3, <2>1 DEF Left
  <1>5. m = "buffered" => (Pending(Tail(in)) <=> Len(in) >= 3)
    <2> SUFFICES ASSUME m = "buffered" PROVE Pending(Tail(in)) <=> Len(in) >= 3 OBVIOUS
    <2>1. Pending(Tail(in)) <=>
            Len(Tail(in)) >= 3 \/ (Len(Tail(in)) = 2 /\ Tail(in)[1] = "report")
      BY <1>2, <1>4, PendingIs
    <2>2. Len(Tail(in)) = 2 => Tail(in)[1] = "report"
      <3> SUFFICES ASSUME Len(Tail(in)) = 2 PROVE Tail(in)[1] = "report" OBVIOUS
      <3>1. 1 \in 1..Len(Tail(in)) /\ Len(Tail(in)) - 1 + 1 = 2 OBVIOUS
      <3>2. Tail(in)[1] = LinesOf(m)[2] BY <1>3, <3>1
      <3>3. LinesOf(m)[2] = "report" BY <1>1, <1>2, Places
      <3> QED BY <3>2, <3>3
    <2> QED BY <1>1, <1>2, <2>1, <2>2
  <1> QED BY <1>2, <1>4, <1>5

LEMMA TornLeft ==
  ASSUME NEW m \in {"buffered", "stream"}, NEW in \in Seq(Line), in # <<>>,
         NEW read \in BOOLEAN, Left(m, in, read)
  PROVE  LET torn == <<"torn">> \o Tail(in) IN
         /\ torn \in Seq(Line) /\ Len(torn) = Len(in) /\ Left(m, torn, TRUE)
         /\ m = "buffered" => (Pending(torn) <=> Len(in) >= 3)
  <1> DEFINE torn == <<"torn">> \o Tail(in)
  <1>1. Len(in) \in Nat /\ Len(in) # 0 OBVIOUS
  <1>2. /\ Tail(in) \in Seq(Line) /\ Len(Tail(in)) = Len(in) - 1
        /\ \A i \in 1..Len(Tail(in)) : Tail(in)[i] = in[i + 1]
    BY HeadTailProperties
  <1>3. <<"torn">> \in Seq(Line) /\ Len(<<"torn">>) = 1 /\ <<"torn">>[1] = "torn" BY DEF Line
  <1>4. /\ torn \in Seq(Line) /\ Len(torn) = 1 + Len(Tail(in))
        /\ \A i \in 1..(1 + Len(Tail(in))) :
             torn[i] = IF i <= 1 THEN <<"torn">>[i] ELSE Tail(in)[i - 1]
    BY <1>2, <1>3, ConcatProperties
  <1> HIDE DEF torn
  <1>5. Len(torn) = Len(in) /\ torn[1] = "torn" BY <1>1, <1>2, <1>3, <1>4
  <1>6. ASSUME NEW i \in 1..Len(torn), i # 1 PROVE torn[i] = LinesOf(m)[Len(in) - i + 1]
    <2>1. i \in 1..(1 + Len(Tail(in))) /\ ~(i <= 1) /\ i - 1 \in 1..Len(Tail(in))
          /\ (i - 1) + 1 = i /\ i \in 1..Len(in)
      BY <1>1, <1>2, <1>5, <1>6
    <2>2. torn[i] = in[i] BY <1>2, <1>4, <2>1
    <2>3. in[i] = LinesOf(m)[Len(in) - i + 1] BY <1>6, <2>1, LineAt
    <2> QED BY <2>2, <2>3
  <1>7. Left(m, torn, TRUE) BY <1>5, <1>6 DEF Left
  <1>8. m = "buffered" => (Pending(torn) <=> Len(in) >= 3)
    <2> SUFFICES ASSUME m = "buffered" PROVE Pending(torn) <=> Len(in) >= 3 OBVIOUS
    <2>1. Pending(torn) <=> Len(torn) >= 3 \/ (Len(torn) = 2 /\ torn[1] = "report")
      BY <1>4, <1>7, PendingIs
    <2> QED BY <1>5, <2>1
  <1> QED BY <1>4, <1>5, <1>7, <1>8 DEF torn

-----------------------------------------------------------------------------
(* The steps.                                                              *)

\* What a step that answers nothing has to keep.
LEMMA CoreIsEnough ==
  ASSUME ShellInv, answer.kind = "none", answer' = answer, ShellCore'
  PROVE  ShellInv'
  BY DEF ShellInv, AnswerIsTheCommands, UndisturbedIsAnswered

\* Every step finds no answer given.
LEMMA NotAnswered ==
  ASSUME ShellInv, ShellNext \/ \E m \in {"buffered", "stream"} : Open(m)
  PROVE  answer.kind = "none"
  <1>1. answer.kind # "none" => state # Unopened /\ state # Opened BY DEF ShellInv, Ended
  <1>2. CASE Set \/ ChangeDir \/ PrintBegin \/ StartCommand \/ SaveStatus \/ Report
    BY <1>1, <1>2 DEF Set, ChangeDir, PrintBegin, StartCommand, SaveStatus, Report, Reads, Idle
  <1>3. CASE CommandEnds \/ ShellEnds \/ Write \/ Read
    BY <1>1, <1>3 DEF CommandEnds, ShellEnds, Write, Read, Reads, Idle
  <1>4. CASE Cut \/ Reply BY <1>4 DEF Cut, Reply
  <1>5. CASE \E m \in {"buffered", "stream"} : Open(m) BY <1>1, <1>5 DEF Open
  <1> QED BY <1>2, <1>3, <1>4, <1>5 DEF ShellNext

LEMMA OpenedFacts ==
  ASSUME ShellInv, state # Unopened
  PROVE  /\ mode \in {"buffered", "stream"} /\ input \in Seq(Line) /\ Len(input) \in Nat
         /\ history.read \in BOOLEAN /\ Left(mode, input, history.read)
         /\ Len(input) <= 9
         /\ ShellTypes /\ Untouched /\ ControlOK /\ UnreadOK /\ OutputOK
         /\ settings.errexit \in BOOLEAN
  <1>1. ShellTypes /\ InputOK BY DEF ShellInv, ShellCore
  <1>2. mode \in {"buffered", "stream"} /\ input \in Seq(Line) /\ Len(input) \in Nat
        /\ history.read \in BOOLEAN /\ settings.errexit \in BOOLEAN
    BY <1>1 DEF ShellTypes
  <1>3. Left(mode, input, history.read) BY <1>1 DEF InputOK
  <1>4. Len(LinesOf(mode)) <= 9 /\ Len(LinesOf(mode)) \in Nat
    <2>1. mode \in {"buffered", "stream"} BY <1>2
    <2>2. Len(LinesOf(mode)) = IF mode = "buffered" THEN 9 ELSE 8 BY ONLY <2>1, Places
    <2> QED BY ONLY <2>2
  <1>5. Len(input) <= Len(LinesOf(mode)) BY <1>3 DEF Left
  <1>6. Len(input) <= 9 BY ONLY <1>2, <1>4, <1>5
  <1> QED BY <1>1, <1>2, <1>3, <1>6 DEF ShellInv, ShellCore, InputOK

\* The line that is read is the next of the script.
LEMMA ReadsFacts ==
  ASSUME ShellInv, NEW line \in Line, Reads(line)
  PROVE  /\ state = Opened /\ state # Unopened /\ command # Running /\ input # <<>>
         /\ Len(input) \in 1..Len(LinesOf(mode)) /\ Len(input) >= 1
         /\ line # "torn" => LinesOf(mode)[Len(input)] = line
         /\ line = "torn" => history.read
  <1>1. state = Opened /\ state # Unopened /\ command # Running /\ input # <<>>
        /\ Head(input) = line
    BY StateFacts DEF Reads, Idle
  <1>2. Len(input) \in Nat /\ Len(input) # 0 /\ input[1] = line BY <1>1, OpenedFacts
  <1>3. 1 \in 1..Len(input) /\ Len(input) - 1 + 1 = Len(input) BY <1>2
  <1>4. line # "torn" => LinesOf(mode)[Len(input)] = line BY <1>1, <1>2, <1>3, OpenedFacts, LineAt
  <1>5. line = "torn" => history.read
    <2> SUFFICES ASSUME line = "torn", ~history.read PROVE FALSE OBVIOUS
    <2>1. input[1] = LinesOf(mode)[Len(input)] BY <1>1, <1>2, <1>3, OpenedFacts, LineAt
    <2> QED BY <1>1, <1>2, <2>1, OpenedFacts, Places DEF Left
  <1>6. Len(input) <= Len(LinesOf(mode)) BY <1>1, OpenedFacts DEF Left
  <1>7. Len(LinesOf(mode)) \in Nat BY <1>1, OpenedFacts, Places
  <1> QED BY <1>1, <1>2, <1>4, <1>5, <1>6, <1>7

\* A step that writes nothing leaves the output as it should be.
LEMMA OutputKept ==
  ASSUME ShellInv, state # Unopened, mode' = mode, output' = output,
         history'.words = history.words, history'.late = history.late,
         history'.cut = history.cut,
         Len(input') \in Nat, Len(input') >= 6 <=> Len(input) >= 6,
         mode = "buffered" => (Pending(input') => Pending(input)),
         ~history'.read => ~history.read /\ (Len(input') >= 2 \/ Len(input') = Len(input)),
         settings'.status = settings.status \/ (mode = "buffered" => Pending(input))
  PROVE  OutputOK'
  <1>0. Len(input) \in Nat /\ OutputOK BY OpenedFacts
  <1> SUFFICES ASSUME mode = "buffered"
               PROVE  \E b \in Nat \ {0} : BeginsAt(b, output)
                        /\ (BeforeReport(b)' \/ AfterReport(b)')
    BY DEF OutputOK
  <1>1. PICK b \in Nat \ {0} : BeginsAt(b, output) /\ (BeforeReport(b) \/ AfterReport(b))
    BY <1>0 DEF OutputOK
  <1>2. Len(input') <= 5 <=> Len(input) <= 5 BY <1>0
  <1>3. CASE BeforeReport(b)
    <2>1. BeforeReport(b)' BY <1>0, <1>2, <1>3 DEF BeforeReport
    <2> QED BY <1>1, <2>1
  <1>4. CASE AfterReport(b)
    <2>1. settings'.status = settings.status BY <1>4 DEF AfterReport
    <2>2. AfterReport(b)' BY <1>0, <1>2, <1>4, <2>1 DEF AfterReport
    <2> QED BY <1>1, <2>2
  <1> QED BY <1>1, <1>3, <1>4

LEMMA NextLine ==
  ASSUME ShellInv, NEW line \in Line, Reads(line), input' = Tail(input), mode' = mode,
         history'.read = history.read
  PROVE  /\ InputOK' /\ input' \in Seq(Line) /\ Len(input') = Len(input) - 1
         /\ mode = "buffered" => (Pending(input') <=> Len(input) >= 3)
         /\ mode = "buffered" => (Pending(input') => Pending(input))
  <1>1. /\ state # Unopened /\ input # <<>> /\ mode \in {"buffered", "stream"}
        /\ input \in Seq(Line) /\ history.read \in BOOLEAN /\ Left(mode, input, history.read)
    BY ReadsFacts, OpenedFacts
  <1>2. /\ Tail(input) \in Seq(Line) /\ Len(Tail(input)) = Len(input) - 1
        /\ Left(mode, Tail(input), history.read)
        /\ mode = "buffered" => (Pending(Tail(input)) <=> Len(input) >= 3)
    BY <1>1, TailLeft
  <1>3. mode = "buffered" => (Len(input) >= 3 => Pending(input)) BY <1>1, PendingIs
  <1> QED BY <1>2, <1>3 DEF InputOK

\* Settings: errexit is off again before the command starts.
LEMMA SetKeeps == ASSUME ShellInv, Set PROVE ShellCore'
  <1> DEFINE n == Len(input)
  <1>1. PICK line \in {"set", "noerrexit", "export", "torn"} :
          /\ Reads(line)
          /\ line = "set" => settings' = [settings EXCEPT !.errexit = TRUE, !.nounset = TRUE]
          /\ line = "noerrexit" => settings' = [settings EXCEPT !.errexit = FALSE]
          /\ line \in {"export", "torn"} => settings' = settings
    BY DEF Set
  <1>2. /\ input' = Tail(input) /\ mode' = mode /\ command' = command /\ output' = output
        /\ state' = state /\ answer' = answer /\ history' = history
    BY DEF Set
  <1>3. line \in Line BY DEF Line
  <1>4. /\ state = Opened /\ state # Unopened /\ command # Running /\ n \in Nat /\ n >= 1
        /\ line # "torn" => LinesOf(mode)[n] = line /\ n \in 1..Len(LinesOf(mode))
        /\ line = "torn" => history.read
    BY <1>1, <1>3, ReadsFacts, OpenedFacts
  <1>5. /\ InputOK' /\ input' \in Seq(Line) /\ Len(input') = n - 1
        /\ mode = "buffered" => (Pending(input') => Pending(input))
    BY <1>1, <1>2, <1>3, NextLine
  <1>6. ShellTypes /\ Untouched /\ ControlOK /\ UnreadOK /\ mode \in {"buffered", "stream"}
    BY <1>4, OpenedFacts
  <1> HIDE DEF n
  <1>7. /\ line = "set" => n >= 8
        /\ line = "export" => n >= 6 /\ (mode = "buffered" => n >= 7)
        /\ line = "noerrexit" => n = 5
    BY <1>4, <1>6, Places
  <1>8. line = "torn" => n <= 3
    <2>1. line = "torn" => command # NotRun BY <1>4, <1>6 DEF Untouched
    <2> QED BY <1>4, <1>6, <2>1 DEF ControlOK, n
  <1>9. /\ settings' \in [errexit : BOOLEAN, nounset : BOOLEAN, status : Status \cup {NoStatus}]
        /\ settings'.status = settings.status
        /\ line = "noerrexit" => ~settings'.errexit
        /\ line \in {"export", "torn"} => settings'.errexit = settings.errexit
    BY <1>1, <1>6 DEF ShellTypes
  <1>10. ShellTypes' BY <1>2, <1>5, <1>6, <1>9 DEF ShellTypes
  <1>11. Untouched' BY <1>2, <1>4, <1>6 DEF Untouched
  <1>12. ControlOK'
    <2>1. command = NotRun <=> n >= 4 BY <1>6 DEF ControlOK, n
    <2>2. n - 1 >= 4 <=> n >= 4 BY <1>1, <1>4, <1>7, <1>8
    <2>3. settings'.errexit => n - 1 >= 5
      <3>1. settings.errexit => n >= 5 BY <1>6 DEF ControlOK, n
      <3>2. CASE line = "set" BY <1>4, <1>7, <3>2
      <3>3. CASE line = "noerrexit" BY <1>9, <3>3
      <3>4. CASE line = "export"
        <4>1. n >= 6 BY <1>7, <3>4
        <4> QED BY <1>4, <4>1
      <3>5. CASE line = "torn"
        <4>1. n <= 3 /\ settings'.errexit = settings.errexit BY <1>8, <1>9, <3>5
        <4> QED BY <1>4, <3>1, <4>1
      <3> QED BY <3>2, <3>3, <3>4, <3>5
    <2>4. ~history.cut BY <1>4, <1>6 DEF ControlOK, Ended
    <2> QED BY <1>2, <1>5, <1>6, <1>9, <2>1, <2>2, <2>3, <2>4 DEF ControlOK
  <1>13. UnreadOK'
    <2>1. ~history.read => n >= 5 BY <1>1, <1>4, <1>7
    <2> QED BY <1>2, <1>4, <1>5, <2>1 DEF UnreadOK
  <1>14. OutputOK'
    <2>1. n - 1 \in Nat /\ (mode = "buffered" => n # 6)
      BY <1>1, <1>4, <1>7, <1>8
    <2>2. CASE mode = "buffered"
      <3>1. n - 1 >= 6 <=> n >= 6 BY <1>4, <2>1, <2>2
      <3>2. ~history.read => n - 1 >= 2 BY <1>1, <1>4, <1>7
      <3> QED BY <1>2, <1>4, <1>5, <1>9, <2>1, <3>1, <3>2, OutputKept DEF n
    <2>3. CASE mode # "buffered" BY <1>2, <2>3 DEF OutputOK
    <2> QED BY <2>2, <2>3
  <1>15. EndOK' BY <1>2, <1>4 DEF EndOK, Ended
  <1> QED BY <1>5, <1>10, <1>11, <1>12, <1>13, <1>14, <1>15 DEF ShellCore

\* The shell reads a line that changes nothing but where it is.
LEMMA ChangeDirKeeps == ASSUME ShellInv, ChangeDir PROVE ShellCore'
  <1> DEFINE n == Len(input)
  <1>1. /\ Reads("cd") /\ input' = Tail(input) /\ mode' = mode /\ command' = command
        /\ output' = output /\ settings' = settings
        /\ \/ state' = state /\ history' = history
           \/ /\ state' = <<"1">> /\ history' = [history EXCEPT !.failed = TRUE]
    BY DEF ChangeDir, Ends
  <1>2. "cd" \in Line /\ "cd" # "torn" BY DEF Line
  <1>3. /\ state = Opened /\ state # Unopened /\ command # Running /\ n \in Nat
        /\ LinesOf(mode)[n] = "cd" /\ n \in 1..Len(LinesOf(mode))
    BY <1>1, <1>2, ReadsFacts, OpenedFacts
  <1>4. ShellTypes /\ Untouched /\ ControlOK /\ UnreadOK /\ mode \in {"buffered", "stream"}
    BY <1>3, OpenedFacts
  <1>5. n >= 7
    <2> HIDE DEF n
    <2> QED BY <1>3, <1>4, Places
  <1>6. /\ history' \in [words : Seq(Token), read : BOOLEAN, late : Nat, cut : BOOLEAN,
                         failed : BOOLEAN]
        /\ history'.words = history.words /\ history'.read = history.read
        /\ history'.late = history.late /\ history'.cut = history.cut
        /\ state' = Opened \/ history'.failed
    BY <1>1, <1>3, <1>4 DEF ShellTypes
  <1>7. /\ InputOK' /\ input' \in Seq(Line) /\ Len(input') = n - 1
        /\ mode = "buffered" => (Pending(input') => Pending(input))
    BY <1>1, <1>2, <1>6, NextLine
  <1>8. state' # Unopened BY <1>1, <1>3, StatusFacts
  <1>9. ~history.cut BY <1>3, <1>4 DEF ControlOK, Ended
  <1>10. ShellTypes' BY <1>1, <1>4, <1>6, <1>7 DEF ShellTypes
  <1>11. Untouched' BY <1>1, <1>4, <1>6, <1>8 DEF Untouched
  <1>12. ControlOK'
    <2>1. command = NotRun BY <1>3, <1>4, <1>5 DEF ControlOK
    <2>2. Len(input') >= 5 BY <1>3, <1>5, <1>7
    <2>3. settings.status # NoStatus => settings.status = command BY <1>4 DEF ControlOK
    <2> HIDE DEF n
    <2>4. Len(input') >= 4 BY <1>3, <1>5, <1>7
    <2> QED BY <1>1, <1>6, <1>9, <2>1, <2>2, <2>3, <2>4 DEF ControlOK
  <1>13. UnreadOK'
    <2> HIDE DEF n
    <2>1. Len(input') >= 3 /\ Len(input') \in Nat BY <1>3, <1>5, <1>7
    <2> QED BY <1>1, <1>3, <2>1 DEF UnreadOK
  <1>14. OutputOK'
    <2>1. n - 1 \in Nat /\ n - 1 >= 6 /\ n >= 6 /\ n - 1 >= 2
      <3> HIDE DEF n
      <3> QED BY <1>3, <1>5
    <2> QED BY <1>1, <1>3, <1>6, <1>7, <2>1, OutputKept
  <1>15. EndOK' BY <1>6 DEF EndOK, Ended, Undisturbed
  <1> QED BY <1>7, <1>10, <1>11, <1>12, <1>13, <1>14, <1>15 DEF ShellCore

LEMMA StartCommandKeeps == ASSUME ShellInv, StartCommand PROVE ShellCore'
  <1> DEFINE n == Len(input)
  <1>1. /\ Reads("command") /\ input' = Tail(input) /\ mode' = mode /\ command' = Running
        /\ output' = output /\ settings' = settings /\ state' = state /\ history' = history
        /\ answer' = answer
    BY DEF StartCommand
  <1>2. "command" \in Line /\ "command" # "torn" BY DEF Line
  <1>3. /\ state = Opened /\ state # Unopened /\ n \in Nat
        /\ LinesOf(mode)[n] = "command" /\ n \in 1..Len(LinesOf(mode))
    BY <1>1, <1>2, ReadsFacts, OpenedFacts
  <1>4. ShellTypes /\ Untouched /\ ControlOK /\ UnreadOK /\ mode \in {"buffered", "stream"}
    BY <1>3, OpenedFacts
  <1>5. n = 4
    <2> HIDE DEF n
    <2> QED BY <1>3, <1>4, Places
  <1>6. /\ InputOK' /\ input' \in Seq(Line) /\ Len(input') = 3
        /\ mode = "buffered" => (Pending(input') => Pending(input))
    BY <1>1, <1>2, <1>5, NextLine
  <1>7. command = NotRun /\ settings.status = NoStatus /\ ~settings.errexit
    <2>1. command = NotRun BY <1>4, <1>5 DEF ControlOK
    <2>2. NotRun \notin Status BY StatusFacts
    <2>3. settings.status \in Status \cup {NoStatus} BY <1>4 DEF ShellTypes
    <2> QED BY <1>4, <1>5, <2>1, <2>2, <2>3 DEF ControlOK
  <1>8. ShellTypes' BY <1>1, <1>4, <1>6 DEF ShellTypes
  <1>9. Untouched' BY <1>1, <1>3, StateFacts DEF Untouched
  <1>10. ControlOK' BY <1>1, <1>4, <1>6, <1>7, StateFacts DEF ControlOK, Ended
  <1>11. UnreadOK' BY <1>6 DEF UnreadOK
  <1>12. OutputOK'
    <2>1. Len(input') \in Nat /\ Len(input') >= 2 /\ (Len(input') >= 6 <=> Len(input) >= 6)
      BY <1>5, <1>6
    <2> QED BY <1>1, <1>3, <1>6, <2>1, OutputKept
  <1>13. EndOK' BY <1>1, <1>3 DEF EndOK, Ended
  <1> QED BY <1>6, <1>8, <1>9, <1>10, <1>11, <1>12, <1>13 DEF ShellCore

\* The command's end does not end the shell, which goes on without errexit.
LEMMA CommandEndsKeeps == ASSUME ShellInv, CommandEnds PROVE ShellCore'
  <1>1. PICK c \in Status :
          /\ state = Opened /\ command = Running /\ command' = c
          /\ settings.errexit \/ state' = state
    BY DEF CommandEnds
  <1>2. mode' = mode /\ input' = input /\ settings' = settings /\ output' = output
        /\ history' = history
    BY DEF CommandEnds
  <1>3. state # Unopened BY <1>1, StateFacts
  <1>4. /\ ShellTypes /\ Untouched /\ ControlOK /\ UnreadOK /\ Len(input) \in Nat
        /\ InputOK
    BY <1>3, OpenedFacts DEF InputOK
  <1>5. Len(input) <= 3 /\ ~settings.errexit
    <2>1. ~(Len(input) >= 4) BY <1>1, <1>4, StateFacts DEF ControlOK
    <2>2. settings.errexit => Len(input) >= 5 BY <1>4 DEF ControlOK
    <2> QED BY <1>4, <2>1, <2>2
  <1>6. state' = state /\ c # NotRun /\ c # Running BY <1>1, <1>5, StatusFacts
  <1>7. settings.status = NoStatus
    <2>1. settings.status \in Status \cup {NoStatus} BY <1>4 DEF ShellTypes
    <2>2. Running \notin Status BY StatusFacts
    <2> QED BY <1>1, <1>4, <2>1, <2>2 DEF ControlOK
  <1>8. ShellTypes' BY <1>1, <1>2, <1>4 DEF ShellTypes
  <1>9. Untouched' BY <1>1, <1>2, <1>3, <1>6 DEF Untouched
  <1>10. InputOK' BY <1>2, <1>4 DEF InputOK
  <1>11. ControlOK'
    <2>1. command # NotRun BY <1>1, StateFacts
    <2> QED BY <1>1, <1>2, <1>4, <1>6, <1>7, <2>1 DEF ControlOK, Ended
  <1>12. UnreadOK' BY <1>1, <1>2, <1>4, <1>6 DEF UnreadOK
  <1>13. OutputOK' BY <1>2, <1>3, <1>4, OutputKept
  <1>14. EndOK' BY <1>1, <1>6 DEF EndOK, Ended
  <1> QED BY <1>8, <1>9, <1>10, <1>11, <1>12, <1>13, <1>14 DEF ShellCore

LEMMA SaveStatusKeeps == ASSUME ShellInv, SaveStatus PROVE ShellCore'
  <1>1. /\ Reads("status") /\ input' = Tail(input) /\ mode' = mode /\ command' = command
        /\ output' = output /\ settings' = [settings EXCEPT !.status = command]
        /\ state' = state /\ history' = history /\ answer' = answer
    BY DEF SaveStatus
  <1>2. "status" \in Line /\ "status" # "torn" BY DEF Line
  <1>3. /\ state = Opened /\ state # Unopened /\ command # Running /\ Len(input) \in Nat
        /\ LinesOf(mode)[Len(input)] = "status" /\ Len(input) \in 1..Len(LinesOf(mode))
    BY <1>1, <1>2, ReadsFacts, OpenedFacts
  <1>4. ShellTypes /\ Untouched /\ ControlOK /\ UnreadOK /\ mode \in {"buffered", "stream"}
    BY <1>3, OpenedFacts
  <1>5. Len(input) = 3 BY <1>3, <1>4, Places
  <1>6. /\ InputOK' /\ input' \in Seq(Line) /\ Len(input') = 2
        /\ mode = "buffered" => (Pending(input') => Pending(input))
        /\ mode = "buffered" => Pending(input)
    BY <1>1, <1>2, <1>3, <1>5, NextLine, OpenedFacts, PendingIs
  <1>7. command \in Status /\ command # NotRun
    <2>1. command # NotRun BY <1>4, <1>5 DEF ControlOK
    <2> QED BY <1>3, <1>4, <2>1 DEF ShellTypes
  <1>8. /\ settings' \in [errexit : BOOLEAN, nounset : BOOLEAN, status : Status \cup {NoStatus}]
        /\ settings'.status = command /\ settings'.errexit = settings.errexit
    BY <1>1, <1>4, <1>7 DEF ShellTypes
  <1>9. ~settings.errexit BY <1>4, <1>5 DEF ControlOK
  <1>10. ShellTypes' BY <1>1, <1>4, <1>6, <1>8 DEF ShellTypes
  <1>11. Untouched' BY <1>1, <1>3, <1>7 DEF Untouched
  <1>12. ControlOK'
    <2>1. ~history.cut BY <1>3, <1>4 DEF ControlOK, Ended
    <2> QED BY <1>1, <1>6, <1>7, <1>8, <1>9, <2>1 DEF ControlOK
  <1>13. UnreadOK'
    <2>1. command # NoStatus BY <1>7, StatusAssumption
    <2>2. Len(input') >= 1 /\ Len(input') >= 2 BY <1>6
    <2>3. command' # Running /\ settings'.status # NoStatus BY <1>1, <1>3, <1>8, <2>1
    <2> QED BY <2>2, <2>3 DEF UnreadOK
  <1>14. OutputOK'
    <2>1. Len(input') \in Nat /\ Len(input') >= 2 /\ (Len(input') >= 6 <=> Len(input) >= 6)
      BY <1>5, <1>6
    <2> QED BY <1>1, <1>3, <1>6, <2>1, OutputKept
  <1>15. EndOK' BY <1>1, <1>3 DEF EndOK, Ended
  <1> QED BY <1>6, <1>10, <1>11, <1>12, <1>13, <1>14, <1>15 DEF ShellCore

LEMMA ShellEndsKeeps == ASSUME ShellInv, ShellEnds PROVE ShellCore'
  <1>1. /\ mode' = mode /\ input' = input /\ settings' = settings /\ command' = command
        /\ output' = output /\ history' = history
    BY DEF ShellEnds
  <1>2. state = Opened /\ state # Unopened BY StateFacts DEF ShellEnds, Reads, Idle
  <1>3. /\ ShellTypes /\ Untouched /\ ControlOK /\ UnreadOK /\ Len(input) \in Nat /\ InputOK
        /\ mode \in {"buffered", "stream"} /\ input \in Seq(Line) /\ OutputOK
    BY <1>2, OpenedFacts DEF InputOK
  <1>4. settings.status \in Status \cup {NoStatus} BY <1>3 DEF ShellTypes
  <1>5. state' # Unopened /\ (Undisturbed =>
          /\ settings.status # NoStatus
          /\ IF mode = "buffered" THEN state' = Zero /\ Len(input) = 1 ELSE state' = command)
    <2>1. CASE Reads("exit") /\ Ends(Zero)
      <3>1. LinesOf(mode)[Len(input)] = "exit" /\ Len(input) \in 1..Len(LinesOf(mode))
        BY <2>1, ReadsFacts DEF Line
      <3>2. mode = "buffered" /\ Len(input) = 1 BY <1>3, <3>1, Places
      <3>3. state' = Zero /\ Zero # Unopened BY <2>1, StatusAssumption, StatusFacts DEF Ends
      <3> QED BY <1>3, <3>2, <3>3 DEF UnreadOK, Undisturbed
    <2>2. CASE Reads("exitstatus")
               /\ Ends(IF settings.status = NoStatus THEN <<"1">> ELSE settings.status)
      <3>1. LinesOf(mode)[Len(input)] = "exitstatus" /\ Len(input) \in 1..Len(LinesOf(mode))
        BY <2>2, ReadsFacts DEF Line
      <3>2. mode = "stream" /\ Len(input) = 2 BY <1>3, <3>1, Places
      <3>3. Undisturbed => settings.status # NoStatus /\ settings.status = command
        BY <1>3, <3>2 DEF UnreadOK, Undisturbed, ControlOK
      <3>4. state' # Unopened BY <1>4, <2>2, StatusFacts DEF Ends
      <3>5. Undisturbed => state' = command BY <2>2, <3>3 DEF Ends
      <3> QED BY <3>2, <3>3, <3>4, <3>5
    <2>3. CASE Reads("users") /\ state' \in Status
      <3>1. LinesOf(mode)[Len(input)] = "users" /\ Len(input) \in 1..Len(LinesOf(mode))
        BY <2>3, ReadsFacts DEF Line
      <3>2. mode = "stream" /\ Len(input) = 1 BY <1>3, <3>1, Places
      <3>3. ~Undisturbed BY <1>3, <3>2 DEF UnreadOK, Undisturbed
      <3> QED BY <2>3, <3>3, StatusFacts
    <2>4. CASE Idle /\ input = <<>> /\ state' \in Status
      <3>1. Len(input) = 0 BY <2>4
      <3>2. ~Undisturbed BY <1>3, <3>1 DEF UnreadOK, Undisturbed
      <3> QED BY <2>4, <3>2, StatusFacts
    <2> QED BY <2>1, <2>2, <2>3, <2>4 DEF ShellEnds
  <1>6. ShellTypes' BY <1>1, <1>3 DEF ShellTypes
  <1>7. Untouched' BY <1>1, <1>3, <1>5 DEF Untouched
  <1>8. InputOK' BY <1>1, <1>3 DEF InputOK
  <1>9. ControlOK'
    <2>1. ~history.cut BY <1>2, <1>3 DEF ControlOK, Ended
    <2> QED BY <1>1, <1>3, <2>1 DEF ControlOK
  <1>10. UnreadOK' BY <1>1, <1>3 DEF UnreadOK
  <1>11. OutputOK' BY <1>1, <1>2, <1>3, OutputKept
  <1>12. EndOK' BY <1>1, <1>5 DEF EndOK, Undisturbed
  <1> QED BY <1>6, <1>7, <1>8, <1>9, <1>10, <1>11, <1>12 DEF ShellCore

\* What the command reads of the script the shell does not get to see.
LEMMA ReadKeeps == ASSUME ShellInv, Read PROVE ShellCore'
  <1>1. /\ state = Opened /\ command # NotRun /\ input # <<>>
        /\ input' = Tail(input) \/ input' = <<"torn">> \o Tail(input)
        /\ history' = [history EXCEPT !.read = TRUE]
        /\ mode' = mode /\ settings' = settings /\ command' = command /\ output' = output
        /\ state' = state
    BY DEF Read
  <1>2. state # Unopened BY <1>1, StateFacts
  <1>3. /\ ShellTypes /\ Untouched /\ ControlOK /\ UnreadOK /\ Len(input) \in Nat
        /\ mode \in {"buffered", "stream"} /\ input \in Seq(Line)
        /\ history.read \in BOOLEAN /\ Left(mode, input, history.read)
    BY <1>2, OpenedFacts
  <1>4. Len(input) <= 3
    <2>1. ~(Len(input) >= 4) BY <1>1, <1>3 DEF ControlOK
    <2> QED BY <1>3, <2>1
  <1>5. /\ history' \in [words : Seq(Token), read : BOOLEAN, late : Nat, cut : BOOLEAN,
                         failed : BOOLEAN]
        /\ history'.words = history.words /\ history'.read /\ history'.late = history.late
        /\ history'.cut = history.cut
    BY <1>1, <1>3 DEF ShellTypes
  <1>6. /\ input' \in Seq(Line) /\ Left(mode, input', TRUE) /\ Len(input') \in Nat
        /\ Len(input') <= Len(input)
        /\ mode = "buffered" => (Pending(input') <=> Len(input) >= 3)
    <2>1. CASE input' = Tail(input)
      <3>1. /\ Tail(input) \in Seq(Line) /\ Len(Tail(input)) = Len(input) - 1
            /\ Left(mode, Tail(input), TRUE)
            /\ mode = "buffered" => (Pending(Tail(input)) <=> Len(input) >= 3)
        BY <1>1, <1>3, TailLeft
      <3>2. Len(Tail(input)) \in Nat BY <3>1
      <3>3. Len(Tail(input)) <= Len(input) BY <1>3, <3>1, <3>2
      <3> QED BY <2>1, <3>1, <3>2, <3>3
    <2>2. CASE input' = <<"torn">> \o Tail(input)
      <3>1. /\ input' \in Seq(Line) /\ Len(input') = Len(input) /\ Left(mode, input', TRUE)
            /\ mode = "buffered" => (Pending(input') <=> Len(input) >= 3)
        BY <1>1, <1>3, <2>2, TornLeft
      <3>2. Len(input') \in Nat /\ Len(input') <= Len(input) BY <1>3, <3>1
      <3> QED BY <3>1, <3>2
    <2> QED BY <1>1, <2>1, <2>2
  <1>7. mode = "buffered" => (Pending(input') => Pending(input)) BY <1>3, <1>6, PendingIs
  <1>8. ShellTypes' BY <1>1, <1>3, <1>5, <1>6 DEF ShellTypes
  <1>9. Untouched' BY <1>1, <1>2 DEF Untouched
  <1>10. InputOK'
    <2>1. history'.read = TRUE BY <1>1, <1>3 DEF ShellTypes
    <2> QED BY <1>1, <1>6, <2>1 DEF InputOK
  <1>11. ControlOK'
    <2>1. ~history.cut /\ ~settings.errexit
      <3>1. ~history.cut BY <1>1, <1>3 DEF ControlOK, Ended
      <3>2. settings.errexit => Len(input) >= 5 BY <1>3 DEF ControlOK
      <3> QED BY <1>3, <1>4, <3>1, <3>2
    <2>2. ~(Len(input') >= 4) BY <1>3, <1>4, <1>6
    <2>3. settings.status # NoStatus => settings.status = command BY <1>3 DEF ControlOK
    <2> QED BY <1>1, <1>5, <2>1, <2>2, <2>3 DEF ControlOK
  <1>12. UnreadOK' BY <1>5 DEF UnreadOK
  <1>13. OutputOK'
    <2>1. Len(input') >= 6 <=> Len(input) >= 6 BY <1>3, <1>4, <1>6
    <2> QED BY <1>1, <1>2, <1>5, <1>6, <1>7, <2>1, OutputKept
  <1>14. EndOK' BY <1>1 DEF EndOK, Ended
  <1> QED BY <1>8, <1>9, <1>10, <1>11, <1>12, <1>13, <1>14 DEF ShellCore

\* What is left of an output that was cut is the beginning of one.
LEMMA CutKeeps == ASSUME ShellInv, Cut PROVE ShellCore'
  <1>1. PICK k \in 0..Len(output) : output' = SubSeq(output, 1, k) BY DEF Cut
  <1>2. /\ state # Unopened /\ state' \in {Zero, <<"1">>}
        /\ history' = [history EXCEPT !.cut = TRUE]
        /\ mode' = mode /\ input' = input /\ settings' = settings /\ command' = command
    BY DEF Cut
  <1>3. /\ ShellTypes /\ Untouched /\ ControlOK /\ UnreadOK /\ OutputOK /\ InputOK
        /\ output \in Seq(Token) /\ Len(output) \in Nat
    BY <1>2, OpenedFacts DEF InputOK, ShellTypes
  <1>4. state' # Unopened /\ state' # Opened BY <1>2, StatusFacts, StatusAssumption
  <1>5. /\ history' \in [words : Seq(Token), read : BOOLEAN, late : Nat, cut : BOOLEAN,
                         failed : BOOLEAN]
        /\ history'.words = history.words /\ history'.read = history.read
        /\ history'.late = history.late /\ history'.cut
    BY <1>2, <1>3 DEF ShellTypes
  <1>6. output' \in Seq(Token) /\ Len(output') = k /\ \A i \in 1..k : output'[i] = output[i]
    BY <1>1, <1>3, PrefixFacts
  <1>7. ShellTypes' BY <1>2, <1>3, <1>5, <1>6 DEF ShellTypes
  <1>8. Untouched' BY <1>2, <1>3, <1>4, <1>5 DEF Untouched
  <1>9. InputOK' BY <1>2, <1>3, <1>5 DEF InputOK
  <1>10. ControlOK' BY <1>2, <1>3, <1>4 DEF ControlOK, Ended
  <1>11. UnreadOK' BY <1>2, <1>3, <1>5 DEF UnreadOK
  <1>12. OutputOK'
    <2> SUFFICES ASSUME mode = "buffered"
                 PROVE  \E b \in Nat \ {0} : BeginsAt(b, output')
                          /\ (BeforeReport(b)' \/ AfterReport(b)')
      BY <1>2 DEF OutputOK
    <2>1. PICK b \in Nat \ {0} : BeginsAt(b, output) /\ (BeforeReport(b) \/ AfterReport(b))
      BY <1>3 DEF OutputOK
    <2>2. k \in Nat /\ k <= Len(output) BY <1>3
    <2>3. \A i \in 1..k : i \in 1..Len(output) /\ output'[i] = output[i] BY <1>6, <2>2
    <2>4. BeginsAt(b, output') BY <1>6, <2>1, <2>3 DEF BeginsAt
    <2>5. \A i \in 1..k : Echoed(i, output) => Echoed(i, output')
      <3> SUFFICES ASSUME NEW i \in 1..k, Echoed(i, output), output'[i] = "status", i < k
                   PROVE  output'[i + 1] = "text"
        BY <1>6 DEF Echoed
      <3>1. i + 1 \in 1..k /\ i < Len(output) BY <2>2
      <3> QED BY <2>3, <3>1 DEF Echoed
    <2>6. \A i \in (b + 2)..k : i \in 1..k /\ i \in (b + 2)..Len(output) BY <1>3, <2>2
    <2>7. CASE BeforeReport(b)
      <3>1. Unreported(b, output') BY <1>6, <2>5, <2>6, <2>7 DEF Unreported, BeforeReport
      <3> QED BY <1>2, <1>5, <2>4, <2>7, <3>1 DEF BeforeReport
    <2>8. CASE AfterReport(b)
      <3>1. Reported(b, history.words, settings.status, output')
        <4>1. Reported(b, history.words, settings.status, output) BY <2>8 DEF AfterReport
        <4> QED BY <1>6, <2>3, <2>5, <2>6, <4>1 DEF Reported
      <3> QED BY <1>2, <1>5, <2>4, <2>8, <3>1 DEF AfterReport
    <2> QED BY <2>1, <2>7, <2>8
  <1>13. EndOK' BY <1>5 DEF EndOK, Undisturbed
  <1> QED BY <1>7, <1>8, <1>9, <1>10, <1>11, <1>12, <1>13 DEF ShellCore

\* The output marker comes after words that are no marker.
LEMMA PrintBeginKeeps == ASSUME ShellInv, PrintBegin PROVE ShellCore'
  <1> DEFINE tail == <<"begin", "newline">>
  <1>1. /\ Reads("begin") /\ input' = Tail(input) /\ mode' = mode /\ command' = command
        /\ output' = output \o tail /\ settings' = settings /\ state' = state
        /\ history' = history
    BY DEF PrintBegin
  <1>2. "begin" \in Line /\ "begin" # "torn" BY DEF Line
  <1>3. /\ state = Opened /\ state # Unopened /\ command # Running /\ Len(input) \in Nat
        /\ LinesOf(mode)[Len(input)] = "begin" /\ Len(input) \in 1..Len(LinesOf(mode))
    BY <1>1, <1>2, ReadsFacts, OpenedFacts
  <1>4. /\ ShellTypes /\ Untouched /\ ControlOK /\ UnreadOK /\ mode \in {"buffered", "stream"}
        /\ OutputOK /\ output \in Seq(Token) /\ Len(output) \in Nat
    BY <1>3, OpenedFacts DEF ShellTypes
  <1>p. PICK b \in Nat \ {0} : b = Len(output) + 1 BY <1>4
  <1>5. mode = "buffered" /\ Len(input) = 6 BY <1>3, <1>4, Places
  <1>6. InputOK' /\ input' \in Seq(Line) /\ Len(input') = 5
    BY <1>1, <1>2, <1>5, NextLine
  <1>7. /\ command = NotRun /\ ~history.cut /\ history.words = <<>> /\ ~history.read
        /\ settings.status # NoStatus => settings.status = command
    BY <1>3, <1>4, <1>5 DEF ControlOK, Untouched, Ended
  <1>8. /\ output' \in Seq(Token) /\ Len(output') = Len(output) + 2
        /\ \A i \in 1..Len(output) : output'[i] = output[i]
        /\ output'[b] = "begin" /\ output'[b + 1] = "newline"
    <2>1. /\ tail \in Seq(Token) /\ Len(tail) = 2
          /\ tail[1] = "begin" /\ tail[2] = "newline"
      BY DEF Token, Mark
    <2> HIDE DEF tail
    <2>2. /\ output \o tail \in Seq(Token) /\ Len(output \o tail) = Len(output) + Len(tail)
          /\ \A i \in 1..(Len(output) + Len(tail)) : (output \o tail)[i] =
               IF i <= Len(output) THEN output[i] ELSE tail[i - Len(output)]
      BY <1>4, <2>1, ConcatProperties
    <2>3. /\ b \in 1..(Len(output) + Len(tail)) /\ ~(b <= Len(output)) /\ b - Len(output) = 1
          /\ b + 1 \in 1..(Len(output) + Len(tail)) /\ ~(b + 1 <= Len(output))
          /\ (b + 1) - Len(output) = 2
      BY <1>4, <1>p, <2>1
    <2>4. \A i \in 1..Len(output) : i \in 1..(Len(output) + Len(tail)) /\ i <= Len(output)
      BY <1>4, <2>1
    <2> QED BY <1>1, <2>1, <2>2, <2>3, <2>4
  <1>9. \A i \in 1..Len(output) : output[i] # "begin"
    <2>1. PICK c \in Nat \ {0} : BeginsAt(c, output) /\ (BeforeReport(c) \/ AfterReport(c))
      BY <1>4, <1>5 DEF OutputOK
    <2>2. ~(Len(input) <= 5) /\ Len(input) >= 6 BY <1>5
    <2>3. BeforeReport(c) BY <2>1, <2>2 DEF AfterReport
    <2>4. Len(output) < c BY <1>7, <2>2, <2>3 DEF BeforeReport
    <2> QED BY <1>4, <2>1, <2>4 DEF BeginsAt
  <1>b. Len(output') = b + 1 BY <1>4, <1>p, <1>8
  <1> HIDE DEF tail
  <1>10. ShellTypes' BY <1>1, <1>4, <1>6, <1>8 DEF ShellTypes
  <1>11. Untouched' BY <1>1, <1>3, <1>4 DEF Untouched
  <1>l. Len(input') >= 5 /\ Len(input') >= 4 /\ ~(Len(input') >= 6) /\ Len(input') >= 2
        /\ Len(input') >= 1 /\ ~(Len(input') <= 2)
    BY <1>6
  <1>12. ControlOK' BY <1>1, <1>l, <1>7 DEF ControlOK
  <1>13. UnreadOK' BY <1>1, <1>3, <1>l DEF UnreadOK
  <1>14. OutputOK'
    <2>2. BeginsAt(b, output')
      <3> SUFFICES ASSUME NEW i \in 1..Len(output')
                   PROVE  /\ i < b => output'[i] # "begin"
                          /\ i = b => output'[i] = "begin"
                          /\ i = b + 1 => output'[i] = "newline"
        BY DEF BeginsAt
      <3>1. i < b => i \in 1..Len(output) BY <1>4, <1>p
      <3> QED BY <1>8, <1>9, <3>1
    <2>3. BeforeReport(b)'
      <3>1. Unreported(b, output')
        <4>1. (b + 2)..Len(output') = {} BY <1>b
        <4> QED BY <4>1 DEF Unreported
      <3>2. output'[Len(output')] = "newline" /\ Len(output') > b BY <1>8, <1>b
      <3>3. Len(history.words) = 0 /\ 1..Len(history.words) = {} BY <1>7
      <3>4. Len(output') = b + 1 + Len(history.words) BY <1>b, <3>3
      <3>5. output'[Len(output')] # "status" BY <3>2
      <3>6. \A i \in 1..Len(history.words) : output'[b + 1 + i] = history.words[i] BY <3>3
      <3> QED BY <1>1, <1>l, <3>1, <3>2, <3>4, <3>5, <3>6 DEF BeforeReport
    <2>4. \E c \in Nat \ {0} : BeginsAt(c, output') /\ BeforeReport(c)' BY <1>b, <2>2, <2>3
    <2> QED BY <2>4 DEF OutputOK
  <1>15. EndOK' BY <1>1, <1>3 DEF EndOK, Ended
  <1> QED BY <1>6, <1>10, <1>11, <1>12, <1>13, <1>14, <1>15 DEF ShellCore

\* The report's marker, status and newline come right after the words.
LEMMA ReportWrites ==
  ASSUME NEW out \in Seq(Token), NEW b \in Nat \ {0}, BeginsAt(b, out), Unreported(b, out),
         NEW W \in Seq(Token), Len(out) = b + 1 + Len(W),
         \A i \in 1..Len(W) : out[b + 1 + i] = W[i],
         out[Len(out)] # "status",
         NEW s \in Seq(Digit)
  PROVE  LET then == out \o <<"status">> \o s \o <<"newline">> IN
         /\ then \in Seq(Token) /\ Len(then) = b + 3 + Len(W) + Len(s)
         /\ then[Len(then)] # "status"
         /\ BeginsAt(b, then) /\ Reported(b, W, s, then)
  <1> DEFINE r == b + 2 + Len(W)
             e == r + Len(s) + 1
             mark == <<"status">>
             line == <<"newline">>
             x == out \o mark
             y == x \o s
             then == y \o line
  <1>0. /\ Len(out) \in Nat /\ Len(W) \in Nat /\ Len(s) \in Nat /\ r \in Nat /\ e \in Nat
        /\ r = Len(out) + 1 /\ e = Len(out) + Len(s) + 2 /\ b \in Nat
    OBVIOUS
  <1>o. out \in Seq(Token) OBVIOUS
  <1>1. /\ mark \in Seq(Token) /\ Len(mark) = 1 /\ mark[1] = "status"
        /\ line \in Seq(Token) /\ Len(line) = 1
        /\ line[1] = "newline"
    BY DEF Token, Mark
  <1> HIDE DEF mark, line
  <1>2. s \in Seq(Token)
    <2>1. \A i \in 1..Len(s) : s[i] \in Token BY DEF Token
    <2>2. DOMAIN s = 1..Len(s) OBVIOUS
    <2> QED BY <1>0, <2>1, <2>2
  <1>3. /\ x \in Seq(Token) /\ Len(x) = r
        /\ \A i \in 1..r : x[i] = IF i <= Len(out) THEN out[i] ELSE "status"
    <2>1. /\ x \in Seq(Token) /\ Len(x) = Len(out) + Len(mark)
          /\ \A i \in 1..(Len(out) + Len(mark)) :
               x[i] = IF i <= Len(out) THEN out[i] ELSE mark[i - Len(out)]
      BY ONLY <1>o, <1>1, ConcatProperties
    <2> HIDE DEF x, r
    <2>2. \A i \in 1..r : ~(i <= Len(out)) => i - Len(out) = 1 BY <1>0
    <2> QED BY <1>0, <1>1, <2>1, <2>2
  <1> HIDE DEF x
  <1>4. /\ y \in Seq(Token) /\ Len(y) = r + Len(s)
        /\ \A i \in 1..(r + Len(s)) : y[i] = IF i <= r THEN x[i] ELSE s[i - r]
    <2>1. /\ y \in Seq(Token) /\ Len(y) = Len(x) + Len(s)
          /\ \A i \in 1..(Len(x) + Len(s)) : y[i] = IF i <= Len(x) THEN x[i] ELSE s[i - Len(x)]
      BY <1>2, <1>3, ConcatProperties
    <2> HIDE DEF y, r
    <2> QED BY <1>3, <2>1
  <1> HIDE DEF y
  <1>5. /\ then \in Seq(Token) /\ Len(then) = e
        /\ \A i \in 1..e : then[i] = IF i <= r + Len(s) THEN y[i] ELSE "newline"
    <2>0. y \in Seq(Token) BY <1>4
    <2>1. /\ then \in Seq(Token) /\ Len(then) = Len(y) + Len(line)
          /\ \A i \in 1..(Len(y) + Len(line)) :
               then[i] = IF i <= Len(y) THEN y[i] ELSE line[i - Len(y)]
      BY ONLY <1>1, <2>0, ConcatProperties
    <2>2. e = Len(y) + Len(line) BY <1>0, <1>1, <1>4
    <2> HIDE DEF then, e, r
    <2>n. Len(y) \in Nat /\ e = Len(y) + 1 BY <1>0, <1>1, <1>4, <2>2
    <2>3. \A i \in 1..e : ~(i <= Len(y)) => i - Len(y) = 1
      <3> TAKE i \in 1..e
      <3> HAVE ~(i <= Len(y))
      <3>1. i = Len(y) + 1 BY <2>n
      <3> QED BY <2>n, <3>1
    <2> QED BY <1>1, <1>4, <2>1, <2>2, <2>3
  <1> HIDE DEF then
  <1>6. e = r + Len(s) + 1 /\ r = b + 2 + Len(W) OBVIOUS
  <1> HIDE DEF r, e
  <1>7. \A i \in 1..Len(out) : then[i] = out[i]
    <2> TAKE i \in 1..Len(out)
    <2>1. i \in 1..e /\ i <= r + Len(s) /\ i \in 1..(r + Len(s)) /\ i <= r /\ i \in 1..r
          /\ i <= Len(out)
      BY <1>0
    <2> QED BY <1>3, <1>4, <1>5, <2>1
  <1>8. then[r] = "status"
    <2>1. r \in 1..e /\ r <= r + Len(s) /\ r \in 1..(r + Len(s)) /\ r <= r /\ r \in 1..r
          /\ ~(r <= Len(out))
      BY <1>0
    <2> QED BY <1>3, <1>4, <1>5, <2>1
  <1>9. \A i \in 1..e : r < i /\ i < e => then[i] = s[i - r]
    <2> SUFFICES ASSUME NEW i \in 1..e, r < i, i < e PROVE then[i] = s[i - r] OBVIOUS
    <2>1. i <= r + Len(s) /\ i \in 1..(r + Len(s)) /\ ~(i <= r) BY <1>0, <1>6
    <2> QED BY <1>4, <1>5, <2>1
  <1>10. then[e] = "newline"
    <2>1. e \in 1..e /\ ~(e <= r + Len(s)) BY <1>0, <1>6
    <2> QED BY <1>5, <2>1
  <1>11. BeginsAt(b, then)
    <2> SUFFICES ASSUME NEW i \in 1..e
                 PROVE  /\ i < b => then[i] # "begin"
                        /\ i = b => then[i] = "begin"
                        /\ i = b + 1 => then[i] = "newline"
      BY <1>5 DEF BeginsAt
    <2>1. i <= b + 1 => i \in 1..Len(out) BY <1>0
    <2>2. i < b => i <= b + 1 BY <1>0
    <2>3. i = b => i <= b + 1 BY <1>0
    <2> QED BY <1>7, <2>1, <2>2, <2>3 DEF BeginsAt
  <1>12. Reported(b, W, s, then)
    <2> SUFFICES ASSUME NEW i \in (b + 2)..e
                 PROVE  /\ i < r => then[i] = W[i - b - 1] /\ Echoed(i, then)
                        /\ i = r => then[i] = "status"
                        /\ r < i /\ i < e => then[i] = s[i - r]
                        /\ i = e => then[i] = "newline"
                        /\ e < i => Echoed(i, then)
      BY <1>5 DEF Reported, r, e
    <2>1. i \in Nat /\ i \in 1..e /\ ~(e < i) BY <1>0
    <2>2. ASSUME i < r PROVE then[i] = W[i - b - 1] /\ Echoed(i, then)
      <3>1. i \in 1..Len(out) /\ i - b - 1 \in 1..Len(W) /\ b + 1 + (i - b - 1) = i
            /\ i \in (b + 2)..Len(out)
        BY <1>0, <1>6, <2>1, <2>2
      <3>2. then[i] = W[i - b - 1] BY <1>7, <3>1
      <3>3. Echoed(i, out) BY <3>1 DEF Unreported
      <3>4. then[i] = "status" => i + 1 \in 1..Len(out) /\ i < Len(out)
        <4> SUFFICES ASSUME then[i] = "status" PROVE i + 1 \in 1..Len(out) /\ i < Len(out)
          OBVIOUS
        <4>1. i # Len(out) BY <1>7, <3>1
        <4>2. \A n, k \in Nat : k \in 1..n /\ k # n => k + 1 \in 1..n /\ k < n OBVIOUS
        <4> QED BY ONLY <1>0, <2>1, <3>1, <4>1, <4>2
      <3>5. Echoed(i, then) BY <1>7, <3>1, <3>3, <3>4 DEF Echoed
      <3> QED BY <3>2, <3>5
    <2> QED BY <1>8, <1>9, <1>10, <2>1, <2>2
  <1>13. then[Len(then)] # "status" /\ Len(then) = b + 3 + Len(W) + Len(s)
    BY <1>0, <1>5, <1>6, <1>10
  <1> QED BY <1>5, <1>11, <1>12, <1>13 DEF then, y, x, mark, line

LEMMA ReportKeeps == ASSUME ShellInv, Report PROVE ShellCore'
  <1>1. /\ Reads("report") /\ input' = Tail(input) /\ mode' = mode /\ command' = command
        /\ settings' = settings /\ history' = history
        /\ \/ /\ settings.status # NoStatus /\ state' = state
              /\ output' = output \o <<"status">> \o settings.status \o <<"newline">>
           \/ settings.status = NoStatus /\ state' = <<"1">> /\ output' = output
    BY DEF Report, Ends
  <1>2. "report" \in Line /\ "report" # "torn" BY DEF Line
  <1>3. /\ state = Opened /\ state # Unopened /\ command # Running /\ Len(input) \in Nat
        /\ LinesOf(mode)[Len(input)] = "report" /\ Len(input) \in 1..Len(LinesOf(mode))
        /\ input # <<>> /\ Head(input) = "report"
    BY <1>1, <1>2, ReadsFacts, OpenedFacts DEF Reads
  <1>4. /\ ShellTypes /\ Untouched /\ ControlOK /\ UnreadOK /\ mode \in {"buffered", "stream"}
        /\ OutputOK /\ output \in Seq(Token) /\ input \in Seq(Line)
        /\ history.read \in BOOLEAN /\ Left(mode, input, history.read)
    BY <1>3, OpenedFacts DEF ShellTypes
  <1>5. mode = "buffered" /\ Len(input) = 2 BY <1>3, <1>4, Places
  <1>6. /\ InputOK' /\ input' \in Seq(Line) /\ Len(input') = 1
        /\ Pending(input') <=> Len(input) >= 3
    BY <1>1, <1>2, <1>5, NextLine
  <1>7. ~Pending(input') BY <1>5, <1>6
  <1>8. Pending(input)
    <2>1. input[1] = "report" BY <1>3, <1>4
    <2> QED BY <1>4, <1>5, <2>1, PendingIs
  <1>l. /\ ~(Len(input') >= 4) /\ ~(Len(input') >= 5) /\ ~(Len(input') >= 6) /\ Len(input') >= 1
        /\ Len(input') <= 5 /\ Len(input') # 3 /\ ~(Len(input) >= 6) /\ Len(input) <= 5
        /\ Len(input) <= 2 /\ ~(Len(input) >= 4) /\ ~(Len(input) >= 5)
    BY <1>5, <1>6
  <1>9. /\ ~history.cut /\ command # NotRun /\ ~settings.errexit
        /\ settings.status # NoStatus => settings.status = command
        /\ ~history.read => settings.status # NoStatus
    BY <1>3, <1>4, <1>l DEF ControlOK, UnreadOK, Ended
  <1>10. Untouched'
    <2>1. state' # Unopened BY <1>1, <1>3, StatusFacts
    <2> QED BY <1>1, <1>9, <2>1 DEF Untouched
  <1>11. ControlOK' BY <1>1, <1>9, <1>l DEF ControlOK
  <1>12. UnreadOK' BY <1>1, <1>3, <1>5, <1>9, <1>l DEF UnreadOK
  <1>13. CASE /\ settings.status # NoStatus /\ state' = state
              /\ output' = output \o <<"status">> \o settings.status \o <<"newline">>
    <2>1. settings.status \in Status /\ settings.status \in Seq(Digit)
      BY <1>4, <1>13, StatusFacts DEF ShellTypes
    <2>2. PICK b \in Nat \ {0} : BeginsAt(b, output) /\ BeforeReport(b)
      BY <1>4, <1>5, <1>8 DEF OutputOK, AfterReport
    <2>3. /\ Unreported(b, output) /\ output[Len(output)] # "status"
          /\ Len(output) = b + 1 + Len(history.words)
          /\ \A i \in 1..Len(history.words) : output[b + 1 + i] = history.words[i]
      BY <1>8, <1>9, <1>l, <2>2 DEF BeforeReport
    <2>4. history.words \in Seq(Token) BY <1>4 DEF ShellTypes
    <2>5. /\ output' \in Seq(Token)
          /\ Len(output') = b + 3 + Len(history.words) + Len(settings.status)
          /\ output'[Len(output')] # "status"
          /\ BeginsAt(b, output') /\ Reported(b, history.words, settings.status, output')
      <3>1. output \in Seq(Token) /\ b \in Nat \ {0} /\ BeginsAt(b, output) BY <1>4, <2>2
      <3>2. LET then == output \o <<"status">> \o settings.status \o <<"newline">> IN
            /\ then \in Seq(Token)
            /\ Len(then) = b + 3 + Len(history.words) + Len(settings.status)
            /\ then[Len(then)] # "status"
            /\ BeginsAt(b, then) /\ Reported(b, history.words, settings.status, then)
        <4> DEFINE st == settings.status
                   ws == history.words
        <4>1. st \in Seq(Digit) /\ ws \in Seq(Token) BY <2>1, <2>4
        <4>2. /\ Unreported(b, output) /\ output[Len(output)] # "status"
              /\ Len(output) = b + 1 + Len(ws)
              /\ \A i \in 1..Len(ws) : output[b + 1 + i] = ws[i]
          BY <2>3
        <4> HIDE DEF st, ws
        <4>3. LET then == output \o <<"status">> \o st \o <<"newline">> IN
              /\ then \in Seq(Token) /\ Len(then) = b + 3 + Len(ws) + Len(st)
              /\ then[Len(then)] # "status"
              /\ BeginsAt(b, then) /\ Reported(b, ws, st, then)
          BY ONLY <3>1, <4>1, <4>2, ReportWrites
        <4> QED BY <4>3 DEF st, ws
      <3> QED BY <1>13, <3>2
    <2>6. ShellTypes' BY <1>1, <1>4, <1>6, <2>5 DEF ShellTypes
    <2>7. AfterReport(b)'
      <3>1. Len(output') >= b + 3 + Len(history.words) + Len(settings.status)
        BY <2>1, <2>4, <2>5
      <3> QED BY <1>1, <1>7, <1>l, <2>1, <2>5, <3>1 DEF AfterReport
    <2>8. OutputOK' BY <2>5, <2>7 DEF OutputOK
    <2>9. EndOK' BY <1>3, <1>13 DEF EndOK, Ended
    <2> QED BY <1>6, <1>10, <1>11, <1>12, <2>6, <2>8, <2>9 DEF ShellCore
  <1>14. CASE settings.status = NoStatus /\ state' = <<"1">> /\ output' = output
    <2>1. history.read BY <1>4, <1>9, <1>14
    <2>2. ShellTypes' BY <1>1, <1>4, <1>6, <1>14 DEF ShellTypes
    <2>3. Len(input') \in Nat BY <1>6
    <2>4. OutputOK' BY <1>1, <1>3, <1>7, <1>14, <1>l, <2>1, <2>3, OutputKept
    <2>5. EndOK' BY <1>1, <2>1 DEF EndOK, Undisturbed
    <2> QED BY <1>6, <1>10, <1>11, <1>12, <2>2, <2>4, <2>5 DEF ShellCore
  <1> QED BY <1>1, <1>13, <1>14

\* What the command or its children write has no status marker but echoes.
WrittenWords(words) ==
    /\ words \in Seq(Token) /\ Len(words) >= 1 /\ words[Len(words)] # "status"
    /\ \A i \in 1..Len(words) : Echoed(i, words)

LEMMA WriteWords ==
  ASSUME Write
  PROVE  \E words :
           /\ WrittenWords(words) /\ output' = output \o words
           /\ history' = IF \E i \in DOMAIN input : input[i] \in {"report", "exitstatus"}
                         THEN [history EXCEPT !.words = @ \o words]
                         ELSE [history EXCEPT !.late = @ + 1]
  <1>1. PICK words \in {<<w>> : w \in Word \cup {"newline"}} \cup {<<"status">> \o Format} :
          /\ output' = output \o words
          /\ history' = IF \E i \in DOMAIN input : input[i] \in {"report", "exitstatus"}
                        THEN [history EXCEPT !.words = @ \o words]
                        ELSE [history EXCEPT !.late = @ + 1]
    BY DEF Write
  <1>2. CASE words \in {<<w>> : w \in Word \cup {"newline"}}
    <2>1. PICK w \in Word \cup {"newline"} : words = <<w>> BY <1>2
    <2>2. w \in Token /\ w # "status" BY WordAssumption DEF Token, Mark
    <2>3. words \in Seq(Token) /\ Len(words) = 1 /\ words[1] = w BY <2>1, <2>2
    <2>4. WrittenWords(words) BY <2>2, <2>3 DEF WrittenWords, Echoed
    <2> QED BY <1>1, <2>4
  <1>3. CASE words = <<"status">> \o Format
    <2> DEFINE one == <<"status">>
               two == <<"text">>
    <2>1. "status" \in Token /\ "text" \in Token BY WordAssumption DEF Token, Mark
    <2>2. /\ one \in Seq(Token) /\ Len(one) = 1 /\ one[1] = "status"
          /\ two \in Seq(Token) /\ Len(two) = 1 /\ two[1] = "text"
      BY <2>1
    <2>w. words = one \o two BY <1>3 DEF Format
    <2> HIDE DEF one, two
    <2>c. /\ words \in Seq(Token) /\ Len(words) = Len(one) + Len(two)
          /\ \A i \in 1..(Len(one) + Len(two)) :
               words[i] = IF i <= Len(one) THEN one[i] ELSE two[i - Len(one)]
      BY ONLY <2>2, <2>w, ConcatProperties
    <2>3. words \in Seq(Token) /\ Len(words) = 2 /\ words[1] = "status" /\ words[2] = "text"
      BY <2>2, <2>c
    <2>4. WrittenWords(words) BY <2>3 DEF WrittenWords, Echoed
    <2> QED BY <1>1, <2>4
  <1> QED BY <1>1, <1>2, <1>3

\* Written after an output that ends with no marker, they keep its echoes.
LEMMA EchoesStay ==
  ASSUME NEW out \in Seq(Token), Len(out) >= 1, out[Len(out)] # "status",
         NEW words, WrittenWords(words)
  PROVE  LET then == out \o words IN
         /\ then \in Seq(Token) /\ Len(then) = Len(out) + Len(words)
         /\ Len(words) \in Nat /\ Len(words) >= 1
         /\ \A i \in 1..Len(out) : then[i] = out[i]
         /\ \A i \in 1..Len(words) : then[Len(out) + i] = words[i]
         /\ \A i \in 1..Len(out) : Echoed(i, out) => Echoed(i, then)
         /\ \A i \in (Len(out) + 1)..Len(then) : Echoed(i, then)
         /\ then[Len(then)] # "status"
  <1> DEFINE then == out \o words
  <1>1. /\ words \in Seq(Token) /\ Len(words) >= 1 /\ words[Len(words)] # "status"
        /\ Len(words) \in Nat /\ Len(out) \in Nat /\ out \in Seq(Token)
        /\ \A i \in 1..Len(words) : Echoed(i, words)
    BY DEF WrittenWords
  <1>2. words \in Seq(Token) /\ out \in Seq(Token) BY <1>1
  <1>3. /\ then \in Seq(Token) /\ Len(then) = Len(out) + Len(words)
        /\ \A i \in 1..(Len(out) + Len(words)) :
             then[i] = IF i <= Len(out) THEN out[i] ELSE words[i - Len(out)]
    BY ONLY <1>2, ConcatProperties
  <1> HIDE DEF then
  <1>4. \A i \in 1..Len(out) : then[i] = out[i]
    <2> TAKE i \in 1..Len(out)
    <2>1. i \in 1..(Len(out) + Len(words)) /\ i <= Len(out) BY <1>1
    <2> QED BY <1>3, <2>1
  <1>5. \A i \in 1..Len(words) : then[Len(out) + i] = words[i]
    <2> TAKE i \in 1..Len(words)
    <2>1. Len(out) + i \in 1..(Len(out) + Len(words)) /\ ~(Len(out) + i <= Len(out))
          /\ (Len(out) + i) - Len(out) = i
      BY <1>1
    <2> QED BY <1>3, <2>1
  <1>6. ASSUME NEW i \in 1..Len(out), Echoed(i, out) PROVE Echoed(i, then)
    <2> SUFFICES ASSUME then[i] = "status" PROVE then[i + 1] = "text" BY DEF Echoed
    <2>1. out[i] = "status" /\ i # Len(out) BY <1>4
    <2>2. i + 1 \in 1..Len(out) /\ i < Len(out) BY <1>1, <2>1
    <2> QED BY <1>4, <1>6, <2>1, <2>2 DEF Echoed
  <1>7. ASSUME NEW i \in (Len(out) + 1)..Len(then) PROVE Echoed(i, then)
    <2> SUFFICES ASSUME then[i] = "status", i < Len(then) PROVE then[i + 1] = "text"
      BY DEF Echoed
    <2>1. /\ i - Len(out) \in 1..Len(words) /\ Len(out) + (i - Len(out)) = i
          /\ i - Len(out) < Len(words) /\ (i - Len(out)) + 1 \in 1..Len(words)
          /\ Len(out) + ((i - Len(out)) + 1) = i + 1
      BY <1>1, <1>3
    <2>2. words[i - Len(out)] = "status" BY <1>5, <2>1
    <2>3. words[(i - Len(out)) + 1] = "text" BY <1>1, <2>1, <2>2 DEF Echoed
    <2> QED BY <1>5, <2>1, <2>3
  <1>8. then[Len(then)] # "status"
    <2>1. Len(words) \in 1..Len(words) BY <1>1
    <2> QED BY <1>1, <1>3, <1>5, <2>1
  <1> QED BY <1>1, <1>3, <1>4, <1>5, <1>6, <1>7, <1>8 DEF then

LEMMA WriteKeeps == ASSUME ShellInv, Write PROVE ShellCore'
  <1>1. PICK words :
          /\ WrittenWords(words) /\ output' = output \o words
          /\ history' = IF \E i \in DOMAIN input : input[i] \in {"report", "exitstatus"}
                        THEN [history EXCEPT !.words = @ \o words]
                        ELSE [history EXCEPT !.late = @ + 1]
    BY WriteWords
  <1>2. /\ state = Opened /\ command # NotRun /\ mode' = mode /\ input' = input
        /\ settings' = settings /\ command' = command /\ state' = state
    BY DEF Write
  <1>3. state # Unopened BY <1>2, StateFacts
  <1>4. /\ ShellTypes /\ Untouched /\ ControlOK /\ UnreadOK /\ OutputOK /\ InputOK
        /\ Len(input) \in Nat /\ input \in Seq(Line)
        /\ mode \in {"buffered", "stream"} /\ output \in Seq(Token)
        /\ history.read \in BOOLEAN /\ Left(mode, input, history.read)
        /\ history \in [words : Seq(Token), read : BOOLEAN, late : Nat, cut : BOOLEAN,
                        failed : BOOLEAN]
    BY <1>3, OpenedFacts DEF ShellTypes, InputOK
  <1>5. ~(Len(input) >= 4) BY <1>2, <1>4 DEF ControlOK
  <1>6. Len(input) <= 5 /\ ~(Len(input) >= 6) BY <1>4, <1>5
  <1>7. words \in Seq(Token) BY <1>1 DEF WrittenWords
  <1>8. history.words \in Seq(Token) /\ history.late \in Nat BY <1>4
  <1>9. ~history.cut BY <1>2, <1>4 DEF ControlOK, Ended
  <1>10. history.words \o words \in Seq(Token) BY ONLY <1>7, <1>8, ConcatProperties
  <1>11. /\ history' \in [words : Seq(Token), read : BOOLEAN, late : Nat, cut : BOOLEAN,
                          failed : BOOLEAN]
         /\ history'.read = history.read /\ history'.cut = history.cut
    <2>1. CASE \E i \in DOMAIN input : input[i] \in {"report", "exitstatus"}
      <3>1. history' = [history EXCEPT !.words = @ \o words] BY <1>1, <2>1
      <3> QED BY <1>4, <1>10, <3>1
    <2>2. CASE ~ \E i \in DOMAIN input : input[i] \in {"report", "exitstatus"}
      <3>1. history' = [history EXCEPT !.late = @ + 1] BY <1>1, <2>2
      <3> QED BY <1>4, <1>8, <3>1
    <2> QED BY <2>1, <2>2
  <1>12. output' \in Seq(Token)
    <2>1. output \in Seq(Token) BY <1>4
    <2>2. output \o words \in Seq(Token) BY ONLY <1>7, <2>1, ConcatProperties
    <2> QED BY <1>1, <2>2
  <1>13. ShellTypes' BY <1>2, <1>4, <1>11, <1>12 DEF ShellTypes
  <1>14. Untouched' BY <1>2, <1>3 DEF Untouched
  <1>15. InputOK' BY <1>2, <1>4, <1>11 DEF InputOK
  <1>16. ControlOK'
    <2>1. settings.errexit => Len(input) >= 5 BY <1>4 DEF ControlOK
    <2>2. settings.status # NoStatus => settings.status = command BY <1>4 DEF ControlOK
    <2> QED BY <1>2, <1>5, <1>9, <1>11, <2>1, <2>2 DEF ControlOK
  <1>17. UnreadOK' BY <1>2, <1>4, <1>11 DEF UnreadOK
  <1>18. OutputOK'
    <2> SUFFICES ASSUME mode = "buffered"
                 PROVE  \E b \in Nat \ {0} : BeginsAt(b, output')
                          /\ (BeforeReport(b)' \/ AfterReport(b)')
      BY <1>2 DEF OutputOK
    <2>1. PICK b \in Nat \ {0} : BeginsAt(b, output) /\ (BeforeReport(b) \/ AfterReport(b))
      BY <1>4 DEF OutputOK
    <2>2. (\E i \in DOMAIN input : input[i] \in {"report", "exitstatus"}) <=> Pending(input)
      BY <1>4, PendingIs
    <2>3. /\ Pending(input) => history' = [history EXCEPT !.words = @ \o words]
          /\ ~Pending(input) => history' = [history EXCEPT !.late = @ + 1]
      BY <1>1, <2>2
    <2>n. Len(output) \in Nat BY <1>4
    <2>4. Len(output) > b /\ output[Len(output)] # "status"
      <3>1. CASE BeforeReport(b) BY <1>6, <1>9, <3>1 DEF BeforeReport
      <3>2. CASE AfterReport(b)
        <4>1. /\ Len(output) >= b + 3 + Len(history.words) + Len(settings.status)
              /\ output[Len(output)] # "status" /\ settings.status \in Status
          BY <1>9, <3>2 DEF AfterReport
        <4>2. settings.status \in Seq(Digit) BY <4>1, StatusFacts
        <4>3. Len(settings.status) \in Nat /\ Len(history.words) \in Nat BY <1>8, <4>2
        <4>4. \A x, y, z \in Nat : z >= b + 3 + x + y => z > b OBVIOUS
        <4>6. Len(output) > b BY ONLY <2>n, <4>1, <4>3, <4>4
        <4> QED BY <4>1, <4>6
      <3> QED BY <2>1, <3>1, <3>2
    <2>5. LET then == output \o words IN
          /\ then \in Seq(Token) /\ Len(then) = Len(output) + Len(words)
          /\ Len(words) \in Nat /\ Len(words) >= 1
          /\ \A i \in 1..Len(output) : then[i] = output[i]
          /\ \A i \in 1..Len(words) : then[Len(output) + i] = words[i]
          /\ \A i \in 1..Len(output) : Echoed(i, output) => Echoed(i, then)
          /\ \A i \in (Len(output) + 1)..Len(then) : Echoed(i, then)
          /\ then[Len(then)] # "status"
      <3>1. Len(output) >= 1 BY <2>n, <2>4
      <3>2. output \in Seq(Token) BY <1>4
      <3> QED BY ONLY <1>1, <2>4, <3>1, <3>2, EchoesStay
    <2>6. /\ Len(output') = Len(output) + Len(words)
          /\ Len(words) \in Nat /\ Len(words) >= 1
          /\ \A i \in 1..Len(output) : output'[i] = output[i]
          /\ \A i \in 1..Len(words) : output'[Len(output) + i] = words[i]
          /\ \A i \in 1..Len(output) : Echoed(i, output) => Echoed(i, output')
          /\ \A i \in (Len(output) + 1)..Len(output') : Echoed(i, output')
          /\ output'[Len(output')] # "status"
      BY <1>1, <2>5
    <2>7. BeginsAt(b, output')
      <3> SUFFICES ASSUME NEW i \in 1..Len(output')
                   PROVE  /\ i < b => output'[i] # "begin"
                          /\ i = b => output'[i] = "begin"
                          /\ i = b + 1 => output'[i] = "newline"
        BY DEF BeginsAt
      <3>1. i \in Nat /\ i >= 1 BY <2>6, <2>n
      <3>2. i < b \/ i = b \/ i = b + 1 => i \in 1..Len(output) BY <2>4, <2>n, <3>1
      <3>3. CASE i \in 1..Len(output) BY <2>1, <2>6, <3>3 DEF BeginsAt
      <3>4. CASE i \notin 1..Len(output) BY <3>2, <3>4
      <3> QED BY <3>3, <3>4
    <2>8. \A i \in (b + 2)..Len(output') :
            i \in 1..Len(output') /\ (i \in 1..Len(output) \/ i \in (Len(output) + 1)..Len(output'))
      BY <2>6, <2>n
    <2>9. CASE BeforeReport(b)
      <3>1. Unreported(b, output')
        <4> SUFFICES ASSUME NEW i \in (b + 2)..Len(output') PROVE Echoed(i, output')
          BY DEF Unreported
        <4>1. CASE i \in 1..Len(output)
          <5>1. i \in (b + 2)..Len(output) BY <2>n, <4>1
          <5> QED BY <2>6, <2>9, <4>1, <5>1 DEF BeforeReport, Unreported
        <4> QED BY <2>6, <2>8, <4>1
      <3>2. Len(output') > b BY <2>4, <2>6, <2>n
      <3>3. ASSUME Pending(input)
            PROVE  /\ Len(output') = b + 1 + Len(history'.words)
                   /\ \A i \in 1..Len(history'.words) : output'[b + 1 + i] = history'.words[i]
        <4> DEFINE W == history.words
        <4>1. /\ Len(output) = b + 1 + Len(W)
              /\ \A i \in 1..Len(W) : output[b + 1 + i] = W[i]
          BY <1>6, <1>9, <2>9, <3>3 DEF BeforeReport
        <4>2. history'.words = W \o words BY <1>4, <2>3, <3>3
        <4> HIDE DEF W
        <4>w. W \in Seq(Token) BY <1>8 DEF W
        <4>3. /\ Len(W \o words) = Len(W) + Len(words)
              /\ \A i \in 1..(Len(W) + Len(words)) :
                   (W \o words)[i] = IF i <= Len(W) THEN W[i] ELSE words[i - Len(W)]
          BY ONLY <1>7, <4>w, ConcatProperties
        <4>n. Len(W) \in Nat /\ Len(words) \in Nat BY <2>6, <4>w
        <4>4. ASSUME NEW i \in 1..(Len(W) + Len(words))
              PROVE  output'[b + 1 + i] = (W \o words)[i]
          <5>1. CASE i <= Len(W)
            <6>1. i \in 1..Len(W) /\ b + 1 + i \in 1..Len(output) BY <4>1, <4>n, <5>1
            <6> QED BY <2>6, <4>1, <4>3, <5>1, <6>1
          <5>2. CASE ~(i <= Len(W))
            <6>1. i - Len(W) \in 1..Len(words) /\ Len(output) + (i - Len(W)) = b + 1 + i
              BY <4>1, <4>n, <5>2
            <6>2. output'[Len(output) + (i - Len(W))] = words[i - Len(W)] BY <2>6, <6>1
            <6>3. (W \o words)[i] = words[i - Len(W)] BY <4>3, <5>2
            <6> QED BY <6>1, <6>2, <6>3
          <5> QED BY <5>1, <5>2
        <4>5. Len(output') = b + 1 + (Len(W) + Len(words)) BY <2>6, <4>1, <4>n
        <4> QED BY <4>2, <4>3, <4>4, <4>5
      <3>4. BeforeReport(b)'
        <4>1. ~history.read => Len(input) >= 2 BY <2>9 DEF BeforeReport
        <4> QED BY <1>2, <1>6, <1>11, <2>6, <3>1, <3>2, <3>3, <4>1 DEF BeforeReport
      <3> QED BY <2>7, <3>4
    <2>10. CASE AfterReport(b)
      <3> DEFINE W == history.words
                 st == settings.status
                 r == b + 2 + Len(W)
                 e == r + Len(st) + 1
      <3>1. /\ st \in Status /\ Reported(b, W, st, output) /\ ~Pending(input)
            /\ Len(output) >= b + 3 + Len(W) + Len(st)
        BY <1>9, <2>10 DEF AfterReport
      <3>2. history'.words = W /\ history'.late = history.late + 1 BY <1>4, <2>3, <3>1
      <3>3. history'.late # 0 BY <1>8, <3>2
      <3>4. Len(st) \in Nat /\ Len(W) \in Nat
        <4>1. st \in Seq(Digit) BY <3>1, StatusFacts
        <4>2. W \in Seq(Token) BY <1>8
        <4> HIDE DEF W, st
        <4> QED BY <4>1, <4>2
      <3>r. r \in Nat /\ e \in Nat /\ e <= Len(output) /\ r < e
        <4> HIDE DEF W, st
        <4> QED BY <2>n, <3>1, <3>4
      <3>5. Reported(b, W, st, output')
        <4> SUFFICES ASSUME NEW i \in (b + 2)..Len(output')
                     PROVE  /\ i < r => output'[i] = W[i - b - 1] /\ Echoed(i, output')
                            /\ i = r => output'[i] = "status"
                            /\ r < i /\ i < e => output'[i] = st[i - r]
                            /\ i = e => output'[i] = "newline"
                            /\ e < i => Echoed(i, output')
          BY DEF Reported
        <4>1. CASE i \in 1..Len(output)
          <5>1. i \in (b + 2)..Len(output) BY <2>n, <4>1
          <5>2. /\ i < r => output[i] = W[i - b - 1] /\ Echoed(i, output)
                /\ i = r => output[i] = "status"
                /\ r < i /\ i < e => output[i] = st[i - r]
                /\ i = e => output[i] = "newline"
                /\ e < i => Echoed(i, output)
            BY <3>1, <5>1 DEF Reported
          <5> HIDE DEF r, e, W, st
          <5>3. output'[i] = output[i] /\ (Echoed(i, output) => Echoed(i, output'))
            BY <2>6, <4>1
          <5> QED BY <5>2, <5>3
        <4>2. CASE i \in (Len(output) + 1)..Len(output')
          <5>1. Echoed(i, output') BY <2>6, <4>2
          <5> HIDE DEF r, e, W, st
          <5>2. ~(i < r) /\ i # r /\ ~(i < e) /\ i # e BY <2>n, <3>r, <4>2
          <5> QED BY <5>1, <5>2
        <4> QED BY <2>8, <4>1, <4>2
      <3>6. Len(output') >= b + 3 + Len(W) + Len(st)
        <4> HIDE DEF W, st
        <4> QED BY <2>6, <2>n, <3>1, <3>4
      <3>7. AfterReport(b)' BY <1>2, <1>6, <2>6, <3>1, <3>2, <3>3, <3>5, <3>6 DEF AfterReport
      <3> QED BY <2>7, <3>7
    <2> QED BY <2>1, <2>9, <2>10
  <1>19. EndOK' BY <1>2 DEF EndOK, Ended
  <1> QED BY <1>13, <1>14, <1>15, <1>16, <1>17, <1>18, <1>19 DEF ShellCore

\* The script that is sent, line by line.
LEMMA ScriptLeft ==
  ASSUME NEW m \in {"buffered", "stream"},
         NEW in, in = Script(m) \o (IF m = "stream" THEN <<"users">> ELSE <<>>)
  PROVE  in \in Seq(Line) /\ Left(m, in, FALSE) /\ Len(in) >= 8
  <1> DEFINE head == <<"set", "cd", "export">>
             bufs == <<"begin", "noerrexit", "command", "status", "report", "exit">>
             outs == <<"noerrexit", "command", "status", "exitstatus">>
             user == <<"users">>
  <1>1. /\ head \in Seq(Line) /\ Len(head) = 3
        /\ head[1] = "set" /\ head[2] = "cd" /\ head[3] = "export"
    BY DEF Line
  <1>2. /\ bufs \in Seq(Line) /\ Len(bufs) = 6
        /\ bufs[1] = "begin" /\ bufs[2] = "noerrexit" /\ bufs[3] = "command"
        /\ bufs[4] = "status" /\ bufs[5] = "report" /\ bufs[6] = "exit"
    BY DEF Line
  <1>3. /\ outs \in Seq(Line) /\ Len(outs) = 4
        /\ outs[1] = "noerrexit" /\ outs[2] = "command" /\ outs[3] = "status"
        /\ outs[4] = "exitstatus"
    BY DEF Line
  <1>4. user \in Seq(Line) /\ Len(user) = 1 /\ user[1] = "users" BY DEF Line
  <1>5. CASE m = "buffered"
    <2>1. in = (head \o bufs) \o <<>> BY <1>5 DEF Script
    <2> HIDE DEF head, bufs, outs, user
    <2> DEFINE x == head \o bufs
    <2>2. /\ x \in Seq(Line) /\ Len(x) = Len(head) + Len(bufs)
          /\ \A i \in 1..(Len(head) + Len(bufs)) :
               x[i] = IF i <= Len(head) THEN head[i] ELSE bufs[i - Len(head)]
      BY ONLY <1>1, <1>2, ConcatProperties
    <2>3. in = x BY <2>1, <2>2, ConcatEmptySeq
    <2> HIDE DEF x
    <2>4. /\ in \in Seq(Line) /\ Len(in) = 9
          /\ \A i \in 1..9 : in[i] = IF i <= 3 THEN head[i] ELSE bufs[i - 3]
      BY ONLY <1>1, <1>2, <2>2, <2>3
    <2>n. /\ 4 - 3 = 1 /\ 5 - 3 = 2 /\ 6 - 3 = 3 /\ 7 - 3 = 4 /\ 8 - 3 = 5 /\ 9 - 3 = 6
          /\ {1, 2, 3, 4, 5, 6, 7, 8, 9} \subseteq 1..9
      OBVIOUS
    <2>5. /\ in[1] = "set" /\ in[2] = "cd" /\ in[3] = "export" /\ in[4] = "begin"
          /\ in[5] = "noerrexit" /\ in[6] = "command" /\ in[7] = "status"
          /\ in[8] = "report" /\ in[9] = "exit"
      BY ONLY <1>1, <1>2, <2>4, <2>n
    <2>6. \A i \in 1..9 : in[i] = LinesOf(m)[9 - i + 1] BY <1>5, <2>5 DEF LinesOf
    <2>7. Len(LinesOf(m)) = 9 BY <1>5, Places
    <2>8. Left(m, in, FALSE) BY ONLY <2>4, <2>6, <2>7 DEF Left
    <2>9. Len(in) >= 8 BY ONLY <2>4
    <2> QED BY <2>4, <2>8, <2>9
  <1>6. CASE m = "stream"
    <2>1. in = (head \o outs) \o user BY <1>6 DEF Script
    <2> HIDE DEF head, bufs, outs, user
    <2> DEFINE x == head \o outs
    <2>2. /\ x \in Seq(Line) /\ Len(x) = Len(head) + Len(outs)
          /\ \A i \in 1..(Len(head) + Len(outs)) :
               x[i] = IF i <= Len(head) THEN head[i] ELSE outs[i - Len(head)]
      BY ONLY <1>1, <1>3, ConcatProperties
    <2>x. in = x \o user BY <2>1
    <2> HIDE DEF x
    <2>3. x \in Seq(Line) /\ user \in Seq(Line) BY <1>4, <2>2
    <2>4. /\ in \in Seq(Line) /\ Len(in) = Len(x) + Len(user)
          /\ \A i \in 1..(Len(x) + Len(user)) :
               in[i] = IF i <= Len(x) THEN x[i] ELSE user[i - Len(x)]
      BY ONLY <2>x, <2>3, ConcatProperties
    <2>5. /\ Len(in) = 8 /\ \A i \in 1..7 : in[i] = IF i <= 3 THEN head[i] ELSE outs[i - 3]
          /\ in[8] = user[1]
      <3>1. Len(x) = 7 /\ \A i \in 1..7 : x[i] = IF i <= 3 THEN head[i] ELSE outs[i - 3]
        BY <1>1, <1>3, <2>2
      <3>2. Len(user) = 1 /\ user[1] = user[8 - 7] BY <1>4
      <3>3. Len(in) = 8 BY ONLY <2>4, <3>1, <3>2
      <3>4. ASSUME NEW i \in 1..7
            PROVE  in[i] = IF i <= 3 THEN head[i] ELSE outs[i - 3]
        <4>1. in[i] = x[i] BY ONLY <2>4, <3>1, <3>2
        <4> QED BY ONLY <3>1, <4>1
      <3>5. in[8] = user[8 - 7] BY ONLY <2>4, <3>1, <3>2
      <3> QED BY ONLY <3>2, <3>3, <3>4, <3>5
    <2>6. /\ in[1] = "set" /\ in[2] = "cd" /\ in[3] = "export"
          /\ in[4] = "noerrexit" /\ in[5] = "command" /\ in[6] = "status"
          /\ in[7] = "exitstatus" /\ in[8] = "users"
      <3>1. /\ 4 - 3 = 1 /\ 5 - 3 = 2 /\ 6 - 3 = 3 /\ 7 - 3 = 4
            /\ {1, 2, 3, 4, 5, 6, 7} \subseteq 1..7
        OBVIOUS
      <3> QED BY ONLY <1>1, <1>3, <1>4, <2>5, <3>1
    <2>7. \A i \in 1..8 : in[i] = LinesOf(m)[8 - i + 1] BY <1>6, <2>6 DEF LinesOf
    <2>8. Len(LinesOf(m)) = 8 BY <1>6, Places
    <2>9. Left(m, in, FALSE) BY ONLY <2>5, <2>7, <2>8 DEF Left
    <2>10. Len(in) >= 8 BY ONLY <2>5
    <2> QED BY <2>4, <2>9, <2>10
  <1> QED BY <1>5, <1>6

LEMMA OpenKeeps ==
  ASSUME ShellInv, NEW m \in {"buffered", "stream"}, Open(m)
  PROVE  ShellCore'
  <1>1. /\ state = Unopened /\ state' = Opened /\ mode' = m
        /\ input' = Script(m) \o (IF m = "stream" THEN <<"users">> ELSE <<>>)
        /\ output' \in {<<>>} \cup {<<w, "newline">> : w \in Word}
        /\ settings' = settings /\ command' = command /\ answer' = answer
        /\ history' = history
    BY DEF Open
  <1>2. ShellTypes /\ Untouched BY DEF ShellInv, ShellCore
  <1>3. /\ command = NotRun /\ ~settings.errexit /\ settings.status = NoStatus
        /\ ~history.cut /\ ~history.read /\ history.words = <<>> /\ history.read \in BOOLEAN
    BY <1>1, <1>2 DEF Untouched, ShellTypes
  <1>4. input' \in Seq(Line) /\ Left(m, input', FALSE) /\ Len(input') >= 8
    BY <1>1, ScriptLeft
  <1>l. /\ Len(input') >= 6 /\ Len(input') >= 4 /\ Len(input') >= 2 /\ Len(input') >= 1
        /\ ~(Len(input') <= 5) /\ ~(Len(input') <= 2)
    BY <1>4
  <1>5. /\ output' \in Seq(Token) /\ Len(output') \in Nat
        /\ \A i \in 1..Len(output') : output'[i] # "begin"
    <2>1. CASE output' = <<>> BY <2>1
    <2>2. CASE output' \in {<<w, "newline">> : w \in Word}
      <3>1. PICK w \in Word : output' = <<w, "newline">> BY <2>2
      <3>2. w \in Token /\ w # "begin" /\ "newline" \in Token BY WordAssumption DEF Token, Mark
      <3> QED BY <3>1, <3>2
    <2> QED BY <1>1, <2>1, <2>2
  <1>6. ShellTypes' BY <1>1, <1>2, <1>4, <1>5 DEF ShellTypes
  <1>7. Untouched' BY <1>1, <1>2, StateFacts DEF Untouched
  <1>8. InputOK'
    <2>1. history'.read = FALSE BY <1>1, <1>3
    <2> QED BY <1>1, <1>4, <2>1 DEF InputOK
  <1>9. ControlOK' BY <1>1, <1>3, <1>l DEF ControlOK
  <1>10. UnreadOK'
    <2>1. command' # Running BY <1>1, <1>3, StateFacts
    <2> QED BY <1>l, <2>1 DEF UnreadOK
  <1>11. OutputOK'
    <2>1. PICK b \in Nat \ {0} : b = Len(output') + 1 BY <1>5
    <2>2. Len(output') < b BY <1>5, <2>1
    <2>3. BeginsAt(b, output') BY <1>5, <2>1 DEF BeginsAt
    <2>4. Unreported(b, output')
      <3>1. (b + 2)..Len(output') = {} BY <1>5, <2>1
      <3> QED BY <3>1 DEF Unreported
    <2>5. BeforeReport(b)' BY <1>l, <2>2, <2>4 DEF BeforeReport
    <2> QED BY <2>3, <2>5 DEF OutputOK
  <1>12. EndOK' BY <1>1 DEF EndOK, Ended
  <1> QED BY <1>6, <1>7, <1>8, <1>9, <1>10, <1>11, <1>12 DEF ShellCore

\* The answer is read off the output, or is the shell's own status.
LEMMA ReplyKeeps == ASSUME ShellInv, Reply PROVE ShellInv'
  <1>1. /\ Ended /\ state # Unopened
        /\ answer' = CASE state # Zero -> Answer("shell", state, <<>>)
                       [] state = Zero /\ mode = "stream" -> Answer("success", Zero, output)
                       [] state = Zero /\ mode = "buffered" -> Parse(output)
        /\ mode' = mode /\ input' = input /\ settings' = settings /\ command' = command
        /\ output' = output /\ state' = state /\ history' = history
    BY DEF Reply, Ended
  <1>2. /\ ShellTypes /\ Untouched /\ ControlOK /\ UnreadOK /\ OutputOK /\ InputOK
        /\ mode \in {"buffered", "stream"} /\ EndOK
    BY <1>1, OpenedFacts DEF InputOK, ShellInv, ShellCore
  <1>3. /\ ShellTypes' /\ Untouched' /\ InputOK' /\ ControlOK' /\ UnreadOK' /\ EndOK' /\ Ended'
    BY <1>1, <1>2
       DEF ShellTypes, Untouched, InputOK, ControlOK, UnreadOK, EndOK, Ended, Undisturbed
  <1>4. OutputOK' BY <1>1, <1>2 DEF OutputOK, BeforeReport, AfterReport
  <1>5. ShellCore' BY <1>3, <1>4 DEF ShellCore
  <1>6. /\ state # Zero => answer' = Answer("shell", state, <<>>)
        /\ state = Zero /\ mode = "stream" => answer' = Answer("success", Zero, output)
        /\ state = Zero /\ mode = "buffered" => answer' = Parse(output)
    BY <1>1
  <1>7. ASSUME mode = "buffered", NEW b \in Nat \ {0}, BeginsAt(b, output), AfterReport(b),
               \/ Parse(output).kind # "protocol"
               \/ Undisturbed
        PROVE  /\ Parse(output) = Answer(IF settings.status = Zero THEN "success" ELSE "exited",
                                         settings.status, history.words)
               /\ settings.status = command
    <2>1. /\ settings.status \in Status /\ Reported(b, history.words, settings.status, output)
          /\ Undisturbed =>
               Len(output) = b + 3 + Len(history.words) + Len(settings.status)
      BY <1>7 DEF AfterReport, Undisturbed
    <2>2. /\ settings.status \in Seq(Digit) /\ IsCode(settings.status)
          /\ settings.status # NoStatus
      BY <2>1, StatusFacts, StatusAssumption
    <2>3. output \in Seq(Token) /\ history.words \in Seq(Token) BY <1>2 DEF ShellTypes
    <2>4. settings.status = command BY <1>2, <2>2 DEF ControlOK
    <2> DEFINE st == settings.status
               W == history.words
    <2>5. /\ st \in Seq(Digit) /\ IsCode(st) /\ W \in Seq(Token) /\ Reported(b, W, st, output)
          /\ Parse(output).kind # "protocol" \/ Len(output) = b + 3 + Len(W) + Len(st)
      BY <1>7, <2>1, <2>2, <2>3
    <2> HIDE DEF st, W
    <2>6. Parse(output) = Answer(IF st = Zero THEN "success" ELSE "exited", st, W)
      BY <1>7, <2>3, <2>5, ParseReported
    <2> QED BY <2>4, <2>6 DEF st, W
  <1>8. AnswerIsTheCommands'
    <2> SUFFICES ASSUME mode = "buffered", answer'.kind \in {"success", "exited"}
                 PROVE  command = answer'.status /\ answer'.output = history.words
      BY <1>1 DEF AnswerIsTheCommands
    <2>1. state = Zero /\ answer' = Parse(output) BY <1>6 DEF Answer
    <2>2. Parse(output).kind # "protocol" BY <2>1
    <2>3. PICK b \in Nat \ {0} : BeginsAt(b, output) /\ (BeforeReport(b) \/ AfterReport(b))
      BY <1>2 DEF OutputOK
    <2>4. AfterReport(b)
      <3>1. output \in Seq(Token) BY <1>2 DEF ShellTypes
      <3> QED BY <2>2, <2>3, <3>1, ParseUnreported DEF BeforeReport
    <2> QED BY <1>7, <2>1, <2>2, <2>3, <2>4 DEF Answer
  <1>9. UndisturbedIsAnswered'
    <2> SUFFICES ASSUME Undisturbed
                 PROVE  IF command = Zero THEN answer'.kind = "success"
                        ELSE answer'.kind = (IF mode = "buffered" THEN "exited" ELSE "shell")
                             /\ answer'.status = command
      BY <1>1 DEF UndisturbedIsAnswered, Undisturbed
    <2>1. /\ settings.status # NoStatus
          /\ IF mode = "buffered" THEN state = Zero /\ Len(input) = 1 ELSE state = command
      BY <1>1, <1>2 DEF EndOK
    <2>2. CASE mode = "buffered"
      <3>1. state = Zero /\ Len(input) = 1 /\ answer' = Parse(output) BY <1>6, <2>1, <2>2
      <3>2. PICK b \in Nat \ {0} : BeginsAt(b, output) /\ (BeforeReport(b) \/ AfterReport(b))
        BY <1>2, <2>2 DEF OutputOK
      <3>3. AfterReport(b)
        <4>1. ~(Len(input) >= 2) BY <3>1
        <4> QED BY <3>2, <4>1 DEF BeforeReport, Undisturbed
      <3>4. /\ Parse(output) = Answer(IF settings.status = Zero THEN "success" ELSE "exited",
                                      settings.status, history.words)
            /\ settings.status = command
        BY <1>7, <2>2, <3>2, <3>3
      <3> QED BY <2>2, <3>1, <3>4 DEF Answer
    <2>3. CASE mode = "stream" BY <1>6, <2>1, <2>3 DEF Answer
    <2> QED BY <1>2, <2>2, <2>3
  <1> QED BY <1>3, <1>5, <1>8, <1>9 DEF ShellInv

LEMMA OffIsFine == ASSUME Off PROVE ShellInv
  <1>1. /\ mode = "buffered" /\ input = <<>> /\ command = NotRun /\ output = <<>>
        /\ state = Unopened
        /\ settings = [errexit |-> FALSE, nounset |-> FALSE, status |-> NoStatus]
        /\ answer.kind = "none"
        /\ history = [words |-> <<>>, read |-> FALSE, late |-> 0, cut |-> FALSE,
                      failed |-> FALSE]
    BY DEF Off
  <1>2. ShellTypes BY <1>1 DEF ShellTypes
  <1>3. Untouched BY <1>1 DEF Untouched
  <1>4. EndOK BY <1>1 DEF EndOK, Ended
  <1>5. AnswerIsTheCommands /\ UndisturbedIsAnswered
    BY <1>1 DEF AnswerIsTheCommands, UndisturbedIsAnswered
  <1> QED BY <1>1, <1>2, <1>3, <1>4, <1>5 DEF ShellInv, ShellCore

LEMMA StutterKeeps == ASSUME ShellInv, UNCHANGED shellVars PROVE ShellInv'
  BY DEF shellVars, ShellInv, ShellCore, ShellTypes, Untouched, InputOK, ControlOK, UnreadOK,
         OutputOK, BeforeReport, AfterReport, EndOK, Undisturbed, Ended, AnswerIsTheCommands,
         UndisturbedIsAnswered

\* The invariant: what is left of the script, what the output looks like, and
\* what the shell knows, whatever the command reads, writes or outlives.
THEOREM ShellHolds == ShellSpec => []ShellInv
  <1>1. Off => ShellInv BY OffIsFine
  <1>2. ASSUME ShellInv, [ShellStep]_shellVars PROVE ShellInv'
    <2>1. CASE UNCHANGED shellVars BY <1>2, <2>1, StutterKeeps
    <2>2. CASE Reply BY <1>2, <2>2, ReplyKeeps
    <2>3. ASSUME NEW m \in {"buffered", "stream"}, Open(m) PROVE ShellInv'
      <3>1. answer.kind = "none" BY <1>2, <2>3, NotAnswered
      <3>2. answer' = answer BY <2>3 DEF Open
      <3>3. ShellCore' BY <1>2, <2>3, OpenKeeps
      <3> QED BY <1>2, <3>1, <3>2, <3>3, CoreIsEnough
    <2>4. CASE \/ Set \/ ChangeDir \/ PrintBegin \/ StartCommand \/ CommandEnds \/ SaveStatus
               \/ Report \/ ShellEnds \/ Write \/ Read \/ Cut
      <3>1. answer.kind = "none" BY <1>2, <2>4, NotAnswered DEF ShellNext
      <3>2. answer' = answer
        BY <2>4 DEF Set, ChangeDir, PrintBegin, StartCommand, CommandEnds, SaveStatus, Report,
                    ShellEnds, Write, Read, Cut
      <3>3. ShellCore'
        <4>1. CASE Set BY <1>2, <4>1, SetKeeps
        <4>2. CASE ChangeDir BY <1>2, <4>2, ChangeDirKeeps
        <4>3. CASE PrintBegin BY <1>2, <4>3, PrintBeginKeeps
        <4>4. CASE StartCommand BY <1>2, <4>4, StartCommandKeeps
        <4>5. CASE CommandEnds BY <1>2, <4>5, CommandEndsKeeps
        <4>6. CASE SaveStatus BY <1>2, <4>6, SaveStatusKeeps
        <4>7. CASE Report BY <1>2, <4>7, ReportKeeps
        <4>8. CASE ShellEnds BY <1>2, <4>8, ShellEndsKeeps
        <4>9. CASE Write BY <1>2, <4>9, WriteKeeps
        <4>10. CASE Read BY <1>2, <4>10, ReadKeeps
        <4>11. CASE Cut BY <1>2, <4>11, CutKeeps
        <4> QED BY <2>4, <4>1, <4>2, <4>3, <4>4, <4>5, <4>6, <4>7, <4>8, <4>9, <4>10, <4>11
      <3> QED BY <1>2, <3>1, <3>2, <3>3, CoreIsEnough
    <2> QED BY <1>2, <2>1, <2>2, <2>3, <2>4 DEF ShellStep, ShellNext
  <1> QED BY <1>1, <1>2, PTL DEF ShellSpec

\* What the markers say is what happened: a command whose status and output
\* are returned ran to its end with them, whatever of the script it read or
\* echoed, whatever its children wrote after it, and wherever the output was
\* cut (system.go 243-275, 303-327).
THEOREM AnswersAreTrue == ShellSpec => []AnswerIsTheCommands
  <1>1. ShellInv => AnswerIsTheCommands BY DEF ShellInv
  <1> QED BY <1>1, ShellHolds, PTL

\* A command that is left alone, and leaves the script alone, gets its status
\* through (system.go 124-147, 186-221).
THEOREM UndisturbedGetThrough == ShellSpec => []UndisturbedIsAnswered
  <1>1. ShellInv => UndisturbedIsAnswered BY DEF ShellInv
  <1> QED BY <1>1, ShellHolds, PTL
=============================================================================
