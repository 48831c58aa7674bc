------------------------ MODULE CompileCommandsProofs ------------------------
(***************************************************************************)
(* Proofs about compile_commands.json for any number of terminals and      *)
(* directories, any Makefiles and any bounds on what happens to them: the  *)
(* script takes from a command line what it means, and the file that a     *)
(* make leaves which nothing disturbed is the one list of first commands.  *)
(***************************************************************************)
EXTENDS CompileCommands, FiniteSetTheorems, SequenceTheorems, WellFoundedInduction, TLAPS

-----------------------------------------------------------------------------
(* Induction and recursion *)

\* Induction: a set that holds 0 and with every number the next holds all of them.
LEMMA InductionOnSet ==
  ASSUME NEW S, 0 \in S, \A n \in Nat : n \in S => n + 1 \in S
  PROVE  Nat \subseteq S
<1> DEFINE R == OpToRel(<, Nat)
           X == Nat \ S
<1>1. SUFFICES ASSUME X # {} PROVE FALSE
  OBVIOUS
<1>2. X \subseteq Nat /\ IsWellFoundedOn(R, Nat)
  BY NatLessThanWellFounded
<1>3. \A i, j \in Nat : i < j => <<i, j>> \in R
  BY DEF OpToRel
<1> HIDE DEF R, X
<1>4. PICK m \in X : \A y \in X : ~ (<<y, m>> \in R)
  BY <1>1, <1>2, WFMin
<1>5. m \in Nat /\ m \notin S /\ m # 0
  BY <1>4 DEF X
<1>6. m - 1 \in Nat /\ m - 1 < m
  BY <1>5
<1>7. m - 1 \in S
  BY <1>3, <1>4, <1>5, <1>6 DEF X
<1>8. m - 1 + 1 \in S
  BY <1>6, <1>7
<1> QED BY <1>5, <1>8

\* f is computed from b, step after step.
Computes(f, b, n, step) == f[0] = b /\ \A k \in 1 .. n : f[k] = step[k][f[k - 1]]

\* Recursion: every such computation has a result.
LEMMA Recursion ==
  ASSUME NEW V, NEW b \in V, NEW n \in Nat, NEW step \in [1 .. n -> [V -> V]]
  PROVE  \E f \in [0 .. n -> V] : Computes(f, b, n, step)
<1> DEFINE Done == {m \in Nat : m <= n => \E f \in [0 .. m -> V] : Computes(f, b, m, step)}
<1>1. 0 \in Done
  <2> DEFINE f == [k \in 0 .. 0 |-> b]
  <2>1. f \in [0 .. 0 -> V] /\ Computes(f, b, 0, step)
    BY DEF Computes
  <2> QED BY <2>1
<1>2. ASSUME NEW m \in Nat, m \in Done PROVE m + 1 \in Done
  <2>1. SUFFICES ASSUME m + 1 <= n PROVE \E f \in [0 .. m + 1 -> V] : Computes(f, b, m + 1, step)
    OBVIOUS
  <2>2. PICK f \in [0 .. m -> V] : Computes(f, b, m, step)
    BY <1>2, <2>1
  <2> DEFINE g == [k \in 0 .. m + 1 |-> IF k = m + 1 THEN step[m + 1][f[m]] ELSE f[k]]
  <2>3. m + 1 \in 1 .. n /\ f[m] \in V
    BY <2>1
  <2>4. step[m + 1][f[m]] \in V
    BY <2>3
  <2>5. g \in [0 .. m + 1 -> V]
    BY <2>4
  <2>6. \A k \in 0 .. m : g[k] = f[k]
    OBVIOUS
  <2>7. g[m + 1] = step[m + 1][g[m]]
    OBVIOUS
  <2> HIDE DEF g
  <2>8. g[0] = b
    BY <2>2, <2>6 DEF Computes
  <2>9. ASSUME NEW k \in 1 .. m + 1 PROVE g[k] = step[k][g[k - 1]]
    <3>1. CASE k = m + 1
      BY <2>7, <3>1
    <3>2. CASE k # m + 1
      <4>1. k \in 1 .. m /\ k \in 0 .. m /\ k - 1 \in 0 .. m
        BY <3>2
      <4> QED BY <2>2, <2>6, <4>1 DEF Computes
    <3> QED BY <3>1, <3>2
  <2> QED BY <2>5, <2>8, <2>9 DEF Computes
<1> HIDE DEF Done
<1>3. n \in Done
  BY <1>1, <1>2, InductionOnSet
<1> QED BY <1>3 DEF Done

\* What is appended comes last and leaves the rest.
LEMMA Appended ==
  ASSUME NEW S, NEW seq \in Seq(S), NEW e \in S
  PROVE  /\ Append(seq, e) \in Seq(S) /\ Len(Append(seq, e)) = Len(seq) + 1
         /\ DOMAIN seq = 1 .. Len(seq) /\ Len(seq) \in Nat
         /\ \A i \in 1 .. Len(seq) : Append(seq, e)[i] = seq[i]
         /\ Append(seq, e)[Len(seq) + 1] = e
OBVIOUS

\* To put one element behind is to append it.
LEMMA Concatenated ==
  ASSUME NEW S, NEW a \in Seq(S), NEW e \in S
  PROVE  a \o <<e>> = Append(a, e)
BY <<e>> \in Seq(S)

-----------------------------------------------------------------------------
(* parse_command: what the reference reading and the loop compute *)

\* A word that names an output is a word behind a -o that is none.
Names(named, tokens) ==
  named \in [0 .. Len(tokens) -> BOOLEAN]
    /\ \A k \in 0 .. Len(tokens) : named[k] <=> k > 1 /\ tokens[k - 1].kind = "-o" /\ ~named[k - 1]

\* OutputName marks just these words.
LEMMA NamesOutput ==
  ASSUME NEW tokens \in Seq(Token)
  PROVE  Names(OutputName(tokens), tokens)
<1> DEFINE n == Len(tokens)
           After(k) == k > 1 /\ tokens[k - 1].kind = "-o"
           step == [k \in 1 .. n |-> [v \in BOOLEAN |-> IF After(k) THEN IF v THEN FALSE ELSE TRUE ELSE FALSE]]
           Fits(f) == f = [k \in 0 .. n |-> k > 1 /\ tokens[k - 1].kind = "-o" /\ ~f[k - 1]]
<1>0. n \in Nat
  OBVIOUS
<1>1. step \in [1 .. n -> [BOOLEAN -> BOOLEAN]]
  OBVIOUS
<1>2. PICK f \in [0 .. n -> BOOLEAN] : Computes(f, FALSE, n, step)
  <2> HIDE DEF n, step
  <2> QED BY <1>0, <1>1, Recursion
<1>3. \A k \in 0 .. n : f[k] <=> k > 1 /\ tokens[k - 1].kind = "-o" /\ ~f[k - 1]
  <2>1. f[0] = FALSE
    BY <1>2 DEF Computes
  <2>2. ASSUME NEW k \in 1 .. n PROVE f[k] <=> After(k) /\ ~f[k - 1]
    <3>1. f[k] = step[k][f[k - 1]] /\ f[k - 1] \in BOOLEAN
      BY <1>0, <1>2 DEF Computes
    <3>2. f[k] = IF After(k) THEN IF f[k - 1] THEN FALSE ELSE TRUE ELSE FALSE
      BY <3>1
    <3> QED BY <3>2
  <2>3. \A k \in 0 .. n : k = 0 \/ k \in 1 .. n
    BY <1>0
  <2> QED BY <2>1, <2>2, <2>3
<1>4. Fits(f)
  <2>1. f = [k \in 0 .. n |-> f[k]]
    BY <1>2
  <2>2. \A k \in 0 .. n : f[k] \in BOOLEAN
    BY <1>2
  <2>3. \A k \in 0 .. n : f[k] = (k > 1 /\ tokens[k - 1].kind = "-o" /\ ~f[k - 1])
    BY <1>3, <2>2
  <2> QED BY <2>1, <2>3
<1>5. OutputName(tokens) = CHOOSE g : Fits(g)
  BY DEF OutputName
<1>6. Fits(OutputName(tokens))
  <2> HIDE DEF Fits
  <2> QED BY <1>4, <1>5
<1> QED BY <1>6 DEF Names

\* The words are put one behind the other.
Chains(upto, tokens) ==
  /\ upto \in [0 .. Len(tokens) -> Seq(Token)] /\ upto[0] = <<>>
  /\ \A k \in 1 .. Len(tokens) :
       upto[k] = IF k \in Telling(tokens) THEN Append(upto[k - 1], tokens[k]) ELSE upto[k - 1]

\* Words is the end of such a chain.
LEMMA WordsChain ==
  ASSUME NEW tokens \in Seq(Token)
  PROVE  \E upto : Chains(upto, tokens) /\ Words(tokens) = upto[Len(tokens)]
<1> DEFINE n == Len(tokens)
           step == [k \in 1 .. n |-> [w \in Seq(Token) |->
                      IF k \in Telling(tokens) THEN Append(w, tokens[k]) ELSE w]]
           Fits(f) == f = [k \in 0 .. n |->
             IF k = 0 THEN <<>>
             ELSE IF k \in Telling(tokens) THEN Append(f[k - 1], tokens[k]) ELSE f[k - 1]]
<1>0. n \in Nat /\ \A k \in 1 .. n : tokens[k] \in Token
  OBVIOUS
<1>1. step \in [1 .. n -> [Seq(Token) -> Seq(Token)]]
  BY <1>0
<1>2. PICK f \in [0 .. n -> Seq(Token)] : Computes(f, <<>>, n, step)
  <2>1. <<>> \in Seq(Token)
    OBVIOUS
  <2> HIDE DEF n, step
  <2> QED BY <1>0, <1>1, <2>1, Recursion
<1>3. f[0] = <<>> /\ \A k \in 1 .. n : f[k] = IF k \in Telling(tokens) THEN Append(f[k - 1], tokens[k]) ELSE f[k - 1]
  <2>1. ASSUME NEW k \in 1 .. n
        PROVE  f[k] = IF k \in Telling(tokens) THEN Append(f[k - 1], tokens[k]) ELSE f[k - 1]
    <3>1. f[k] = step[k][f[k - 1]]
      BY <1>2 DEF Computes
    <3>2. k - 1 \in 0 .. n
      BY <1>0
    <3>3. f[k - 1] \in Seq(Token)
      BY <1>2, <3>2
    <3>4. \A w \in Seq(Token) : step[k][w] = IF k \in Telling(tokens) THEN Append(w, tokens[k]) ELSE w
      OBVIOUS
    <3> QED BY <3>1, <3>3, <3>4
  <2> QED BY <1>2, <2>1 DEF Computes
<1>4. Fits(f)
  <2>1. f = [k \in 0 .. n |-> f[k]]
    BY <1>2
  <2>2. \A k \in 0 .. n : k = 0 \/ k \in 1 .. n
    BY <1>0
  <2>3. \A k \in 0 .. n : f[k] = IF k = 0 THEN <<>>
          ELSE IF k \in Telling(tokens) THEN Append(f[k - 1], tokens[k]) ELSE f[k - 1]
    BY <1>3, <2>2
  <2> QED BY <2>1, <2>3
<1>5. PICK g : g = CHOOSE h : Fits(h)
  OBVIOUS
<1>6. Fits(g)
  <2> HIDE DEF Fits
  <2> QED BY <1>4, <1>5
<1>7. Words(tokens) = g[n]
  BY <1>5 DEF Words
<1>8. Chains(g, tokens)
  <2>1. DOMAIN g = 0 .. n /\ g[0] = <<>>
    BY <1>0, <1>6
  <2>2. ASSUME NEW k \in 1 .. n
        PROVE  g[k] = IF k \in Telling(tokens) THEN Append(g[k - 1], tokens[k]) ELSE g[k - 1]
    <3>1. k \in 0 .. n /\ k # 0
      BY <1>0
    <3>2. \A j \in 0 .. n : g[j] = IF j = 0 THEN <<>>
            ELSE IF j \in Telling(tokens) THEN Append(g[j - 1], tokens[j]) ELSE g[j - 1]
      BY <1>6
    <3> QED BY <3>1, <3>2
  <2>3. g \in [0 .. n -> Seq(Token)]
    <3> DEFINE S == {k \in Nat : k <= n => g[k] \in Seq(Token)}
    <3>1. 0 \in S
      BY <2>1
    <3>2. ASSUME NEW k \in Nat, k \in S PROVE k + 1 \in S
      <4>1. SUFFICES ASSUME k + 1 <= n PROVE g[k + 1] \in Seq(Token)
        OBVIOUS
      <4>2. k + 1 \in 1 .. n /\ (k + 1) - 1 = k /\ g[k] \in Seq(Token)
        BY <3>2, <4>1
      <4>3. tokens[k + 1] \in Token
        BY <1>0, <4>2
      <4>4. g[k + 1] = IF k + 1 \in Telling(tokens) THEN Append(g[k], tokens[k + 1]) ELSE g[k]
        BY <2>2, <4>2
      <4>5. Append(g[k], tokens[k + 1]) \in Seq(Token)
        BY <4>2, <4>3, Appended
      <4> QED BY <4>2, <4>4, <4>5
    <3> HIDE DEF S
    <3>3. Nat \subseteq S
      BY <3>1, <3>2, InductionOnSet
    <3>4. \A k \in 0 .. n : g[k] \in Seq(Token)
      BY <1>0, <3>3 DEF S
    <3> QED BY <1>6, <3>4
  <2> QED BY <2>1, <2>2, <2>3 DEF Chains
<1> QED BY <1>7, <1>8

\* What the parse makes of word i, from what it makes of the words behind it.
Reading == [source : Seq(STRING), arguments : Seq(Token)]
Nothing == [source |-> <<>>, arguments |-> <<>>]
Read(tokens, i, one, two) ==
  CASE tokens[i].kind = "-o"                  -> two
    [] tokens[i].kind \in {"-ofile", "link"}  -> one
    [] OTHER ->
         [source    |-> IF tokens[i].kind = "source" /\ one.source = <<>>
                        THEN <<tokens[i].name>> ELSE one.source,
          arguments |-> <<tokens[i]>> \o one.arguments]

Reads(from, tokens) ==
  /\ from \in [2 .. Len(tokens) + 2 -> Reading]
  /\ \A i \in 2 .. Len(tokens) + 2 :
       from[i] = IF i > Len(tokens) THEN Nothing ELSE Read(tokens, i, from[i + 1], from[i + 2])

\* One word read gives a reading again.
LEMMA ReadTyped ==
  ASSUME NEW tokens \in Seq(Token), NEW i \in 1 .. Len(tokens), NEW one \in Reading, NEW two \in Reading
  PROVE  Read(tokens, i, one, two) \in Reading
<1>1. tokens[i] \in Token /\ tokens[i].name \in STRING
  <2>1. tokens[i] \in Token
    OBVIOUS
  <2> QED BY <2>1 DEF Token
<1>2. one.source \in Seq(STRING) /\ one.arguments \in Seq(Token)
  BY DEF Reading
<1>3. <<tokens[i]>> \in Seq(Token) /\ <<tokens[i].name>> \in Seq(STRING)
  BY <1>1
<1>4. <<tokens[i]>> \o one.arguments \in Seq(Token)
  BY <1>2, <1>3
<1> QED BY <1>2, <1>3, <1>4 DEF Read, Reading

\* The loop can be followed from the last word to the first.
LEMMA ReadsBehind ==
  ASSUME NEW tokens \in Seq(Token), tokens # <<>>
  PROVE  \E from : Reads(from, tokens)
<1> DEFINE V == Reading \X Reading
           n == Len(tokens)
           step == [m \in 1 .. n - 1 |-> [v \in V |-> <<v[2], Read(tokens, n + 1 - m, v[2], v[1])>>]]
<1>0. n \in Nat /\ n >= 1 /\ n - 1 \in Nat
  OBVIOUS
<1>1. Nothing \in Reading
  <2>1. <<>> \in Seq(STRING) /\ <<>> \in Seq(Token)
    OBVIOUS
  <2> QED BY <2>1 DEF Nothing, Reading
<1>2. step \in [1 .. n - 1 -> [V -> V]]
  <2>1. ASSUME NEW m \in 1 .. n - 1, NEW v \in V
        PROVE  <<v[2], Read(tokens, n + 1 - m, v[2], v[1])>> \in V
    <3>1. n + 1 - m \in 1 .. Len(tokens) /\ v[1] \in Reading /\ v[2] \in Reading
      BY <1>0
    <3>2. Read(tokens, n + 1 - m, v[2], v[1]) \in Reading
      BY <3>1, ReadTyped
    <3> QED BY <3>1, <3>2
  <2> QED BY <2>1
<1>3. PICK h \in [0 .. n - 1 -> V] : Computes(h, <<Nothing, Nothing>>, n - 1, step)
  <2>1. <<Nothing, Nothing>> \in V
    BY <1>1
  <2> HIDE DEF n, step, V
  <2> QED BY <1>0, <1>2, <2>1, Recursion
<1>4. h[0] = <<Nothing, Nothing>>
  BY <1>3 DEF Computes
<1>5. ASSUME NEW m \in 1 .. n - 1
      PROVE  /\ m - 1 \in 0 .. n - 1 /\ m \in 0 .. n - 1
             /\ h[m] = <<h[m - 1][2], Read(tokens, n + 1 - m, h[m - 1][2], h[m - 1][1])>>
  <2>1. m - 1 \in 0 .. n - 1 /\ m \in 0 .. n - 1
    BY <1>0
  <2>2. h[m - 1] \in V /\ h[m] = step[m][h[m - 1]]
    BY <1>3, <2>1 DEF Computes
  <2> QED BY <2>1, <2>2
<1> DEFINE from == [i \in 2 .. n + 2 |-> IF i = n + 2 THEN Nothing ELSE h[n + 1 - i][2]]
<1> HIDE DEF step
<1>6. /\ from[n + 2] = Nothing /\ from[n + 1] = Nothing
      /\ \A i \in 2 .. n + 1 : n + 1 - i \in 0 .. n - 1 /\ from[i] = h[n + 1 - i][2]
  <2>1. n + 2 \in 2 .. n + 2 /\ n + 1 \in 2 .. n + 2 /\ n + 1 # n + 2 /\ n + 1 - (n + 1) = 0
    BY <1>0
  <2>2. \A i \in 2 .. n + 1 : i \in 2 .. n + 2 /\ i # n + 2 /\ n + 1 - i \in 0 .. n - 1
    BY <1>0
  <2>3. h[0][2] = Nothing
    BY <1>4
  <2> HIDE DEF n
  <2> QED BY <2>1, <2>2, <2>3
<1>7. from \in [2 .. n + 2 -> Reading]
  <2>1. ASSUME NEW i \in 2 .. n + 2 PROVE (IF i = n + 2 THEN Nothing ELSE h[n + 1 - i][2]) \in Reading
    <3>1. CASE i = n + 2
      BY <1>1, <3>1
    <3>2. CASE i # n + 2
      <4>1. n + 1 - i \in 0 .. n - 1
        BY <1>0, <3>2
      <4>2. h[n + 1 - i] \in V
        BY <1>3, <4>1
      <4> QED BY <3>2, <4>2
    <3> QED BY <3>1, <3>2
  <2> QED BY <2>1
<1>8. ASSUME NEW i \in 2 .. n
      PROVE  from[i] = Read(tokens, i, from[i + 1], from[i + 2])
  <2>1. PICK m \in 1 .. n - 1 : m = n + 1 - i
    BY <1>0
  <2>2. h[m] = <<h[m - 1][2], Read(tokens, n + 1 - m, h[m - 1][2], h[m - 1][1])>>
    BY <1>5
  <2>3. from[i] = h[m][2]
    <3>1. i \in 2 .. n + 1
      BY <1>0
    <3> QED BY <1>6, <2>1, <3>1
  <2>4. from[i + 1] = h[m - 1][2]
    <3>1. i + 1 \in 2 .. n + 1 /\ n + 1 - (i + 1) = m - 1
      BY <1>0, <2>1
    <3> QED BY <1>6, <3>1
  <2>5. from[i + 2] = h[m - 1][1]
    <3>1. CASE m = 1
      <4>1. i + 2 = n + 2 /\ m - 1 = 0
        BY <1>0, <2>1, <3>1
      <4> QED BY <1>4, <1>6, <4>1
    <3>2. CASE m # 1
      <4>1. m - 1 \in 1 .. n - 1 /\ i + 2 \in 2 .. n + 1 /\ n + 1 - (i + 2) = (m - 1) - 1
        BY <1>0, <2>1, <3>2
      <4>2. h[m - 1][1] = h[(m - 1) - 1][2]
        BY <1>5, <4>1
      <4> QED BY <1>6, <4>1, <4>2
    <3> QED BY <3>1, <3>2
  <2>6. n + 1 - m = i
    BY <1>0, <2>1
  <2> HIDE DEF from
  <2> QED BY <2>2, <2>3, <2>4, <2>5, <2>6
<1>9. ASSUME NEW i \in 2 .. n + 2
      PROVE  from[i] = IF i > n THEN Nothing ELSE Read(tokens, i, from[i + 1], from[i + 2])
  <2>1. i = n + 1 \/ i = n + 2 \/ i \in 2 .. n
    BY <1>0
  <2>2. CASE i \in 2 .. n
    <3>1. ~(i > n)
      BY <1>0, <2>2
    <3> HIDE DEF from, n
    <3> QED BY <1>8, <2>2, <3>1
  <2>3. CASE i \in {n + 1, n + 2}
    BY <1>0, <1>6, <2>3
  <2> QED BY <2>1, <2>2, <2>3
<1> HIDE DEF from
<1>10. Reads(from, tokens)
  BY <1>7, <1>9 DEF Reads
<1> QED BY <1>10

\* Parsed is what such a loop has at the word behind the compiler.
LEMMA ParsedReads ==
  ASSUME NEW tokens \in Seq(Token), tokens # <<>>, NEW from, Reads(from, tokens)
  PROVE  Parsed(tokens) = from[2]
<1> DEFINE n == Len(tokens)
           Fits(g) == g = [i \in 2 .. n + 2 |->
                             IF i > n THEN [source |-> <<>>, arguments |-> <<>>]
                             ELSE Read(tokens, i, g[i + 1], g[i + 2])]
<1>0. n \in Nat /\ n >= 1
  OBVIOUS
<1>2. \A i \in 2 .. n + 2 : from[i] = IF i > n THEN Nothing ELSE Read(tokens, i, from[i + 1], from[i + 2])
  BY DEF Reads
<1>5. Fits(from)
  <2>1. from = [i \in 2 .. n + 2 |-> from[i]]
    BY DEF Reads
  <2> HIDE DEF n
  <2> QED BY <1>2, <2>1 DEF Nothing
<1>6. PICK g : g = CHOOSE h : Fits(h)
  OBVIOUS
<1>7. Parsed(tokens) = g[2]
  BY <1>6 DEF Parsed, Read
<1>8. Fits(g)
  <2> HIDE DEF Fits
  <2> QED BY <1>5, <1>6
<1>9. \A i \in 2 .. n + 2 : g[i] = IF i > n THEN Nothing ELSE Read(tokens, i, g[i + 1], g[i + 2])
  BY <1>8 DEF Nothing
<1> HIDE DEF Fits, n
<1> DEFINE Same == {j \in Nat : \A i \in 2 .. n + 2 : i >= n + 2 - j => g[i] = from[i]}
<1>10. 0 \in Same
  <2>1. ASSUME NEW i \in 2 .. n + 2, i >= n + 2 - 0 PROVE g[i] = from[i]
    <3>1. i > n
      BY <1>0, <2>1
    <3> QED BY <1>2, <1>9, <3>1
  <2> QED BY <2>1
<1>11. ASSUME NEW j \in Nat, j \in Same PROVE j + 1 \in Same
  <2>1. SUFFICES ASSUME NEW i \in 2 .. n + 2, i >= n + 2 - (j + 1) PROVE g[i] = from[i]
    OBVIOUS
  <2>2. CASE i > n
    BY <1>2, <1>9, <2>2
  <2>3. CASE ~(i > n)
    <3>1. /\ i + 1 \in 2 .. n + 2 /\ i + 1 >= n + 2 - j
          /\ i + 2 \in 2 .. n + 2 /\ i + 2 >= n + 2 - j
      BY <1>0, <2>1, <2>3
    <3>2. g[i + 1] = from[i + 1] /\ g[i + 2] = from[i + 2]
      BY <1>11, <3>1
    <3> QED BY <1>2, <1>9, <2>3, <3>2
  <2> QED BY <2>2, <2>3
<1> HIDE DEF Same
<1>12. n \in Same
  BY <1>0, <1>10, <1>11, InductionOnSet
<1>13. 2 \in 2 .. n + 2 /\ 2 >= n + 2 - n
  BY <1>0
<1> QED BY <1>7, <1>12, <1>13 DEF Same

\* The last source of these places.
Says(source, places, tokens) ==
  IF places = {} THEN source = <<>>
  ELSE \E k \in places : (\A j \in places : j <= k) /\ source = <<tokens[k].name>>

\* A word moves from the front of the rest to the end of the words before it.
LEMMA Regrouped ==
  ASSUME NEW S, NEW a \in Seq(S), NEW e \in S, NEW b \in Seq(S)
  PROVE  a \o (<<e>> \o b) = Append(a, e) \o b
<1>1. <<e>> \in Seq(S) /\ a \o <<e>> = Append(a, e)
  BY Concatenated
<1>2. (a \o <<e>>) \o b = a \o (<<e>> \o b)
  BY <1>1, ConcatAssociative
<1> QED BY <1>1, <1>2

\* What the parse has from word i on is what the words from there on tell.
Agrees(from, upto, tokens, i) ==
  LET n == Len(tokens)
  IN  /\ upto[IF i <= n THEN i - 1 ELSE n] \o from[i].arguments = upto[n]
      /\ Says(from[i].source, {k \in TellingSources(tokens) : k >= i}, tokens)

\* One word further to the front.
LEMMA ReadOn ==
  ASSUME NEW tokens \in Seq(Token), NEW from, Reads(from, tokens), NEW upto, Chains(upto, tokens),
         NEW i \in 2 .. Len(tokens), ~OutputName(tokens)[i],
         (i + 1 <= Len(tokens) /\ OutputName(tokens)[i + 1]) \/ Agrees(from, upto, tokens, i + 1),
         (i + 2 <= Len(tokens) /\ OutputName(tokens)[i + 2]) \/ Agrees(from, upto, tokens, i + 2)
  PROVE  Agrees(from, upto, tokens, i)
<1> DEFINE n == Len(tokens)
           Behind(k) == {j \in TellingSources(tokens) : j >= k}
<1>0. /\ n \in Nat /\ i \in 1 .. n /\ i - 1 \in 0 .. n /\ i \in 0 .. n /\ i \in DOMAIN tokens
      /\ tokens[i] \in Token
  OBVIOUS
<1>1. /\ from[i] = Read(tokens, i, from[i + 1], from[i + 2])
      /\ from[i + 1] \in Reading /\ from[i + 2] \in Reading
  <2>1. i \in 2 .. n + 2 /\ i + 1 \in 2 .. n + 2 /\ i + 2 \in 2 .. n + 2 /\ ~(i > n)
    BY <1>0
  <2> QED BY <2>1 DEF Reads
<1>2. i + 1 <= n => (OutputName(tokens)[i + 1] <=> tokens[i].kind = "-o")
  <2>1. i + 1 <= n => i + 1 \in 0 .. n /\ (i + 1) - 1 = i /\ i + 1 > 1
    BY <1>0
  <2> QED BY <2>1, NamesOutput DEF Names
<1>3. i + 2 <= n /\ tokens[i].kind = "-o" => ~OutputName(tokens)[i + 2]
  <2>1. i + 2 <= n => i + 2 \in 0 .. n /\ (i + 2) - 1 = i + 1 /\ i + 1 <= n
    BY <1>0
  <2> QED BY <1>2, <2>1, NamesOutput DEF Names
<1>4. /\ i \in Telling(tokens) <=> tokens[i].kind \notin {"-o", "-ofile", "link"}
      /\ upto[i] = IF i \in Telling(tokens) THEN Append(upto[i - 1], tokens[i]) ELSE upto[i - 1]
      /\ upto[i] \in Seq(Token) /\ upto[i - 1] \in Seq(Token)
  <2>1. i # 1
    BY <1>0
  <2>2. i \in Telling(tokens) <=> tokens[i].kind \notin {"-o", "-ofile", "link"}
    BY <1>0, <2>1 DEF Telling
  <2> QED BY <1>0, <2>2 DEF Chains
<1>5. \A k \in TellingSources(tokens) : k \in 1 .. n /\ k \in Telling(tokens)
  BY DEF TellingSources, Telling
<1>6. CASE tokens[i].kind = "-o"
  <2>1. Agrees(from, upto, tokens, i + 2)
    BY <1>3, <1>6
  <2>2. from[i] = from[i + 2]
    BY <1>1, <1>6 DEF Read
  <2>3. upto[IF i + 2 <= n THEN (i + 2) - 1 ELSE n] = upto[i - 1]
    <3>1. upto[i] = upto[i - 1]
      BY <1>4, <1>6
    <3>2. CASE i = n
      BY <1>0, <3>1, <3>2
    <3>3. CASE i # n
      <4>1. i + 1 <= n /\ i + 1 \in 1 .. n /\ (i + 1) - 1 = i /\ i + 1 # 1
        BY <1>0, <3>3
      <4>2. i + 1 \notin Telling(tokens)
        BY <1>2, <1>6, <4>1 DEF Telling
      <4>3. upto[i + 1] = upto[i]
        BY <4>1, <4>2 DEF Chains
      <4>4. (IF i + 2 <= n THEN (i + 2) - 1 ELSE n) = i + 1
        BY <1>0, <4>1
      <4> QED BY <3>1, <4>3, <4>4
    <3> QED BY <3>2, <3>3
  <2>4. Behind(i) = Behind(i + 2)
    <3>1. i \notin Telling(tokens)
      BY <1>4, <1>6
    <3>2. i + 1 \notin Telling(tokens)
      <4>1. SUFFICES ASSUME i + 1 \in DOMAIN tokens PROVE i + 1 \notin Telling(tokens)
        BY DEF Telling
      <4>2. i + 1 <= n /\ i + 1 # 1
        BY <1>0, <4>1
      <4> QED BY <1>2, <1>6, <4>2 DEF Telling
    <3>3. \A k \in TellingSources(tokens) : k \in Int /\ k # i /\ k # i + 1
      BY <1>5, <3>1, <3>2
    <3>4. \A k \in Int : k # i /\ k # i + 1 => (k >= i <=> k >= i + 2)
      BY <1>0
    <3> QED BY <3>3, <3>4
  <2>5. i <= n
    BY <1>0
  <2> QED BY <2>1, <2>2, <2>3, <2>4, <2>5 DEF Agrees
<1>7. CASE tokens[i].kind # "-o"
  <2>1. Agrees(from, upto, tokens, i + 1)
    BY <1>2, <1>7
  <2>2. (IF i + 1 <= n THEN (i + 1) - 1 ELSE n) = i /\ i <= n
    BY <1>0
  <2>3. /\ upto[i] \o from[i + 1].arguments = upto[n]
        /\ Says(from[i + 1].source, Behind(i + 1), tokens)
    <3> HIDE DEF n
    <3> QED BY <2>1, <2>2 DEF Agrees, n
  <2>4. CASE tokens[i].kind \in {"-ofile", "link"}
    <3>1. from[i] = from[i + 1]
      BY <1>1, <2>4 DEF Read
    <3>2. upto[i] = upto[i - 1] /\ i \notin Telling(tokens)
      BY <1>4, <2>4
    <3>3. Behind(i) = Behind(i + 1)
      <4>1. \A k \in TellingSources(tokens) : k \in Int /\ k # i
        BY <1>5, <3>2
      <4>2. \A k \in Int : k # i => (k >= i <=> k >= i + 1)
        BY <1>0
      <4> QED BY <4>1, <4>2
    <3> QED BY <2>2, <2>3, <3>1, <3>2, <3>3 DEF Agrees
  <2>5. CASE tokens[i].kind \notin {"-ofile", "link"}
    <3>1. /\ from[i].source = IF tokens[i].kind = "source" /\ from[i + 1].source = <<>>
                              THEN <<tokens[i].name>> ELSE from[i + 1].source
          /\ from[i].arguments = <<tokens[i]>> \o from[i + 1].arguments
      BY <1>1, <1>7, <2>5 DEF Read
    <3>2. upto[i] = Append(upto[i - 1], tokens[i]) /\ i \in Telling(tokens)
      BY <1>4, <1>7, <2>5
    <3>3. upto[i - 1] \o from[i].arguments = upto[n]
      <4>1. from[i + 1].arguments \in Seq(Token)
        BY <1>1 DEF Reading
      <4>2. upto[i - 1] \o (<<tokens[i]>> \o from[i + 1].arguments) = upto[i] \o from[i + 1].arguments
        <5>1. PICK a, e, b : a = upto[i - 1] /\ e = tokens[i] /\ b = from[i + 1].arguments
          OBVIOUS
        <5>2. a \in Seq(Token) /\ e \in Token /\ b \in Seq(Token)
          BY <1>0, <1>4, <4>1, <5>1
        <5>3. a \o (<<e>> \o b) = Append(a, e) \o b
          BY <5>2, Regrouped
        <5> QED BY <3>2, <5>1, <5>3
      <4> QED BY <2>3, <3>1, <4>2
    <3>4. Says(from[i].source, Behind(i), tokens)
      <4>1. \A k \in Int : k >= i <=> k = i \/ k >= i + 1
        BY <1>0
      <4>2. \A k \in Behind(i + 1) : k \in Int /\ k >= i + 1 /\ i <= k /\ k >= i
        BY <1>0, <1>5
      <4>3. CASE tokens[i].kind # "source"
        <5>1. \A k \in TellingSources(tokens) : k \in Int /\ k # i
          BY <1>5, <4>3 DEF TellingSources
        <5>2. Behind(i) = Behind(i + 1)
          BY <4>1, <5>1
        <5> QED BY <2>3, <3>1, <4>3, <5>2
      <4>4. CASE tokens[i].kind = "source"
        <5>1. i \in TellingSources(tokens) /\ i >= i
          BY <1>0, <3>2, <4>4 DEF TellingSources
        <5>2. Behind(i) = Behind(i + 1) \cup {i}
          <6>1. \A k \in TellingSources(tokens) : k >= i <=> k = i \/ k >= i + 1
            BY <1>5, <4>1
          <6> QED BY <5>1, <6>1
        <5>3. CASE Behind(i + 1) = {}
          <6>1. from[i].source = <<tokens[i].name>>
            BY <2>3, <3>1, <4>4, <5>3 DEF Says
          <6>2. i \in Behind(i) /\ \A k \in Behind(i) : k <= i
            BY <1>0, <5>2, <5>3
          <6> QED BY <6>1, <6>2 DEF Says
        <5>4. CASE Behind(i + 1) # {}
          <6>1. PICK k \in Behind(i + 1) : (\A j \in Behind(i + 1) : j <= k)
                                           /\ from[i + 1].source = <<tokens[k].name>>
            BY <2>3, <5>4 DEF Says
          <6>2. from[i].source = <<tokens[k].name>>
            BY <3>1, <6>1
          <6>3. k \in Behind(i) /\ \A j \in Behind(i) : j <= k
            BY <4>2, <5>2, <6>1
          <6> HIDE DEF Behind
          <6> QED BY <6>2, <6>3 DEF Says
        <5> QED BY <5>3, <5>4
      <4> QED BY <4>3, <4>4
    <3> QED BY <2>2, <3>3, <3>4 DEF Agrees
  <2> QED BY <2>4, <2>5
<1> QED BY <1>6, <1>7

\* The script reads a compiler's line as it is meant.
LEMMA ParseAgrees ==
  ASSUME NEW tokens \in Seq(Token), tokens # <<>>, tokens[1].kind = "compiler"
  PROVE  /\ <<tokens[1]>> \o Parsed(tokens).arguments = Words(tokens)
         /\ Says(Parsed(tokens).source, TellingSources(tokens), tokens)
         /\ Words(tokens) \in Seq(Token)
<1> DEFINE n == Len(tokens)
<1>0. n \in Nat /\ n >= 1 /\ tokens[1] \in Token
  OBVIOUS
<1>1. PICK from : Reads(from, tokens)
  BY ReadsBehind
<1>2. PICK upto : Chains(upto, tokens) /\ Words(tokens) = upto[n]
  BY WordsChain
<1> DEFINE Open(i) == i <= n /\ OutputName(tokens)[i]
           Done == {j \in Nat : \A i \in 2 .. n + 2 : i >= n + 2 - j => Open(i) \/ Agrees(from, upto, tokens, i)}
<1>3. ASSUME NEW i \in 2 .. n + 2, i > n PROVE Agrees(from, upto, tokens, i)
  <2>1. from[i] = Nothing
    BY <1>1, <1>3 DEF Reads
  <2>2. upto[n] \o <<>> = upto[n]
    <3>1. upto[n] \in Seq(Token)
      BY <1>0, <1>2 DEF Chains
    <3> QED BY <3>1
  <2>3. {k \in TellingSources(tokens) : k >= i} = {}
    <3>1. \A k \in TellingSources(tokens) : k \in 1 .. n
      BY DEF TellingSources, Telling
    <3> QED BY <1>0, <1>3, <3>1
  <2>4. ~(i <= n)
    BY <1>0, <1>3
  <2> QED BY <2>1, <2>2, <2>3, <2>4 DEF Agrees, Says, Nothing
<1>4. 0 \in Done
  <2>1. \A i \in 2 .. n + 2 : i >= n + 2 - 0 => i > n
    BY <1>0
  <2> QED BY <1>3, <2>1
<1>5. ASSUME NEW j \in Nat, j \in Done PROVE j + 1 \in Done
  <2>1. SUFFICES ASSUME NEW i \in 2 .. n + 2, i >= n + 2 - (j + 1), ~Open(i)
                 PROVE  Agrees(from, upto, tokens, i)
    OBVIOUS
  <2>2. CASE i > n
    BY <1>3, <2>2
  <2>3. CASE ~(i > n)
    <3>1. /\ i \in 2 .. Len(tokens) /\ i <= n
          /\ i + 1 \in 2 .. n + 2 /\ i + 1 >= n + 2 - j
          /\ i + 2 \in 2 .. n + 2 /\ i + 2 >= n + 2 - j
      BY <1>0, <2>1, <2>3
    <3>2. /\ Open(i + 1) \/ Agrees(from, upto, tokens, i + 1)
          /\ Open(i + 2) \/ Agrees(from, upto, tokens, i + 2)
      BY <1>5, <3>1
    <3> QED BY <1>1, <1>2, <2>1, <3>1, <3>2, ReadOn
  <2> QED BY <2>2, <2>3
<1> HIDE DEF Done
<1>6. n \in Done
  BY <1>0, <1>4, <1>5, InductionOnSet
<1>7. Agrees(from, upto, tokens, 2)
  <2>1. 2 \in 2 .. n + 2 /\ 2 >= n + 2 - n
    BY <1>0
  <2>2. ~Open(2)
    <3>1. 2 <= n => 2 \in 0 .. n /\ tokens[2 - 1].kind # "-o"
      BY <1>0
    <3> QED BY <3>1, NamesOutput DEF Names
  <2> QED BY <1>6, <2>1, <2>2 DEF Done
<1>8. Parsed(tokens) = from[2]
  BY <1>1, ParsedReads
<1>9. upto[IF 2 <= n THEN 2 - 1 ELSE n] = <<tokens[1]>>
  <2>1. (IF 2 <= n THEN 2 - 1 ELSE n) = 1
    <3>1. PICK m \in Nat : m = n /\ m >= 1
      BY <1>0
    <3>2. (IF 2 <= m THEN 2 - 1 ELSE m) = 1
      BY <3>1
    <3> QED BY <3>1, <3>2
  <2>2. 1 \in Telling(tokens) /\ 1 \in 1 .. n /\ 1 - 1 = 0
    BY <1>0 DEF Telling
  <2>3. upto[1] = Append(upto[0], tokens[1]) /\ upto[0] = <<>>
    BY <1>2, <2>2 DEF Chains
  <2>4. Append(<<>>, tokens[1]) = <<tokens[1]>>
    OBVIOUS
  <2> QED BY <2>1, <2>3, <2>4
<1>10. {k \in TellingSources(tokens) : k >= 2} = TellingSources(tokens)
  <2>1. \A k \in TellingSources(tokens) : k \in 1 .. n /\ k # 1
    BY DEF TellingSources, Telling
  <2>2. \A k \in 1 .. n : k # 1 => k >= 2
    OBVIOUS
  <2> QED BY <2>1, <2>2
<1>11. upto[n] \in Seq(Token)
  BY <1>0, <1>2 DEF Chains
<1> QED BY <1>2, <1>7, <1>8, <1>9, <1>10, <1>11 DEF Agrees

\* parse_command drops exactly what names the output or is for the linker, however -o and
\* its names follow each other, and takes the last source it keeps.
THEOREM ParsesAsMeant ==
  ASSUME NEW tokens \in Seq(Token), NEW d \in Dir
  PROVE  /\ parse_command(d, tokens) = IF Compiles(tokens) THEN <<Meant(d, tokens)>> ELSE <<>>
         /\ Compiles(tokens) => Meant(d, tokens) \in EntryType
<1>1. CASE tokens = <<>> \/ tokens[1].kind # "compiler"
  BY <1>1 DEF parse_command, Compiles
<1>2. CASE tokens # <<>> /\ tokens[1].kind = "compiler"
  <2>1. /\ <<tokens[1]>> \o Parsed(tokens).arguments = Words(tokens)
        /\ Says(Parsed(tokens).source, TellingSources(tokens), tokens)
        /\ Words(tokens) \in Seq(Token)
    BY <1>2, ParseAgrees
  <2>2. CASE TellingSources(tokens) = {}
    BY <2>1, <2>2 DEF Says, parse_command, Compiles
  <2>3. CASE TellingSources(tokens) # {}
    <3>1. PICK k \in TellingSources(tokens) :
            (\A j \in TellingSources(tokens) : j <= k) /\ Parsed(tokens).source = <<tokens[k].name>>
      BY <2>1, <2>3 DEF Says
    <3>2. TellingSources(tokens) \subseteq 1 .. Len(tokens) /\ Len(tokens) \in Nat
      BY DEF TellingSources, Telling
    <3>3. \A x, y \in TellingSources(tokens) : x >= y /\ y >= x => x = y
      BY <3>2
    <3>4. \A j \in TellingSources(tokens) : k >= j
      BY <3>1, <3>2
    <3>5. Max(TellingSources(tokens)) = k
      BY <3>3, <3>4 DEF Max
    <3>6. tokens[k].name \in STRING
      <4>1. k \in 1 .. Len(tokens)
        BY <3>2
      <4>2. tokens[k] \in Token
        BY <4>1
      <4> QED BY <4>2 DEF Token
    <3>7. Parsed(tokens).source # <<>> /\ Parsed(tokens).source[1] = tokens[k].name
      BY <3>1
    <3>8. parse_command(d, tokens) = <<Meant(d, tokens)>> /\ Compiles(tokens)
      BY <1>2, <2>1, <2>3, <3>5, <3>7 DEF parse_command, Compiles, Meant
    <3>9. Meant(d, tokens) \in EntryType
      BY <2>1, <3>5, <3>6 DEF Meant, EntryType
    <3> QED BY <3>8, <3>9
  <2> QED BY <2>2, <2>3
<1> QED BY <1>1, <1>2

-----------------------------------------------------------------------------
(* The lines of a Makefile and the entries they yield *)

\* Versions and health of the Makefiles.
WorldTyped == version \in [Dir -> 0 .. EDITS] /\ health \in [Dir -> {"fine", "broken", "hangs"}]

\* What the lines of a version of a Makefile yield.
LEMMA FoundLines ==
  ASSUME NEW d \in Dir, NEW v \in 0 .. EDITS
  PROVE  /\ Found[d][v] \in Seq(Seq(EntryType))
         /\ Len(Found[d][v]) \in Nat /\ DOMAIN Printed[d][v] = 1 .. Len(Found[d][v])
         /\ \A i \in 1 .. Len(Found[d][v]) :
              /\ Found[d][v][i] = IF Compiles(Printed[d][v][i]) THEN <<Meant(d, Printed[d][v][i])>> ELSE <<>>
              /\ Compiles(Printed[d][v][i]) => Meant(d, Printed[d][v][i]) \in EntryType
<1>1. PICK lines : lines = Printed[d][v] /\ lines \in Seq(Seq(Token))
  BY DatabaseAssumption
<1>2. Len(lines) \in Nat /\ DOMAIN lines = 1 .. Len(lines) /\ \A i \in 1 .. Len(lines) : lines[i] \in Seq(Token)
  BY <1>1
<1>3. ASSUME NEW i \in 1 .. Len(lines)
      PROVE  /\ parse_command(d, lines[i]) = IF Compiles(lines[i]) THEN <<Meant(d, lines[i])>> ELSE <<>>
             /\ Compiles(lines[i]) => Meant(d, lines[i]) \in EntryType
  BY <1>2, ParsesAsMeant
<1>4. Found[d][v] = [i \in 1 .. Len(lines) |-> parse_command(d, lines[i])]
  BY <1>1, <1>2 DEF Found
<1>5. \A i \in 1 .. Len(lines) : parse_command(d, lines[i]) \in Seq(EntryType)
  <2>1. <<>> \in Seq(EntryType) /\ \A e \in EntryType : <<e>> \in Seq(EntryType)
    OBVIOUS
  <2>2. ASSUME NEW i \in 1 .. Len(lines) PROVE parse_command(d, lines[i]) \in Seq(EntryType)
    <3>1. CASE Compiles(lines[i])
      BY <1>3, <2>1, <3>1
    <3>2. CASE ~Compiles(lines[i])
      BY <1>3, <2>1, <3>2
    <3> QED BY <3>1, <3>2
  <2> QED BY <2>2
<1>6. Found[d][v] \in Seq(Seq(EntryType)) /\ Len(Found[d][v]) = Len(lines)
  <2>1. PICK found : found = [i \in 1 .. Len(lines) |-> parse_command(d, lines[i])]
    OBVIOUS
  <2>2. found \in [1 .. Len(lines) -> Seq(EntryType)]
    BY <1>5, <2>1
  <2>3. found \in Seq(Seq(EntryType)) /\ Len(found) = Len(lines)
    BY <1>2, <2>2
  <2> QED BY <1>4, <2>1, <2>3
<1> QED BY <1>1, <1>2, <1>3, <1>4, <1>6

\* The commands are the lines that yield something, and that is their entry.
LEMMA CommandLines ==
  ASSUME WorldTyped, NEW d \in Dir, health[d] = "fine", NEW i \in Nat
  PROVE  <<d, i>> \in Commands
           <=> i \in 1 .. Len(Found[d][version[d]]) /\ Found[d][version[d]][i] # <<>>
<1>1. PICK v \in 0 .. EDITS : v = version[d]
  BY DEF WorldTyped
<1>2. PICK lines, found : lines = Printed[d][v] /\ found = Found[d][v]
  OBVIOUS
<1>3. /\ DOMAIN lines = 1 .. Len(found)
      /\ \A j \in 1 .. Len(found) : found[j] = IF Compiles(lines[j]) THEN <<Meant(d, lines[j])>> ELSE <<>>
  BY <1>2, FoundLines
<1>4. <<d, i>> \in Lines <=> i \in 1 .. Len(found)
  <2>1. ASSUME NEW e \in Dir, health[e] = "fine"
        PROVE  <<d, i>> \in {e} \X DOMAIN Printed[e][version[e]] <=> e = d /\ i \in DOMAIN Printed[e][version[e]]
    OBVIOUS
  <2> QED BY <1>1, <1>2, <1>3, <2>1 DEF Lines
<1>5. Line(<<d, i>>) = lines[i]
  BY <1>1, <1>2 DEF Line
<1>6. i \in 1 .. Len(found) => (Compiles(lines[i]) <=> found[i] # <<>>)
  <2>1. ASSUME i \in 1 .. Len(found), Compiles(lines[i]) PROVE found[i] # <<>>
    <3>1. found[i] = <<Meant(d, lines[i])>>
      BY <1>3, <2>1
    <3> QED BY <3>1
  <2>2. ASSUME i \in 1 .. Len(found), ~Compiles(lines[i]) PROVE found[i] = <<>>
    BY <1>3, <2>2
  <2> QED BY <2>1, <2>2
<1> QED BY <1>1, <1>2, <1>4, <1>5, <1>6 DEF Commands

\* What is known of the place of a command, and of its entry.
LEMMA CommandEntry ==
  ASSUME WorldTyped, NEW at \in Commands
  PROVE  /\ at[1] \in Dir /\ at[2] \in Nat \ {0} /\ at = <<at[1], at[2]>> /\ health[at[1]] = "fine"
         /\ at[1] \in Int
         /\ EntryOf(at) \in EntryType /\ FileOf(at) = EntryOf(at).file
         /\ Found[at[1]][version[at[1]]][at[2]] = <<EntryOf(at)>>
         /\ at[2] <= Len(Found[at[1]][version[at[1]]])
<1>1. PICK d \in Dir : health[d] = "fine" /\ at \in {d} \X DOMAIN Printed[d][version[d]]
  BY DEF Commands, Lines
<1>2. PICK v \in 0 .. EDITS : v = version[d]
  BY DEF WorldTyped
<1>3. PICK lines, found : lines = Printed[d][v] /\ found = Found[d][v]
  OBVIOUS
<1>4. /\ DOMAIN lines = 1 .. Len(found) /\ Len(found) \in Nat
      /\ \A j \in 1 .. Len(found) :
           /\ found[j] = IF Compiles(lines[j]) THEN <<Meant(d, lines[j])>> ELSE <<>>
           /\ Compiles(lines[j]) => Meant(d, lines[j]) \in EntryType
  BY <1>3, FoundLines
<1>5. at[1] = d /\ at[2] \in 1 .. Len(found) /\ at = <<at[1], at[2]>>
  BY <1>1, <1>2, <1>3, <1>4
<1>6. Compiles(lines[at[2]]) /\ EntryOf(at) = Meant(d, lines[at[2]])
  BY <1>2, <1>3, <1>5 DEF Commands, Line, EntryOf
<1>7. found[at[2]] = <<EntryOf(at)>> /\ EntryOf(at) \in EntryType
  BY <1>4, <1>5, <1>6
<1>8. at[1] \in Int
  <2>1. PICK n : n = Cardinality(Dir) /\ n \in Nat
    BY DatabaseAssumption, FS_CardinalityType
  <2>2. Dir = 1 .. n
    BY <2>1, DatabaseAssumption
  <2> QED BY <1>5, <2>1, <2>2
<1> QED BY <1>1, <1>2, <1>3, <1>4, <1>5, <1>7, <1>8 DEF FileOf

-----------------------------------------------------------------------------
(* The list of the first commands *)

\* es has what the directories before d and the first i lines of d yield.
Reached(at, d, i) == at[1] < d \/ (at[1] = d /\ at[2] <= i)
Upto(d, i) == {at \in FirstCommands : Reached(at, d, i)}
Gathered(es, d, i) ==
  /\ es \in Seq(EntryType) /\ Lists(es, Upto(d, i))
  /\ \A at \in Commands : Reached(at, d, i) => \E k \in DOMAIN es : es[k].file = FileOf(at)

\* Commands come one after the other.
LEMMA InOrder ==
  ASSUME WorldTyped, NEW a \in Commands, NEW b \in Commands
  PROVE  /\ a = b \/ EarlierThan(a, b) \/ EarlierThan(b, a)
         /\ ~EarlierThan(a, a) /\ ~(EarlierThan(a, b) /\ EarlierThan(b, a))
<1>1. /\ a[1] \in Int /\ a[2] \in Nat /\ a = <<a[1], a[2]>>
      /\ b[1] \in Int /\ b[2] \in Nat /\ b = <<b[1], b[2]>>
  BY CommandEntry
<1>2. PICK a1, a2, b1, b2 : a1 = a[1] /\ a2 = a[2] /\ b1 = b[1] /\ b2 = b[2]
  OBVIOUS
<1>3. a1 \in Int /\ a2 \in Nat /\ b1 \in Int /\ b2 \in Nat
  BY <1>1, <1>2
<1>4. (a1 = b1 /\ a2 = b2) \/ (a1 < b1 \/ (a1 = b1 /\ a2 < b2)) \/ (b1 < a1 \/ (b1 = a1 /\ b2 < a2))
  BY <1>3
<1>5. /\ ~(a1 < a1 \/ (a1 = a1 /\ a2 < a2))
      /\ ~((a1 < b1 \/ (a1 = b1 /\ a2 < b2)) /\ (b1 < a1 \/ (b1 = a1 /\ b2 < a2)))
  BY <1>3
<1> QED BY <1>1, <1>2, <1>4, <1>5 DEF EarlierThan

\* Two lists of the same first commands do not differ: no entry repeats, and each stands
\* where the order puts it.
LEMMA ListedOnce ==
  ASSUME WorldTyped, NEW es \in Seq(EntryType), Lists(es, FirstCommands),
         NEW i \in DOMAIN es, NEW j \in DOMAIN es, es[i] = es[j]
  PROVE  i = j
<1>1. i \in Nat /\ j \in Nat
  OBVIOUS
<1>2. PICK at \in FirstCommands : es[i] = EntryOf(at)
  BY DEF Lists
<1>3. at \in Commands
  BY DEF FirstCommands
<1>4. ~EarlierThan(at, at)
  BY <1>3, InOrder
<1>5. ~(i < j) /\ ~(j < i)
  BY <1>2, <1>4 DEF Lists
<1> QED BY <1>1, <1>5

\* Of two lists neither is longer, and each has at any place what the other has there.
LEMMA OneList ==
  ASSUME WorldTyped, NEW es \in Seq(EntryType), Lists(es, FirstCommands),
         NEW fs \in Seq(EntryType), Lists(fs, FirstCommands)
  PROVE  Len(es) <= Len(fs) /\ \A i \in 1 .. Len(es) : es[i] = fs[i]
<1>0. /\ Len(es) \in Nat /\ DOMAIN es = 1 .. Len(es)
      /\ Len(fs) \in Nat /\ DOMAIN fs = 1 .. Len(fs)
  OBVIOUS
<1> DEFINE Same(i) == i \in DOMAIN es => i \in DOMAIN fs /\ es[i] = fs[i]
           Done == {n \in Nat : \A i \in 1 .. n : Same(i)}
<1>1. 0 \in Done
  OBVIOUS
<1>2. ASSUME NEW n \in Nat, n \in Done PROVE n + 1 \in Done
  <2>1. SUFFICES ASSUME n + 1 \in DOMAIN es PROVE n + 1 \in DOMAIN fs /\ es[n + 1] = fs[n + 1]
    <3>1. \A i \in 1 .. n + 1 : i \in 1 .. n \/ i = n + 1
      OBVIOUS
    <3> QED BY <1>2, <3>1
  <2>2. PICK m \in Nat : m = n + 1
    OBVIOUS
  <2>3. PICK a \in FirstCommands : es[m] = EntryOf(a)
    BY <2>1, <2>2 DEF Lists
  <2>4. PICK j \in DOMAIN fs : fs[j] = EntryOf(a)
    BY DEF Lists
  <2>5. \A i \in 1 .. n : i \in DOMAIN fs /\ es[i] = fs[i] /\ i \in DOMAIN es /\ i < m
    BY <1>0, <1>2, <2>1, <2>2
  <2>6. j >= m
    <3> SUFFICES ASSUME j < m PROVE FALSE
      BY <1>0, <2>2
    <3>1. j \in 1 .. n
      BY <1>0, <2>2
    <3>2. es[j] = es[m] /\ j \in DOMAIN es /\ m \in DOMAIN es
      BY <2>1, <2>2, <2>3, <2>4, <2>5, <3>1
    <3>3. j = m
      BY <3>2, ListedOnce
    <3> QED BY <2>5, <3>1, <3>3
  <2>7. m \in DOMAIN fs
    BY <1>0, <2>2, <2>6
  <2>8. PICK b \in FirstCommands : fs[m] = EntryOf(b)
    BY <2>7 DEF Lists
  <2>9. PICK k \in DOMAIN es : es[k] = EntryOf(b)
    BY DEF Lists
  <2>10. k >= m
    <3> SUFFICES ASSUME k < m PROVE FALSE
      BY <1>0, <2>2
    <3>1. k \in 1 .. n
      BY <1>0, <2>2
    <3>2. fs[k] = fs[m] /\ k \in DOMAIN fs
      BY <2>5, <2>8, <2>9, <3>1
    <3>3. k = m
      BY <2>7, <3>2, ListedOnce
    <3> QED BY <2>5, <3>1, <3>3
  <2>11. CASE k = m
    BY <2>2, <2>3, <2>7, <2>8, <2>9, <2>11
  <2>12. CASE j = m
    BY <2>2, <2>3, <2>4, <2>7, <2>12
  <2>13. CASE k # m /\ j # m
    <3>1. m < k /\ m < j
      BY <1>0, <2>2, <2>6, <2>10, <2>13
    <3>2. EarlierThan(a, b)
      BY <2>1, <2>2, <2>3, <2>9, <3>1 DEF Lists
    <3>3. EarlierThan(b, a)
      BY <2>4, <2>7, <2>8, <3>1 DEF Lists
    <3>4. a \in Commands /\ b \in Commands
      BY DEF FirstCommands
    <3> QED BY <3>2, <3>3, <3>4, InOrder
  <2> QED BY <2>11, <2>12, <2>13
<1> HIDE DEF Done
<1>3. Len(es) \in Done
  BY <1>0, <1>1, <1>2, InductionOnSet
<1>4. \A i \in 1 .. Len(es) : i \in DOMAIN fs /\ es[i] = fs[i]
  BY <1>0, <1>3 DEF Done
<1>5. Len(es) <= Len(fs)
  <2>1. Len(es) = 0 \/ Len(es) \in 1 .. Len(es)
    BY <1>0
  <2> QED BY <1>0, <1>4, <2>1
<1> QED BY <1>4, <1>5

\* There is one list of first commands.
LEMMA SameList ==
  ASSUME WorldTyped, NEW es \in Seq(EntryType), Lists(es, FirstCommands),
         NEW fs \in Seq(EntryType), Lists(fs, FirstCommands)
  PROVE  es = fs
<1>1. Len(es) = Len(fs)
  <2>1. Len(es) <= Len(fs) /\ Len(fs) <= Len(es)
    BY OneList
  <2>2. Len(es) \in Nat /\ Len(fs) \in Nat
    OBVIOUS
  <2> QED BY <2>1, <2>2
<1>2. \A i \in 1 .. Len(es) : es[i] = fs[i]
  BY OneList
<1> QED BY <1>1, <1>2, SeqEqual

-----------------------------------------------------------------------------
(* What a script has gathered *)

\* One line of directory d: it is fresh just if it is a first command.
LEMMA FreshIsFirst ==
  ASSUME WorldTyped, NEW d \in Dir, health[d] = "fine",
         NEW i \in 1 .. Len(Found[d][version[d]]), NEW es, Gathered(es, d, i - 1)
  PROVE  Fresh(es, Found[d][version[d]][i]) <=> <<d, i>> \in FirstCommands
<1> DEFINE yield == Found[d][version[d]][i]
<1>0. PICK at : at = <<d, i>>
  OBVIOUS
<1>1. i \in Nat /\ (at \in Commands <=> yield # <<>>)
  <2>1. Len(Found[d][version[d]]) \in Nat
    BY FoundLines DEF WorldTyped
  <2>2. i \in Nat
    BY <2>1
  <2> QED BY <1>0, <2>2, CommandLines
<1>2. at \in Commands => yield = <<EntryOf(at)>> /\ FileOf(at) = EntryOf(at).file
  <2>1. at[1] = d /\ at[2] = i
    BY <1>0
  <2> QED BY <2>1, CommandEntry
<1>3. at[1] = d /\ at[2] = i
  BY <1>0
<1> HIDE DEF yield
<1>4. ASSUME NEW b \in Commands PROVE Reached(b, d, i - 1) <=> EarlierThan(b, at)
  <2>1. b[2] \in Nat
    BY CommandEntry
  <2>2. b[2] <= i - 1 <=> b[2] < i
    BY <1>1, <2>1
  <2> QED BY <1>3, <2>2 DEF Reached, EarlierThan
<1>5. ASSUME Fresh(es, yield) PROVE at \in FirstCommands
  <2>1. at \in Commands /\ yield[1].file = FileOf(at)
    BY <1>1, <1>2, <1>5 DEF Fresh
  <2>2. ASSUME NEW b \in Commands, EarlierThan(b, at), FileOf(b) = FileOf(at) PROVE FALSE
    <3>1. PICK k \in DOMAIN es : es[k].file = FileOf(b)
      BY <1>4, <2>2 DEF Gathered
    <3> QED BY <1>5, <2>1, <2>2, <3>1 DEF Fresh
  <2> QED BY <2>1, <2>2 DEF FirstCommands
<1>6. ASSUME at \in FirstCommands PROVE Fresh(es, yield)
  <2>1. at \in Commands /\ \A b \in Commands : EarlierThan(b, at) => FileOf(b) # FileOf(at)
    BY <1>6 DEF FirstCommands
  <2>2. yield # <<>> /\ yield[1].file = FileOf(at)
    BY <1>1, <1>2, <2>1
  <2>3. ASSUME NEW k \in DOMAIN es PROVE es[k].file # yield[1].file
    <3>1. PICK c \in Upto(d, i - 1) : es[k] = EntryOf(c)
      BY DEF Gathered, Lists
    <3>2. c \in Commands /\ Reached(c, d, i - 1)
      BY DEF Upto, FirstCommands
    <3>3. es[k].file = FileOf(c) /\ EarlierThan(c, at)
      BY <1>4, <3>1, <3>2, CommandEntry
    <3> QED BY <2>1, <2>2, <3>2, <3>3
  <2> QED BY <2>2, <2>3 DEF Fresh
<1> QED BY <1>0, <1>5, <1>6 DEF yield

\* A line adds what it should to what is there.
LEMMA GatherFirst ==
  ASSUME WorldTyped, NEW d \in Dir, NEW i \in Nat \ {0}, NEW es, Gathered(es, d, i - 1),
         <<d, i>> \in FirstCommands
  PROVE  Gathered(Append(es, EntryOf(<<d, i>>)), d, i)
<1> DEFINE at == <<d, i>>
           e == EntryOf(at)
           longer == Append(es, e)
<1>0. /\ at \in Commands /\ at[1] = d /\ at[2] = i /\ d \in Int
      /\ \A b \in Commands : EarlierThan(b, at) => FileOf(b) # FileOf(at)
      /\ e \in EntryType /\ FileOf(at) = e.file
  <2>1. at \in Commands /\ \A b \in Commands : EarlierThan(b, at) => FileOf(b) # FileOf(at)
    BY DEF FirstCommands
  <2>2. at[1] \in Int /\ e \in EntryType /\ FileOf(at) = e.file
    BY <2>1, CommandEntry
  <2> QED BY <2>1, <2>2
<1>1. /\ es \in Seq(EntryType) /\ longer \in Seq(EntryType)
      /\ DOMAIN es = 1 .. Len(es) /\ Len(es) \in Nat /\ DOMAIN longer = 1 .. Len(es) + 1
      /\ \A k \in DOMAIN es : longer[k] = es[k] /\ k \in DOMAIN longer
      /\ longer[Len(es) + 1] = e
  <2>1. es \in Seq(EntryType)
    BY DEF Gathered
  <2>2. longer \in Seq(EntryType) /\ Len(longer) = Len(es) + 1 /\ DOMAIN es = 1 .. Len(es) /\ Len(es) \in Nat
    BY <1>0, <2>1, Appended
  <2>3. (\A k \in 1 .. Len(es) : longer[k] = es[k]) /\ longer[Len(es) + 1] = e
    BY <1>0, <2>1, Appended
  <2>4. DOMAIN longer = 1 .. Len(longer)
    BY <2>2
  <2> QED BY <2>1, <2>2, <2>3, <2>4
<1> HIDE DEF at, e, longer
<1>2. ASSUME NEW b \in Commands PROVE Reached(b, d, i) <=> Reached(b, d, i - 1) \/ b = at
  <2>1. b[1] \in Int /\ b[2] \in Nat /\ b = <<b[1], b[2]>>
    BY CommandEntry
  <2>2. b[2] <= i <=> b[2] <= i - 1 \/ b[2] = i
    BY <2>1
  <2>3. b = at <=> b[1] = d /\ b[2] = i
    BY <2>1 DEF at
  <2>4. ~(d < d)
    BY <1>0
  <2> QED BY <2>2, <2>3, <2>4 DEF Reached
<1>3. ASSUME NEW b \in Commands, Reached(b, d, i - 1) PROVE EarlierThan(b, at)
  <2>1. b[2] \in Nat
    BY CommandEntry
  <2>2. b[2] <= i - 1 => b[2] < i
    BY <2>1
  <2> QED BY <1>0, <1>3, <2>2 DEF Reached, EarlierThan
<1>4. Upto(d, i) = Upto(d, i - 1) \cup {at}
  <2>1. \A b \in FirstCommands : b \in Commands
    BY DEF FirstCommands
  <2>2. at \in FirstCommands
    BY DEF at
  <2> QED BY <1>0, <1>2, <2>1, <2>2 DEF Upto
<1>5. \A b \in Upto(d, i - 1) : b \in Commands /\ EarlierThan(b, at) /\ EntryOf(b) # e
  <2>1. ASSUME NEW b \in Upto(d, i - 1) PROVE b \in Commands /\ EarlierThan(b, at) /\ EntryOf(b) # e
    <3>1. b \in Commands /\ Reached(b, d, i - 1)
      BY DEF Upto, FirstCommands
    <3>2. EarlierThan(b, at)
      BY <1>3, <3>1
    <3>3. FileOf(b) # FileOf(at) /\ FileOf(b) = EntryOf(b).file
      BY <1>0, <3>1, <3>2 DEF FileOf
    <3> QED BY <1>0, <3>1, <3>2, <3>3
  <2> QED BY <2>1
<1>6. Lists(longer, Upto(d, i))
  <2>1. ASSUME NEW k \in DOMAIN longer PROVE \E b \in Upto(d, i) : longer[k] = EntryOf(b)
    <3>1. CASE k = Len(es) + 1
      BY <1>1, <1>4, <3>1 DEF e
    <3>2. CASE k # Len(es) + 1
      <4>1. k \in DOMAIN es
        BY <1>1, <3>2
      <4>2. PICK b \in Upto(d, i - 1) : es[k] = EntryOf(b)
        BY <4>1 DEF Gathered, Lists
      <4> QED BY <1>1, <1>4, <4>1, <4>2
    <3> QED BY <3>1, <3>2
  <2>2. ASSUME NEW b \in Upto(d, i) PROVE \E k \in DOMAIN longer : longer[k] = EntryOf(b)
    <3>1. CASE b = at
      <4>1. Len(es) + 1 \in DOMAIN longer
        BY <1>1
      <4> QED BY <1>1, <3>1, <4>1 DEF e
    <3>2. CASE b # at
      <4>1. PICK k \in DOMAIN es : es[k] = EntryOf(b)
        BY <1>4, <3>2 DEF Gathered, Lists
      <4> QED BY <1>1, <4>1
    <3> QED BY <3>1, <3>2
  <2>3. ASSUME NEW j \in DOMAIN longer, NEW k \in DOMAIN longer, NEW a \in Upto(d, i), NEW b \in Upto(d, i),
               j < k, longer[j] = EntryOf(a), longer[k] = EntryOf(b)
        PROVE  EarlierThan(a, b)
    <3>1. j \in DOMAIN es
      BY <1>1, <2>3
    <3>2. PICK c \in Upto(d, i - 1) : es[j] = EntryOf(c)
      BY <3>1 DEF Gathered, Lists
    <3>3. a \in Upto(d, i - 1)
      <4>1. EntryOf(a) # e
        BY <1>1, <1>5, <2>3, <3>1, <3>2
      <4> QED BY <1>4, <4>1 DEF e
    <3>4. CASE b = at
      BY <1>5, <3>3, <3>4
    <3>5. CASE b # at
      <4>1. b \in Upto(d, i - 1)
        BY <1>4, <3>5
      <4>2. k \in DOMAIN es
        <5>1. longer[k] # e
          BY <1>5, <2>3, <4>1
        <5> QED BY <1>1, <5>1
      <4> QED BY <1>1, <2>3, <3>1, <3>3, <4>1, <4>2 DEF Gathered, Lists
    <3> QED BY <3>4, <3>5
  <2> QED BY <2>1, <2>2, <2>3 DEF Lists
<1>7. ASSUME NEW b \in Commands, Reached(b, d, i) PROVE \E k \in DOMAIN longer : longer[k].file = FileOf(b)
  <2>1. CASE b = at
    <3>1. Len(es) + 1 \in DOMAIN longer
      BY <1>1
    <3> QED BY <1>0, <1>1, <2>1, <3>1
  <2>2. CASE b # at
    <3>1. Reached(b, d, i - 1)
      BY <1>2, <1>7, <2>2
    <3>2. PICK k \in DOMAIN es : es[k].file = FileOf(b)
      BY <3>1 DEF Gathered
    <3> QED BY <1>1, <3>2
  <2> QED BY <2>1, <2>2
<1>8. Gathered(longer, d, i)
  BY <1>1, <1>6, <1>7 DEF Gathered
<1> QED BY <1>8 DEF at, e, longer

\* A line that is not a first command has nothing to add.
LEMMA GatherOther ==
  ASSUME WorldTyped, NEW d \in Dir, NEW i \in Nat \ {0}, NEW es, Gathered(es, d, i - 1),
         <<d, i>> \notin FirstCommands
  PROVE  Gathered(es, d, i)
<1>1. PICK at : at = <<d, i>>
  OBVIOUS
<1>2. at[1] = d /\ at[2] = i /\ d \in Int
  <2>1. PICK n : n = Cardinality(Dir) /\ n \in Nat
    BY DatabaseAssumption, FS_CardinalityType
  <2>2. Dir = 1 .. n
    BY <2>1, DatabaseAssumption
  <2> QED BY <1>1, <2>1, <2>2
<1>3. ASSUME NEW b \in Commands PROVE Reached(b, d, i) <=> Reached(b, d, i - 1) \/ b = at
  <2>1. b[1] \in Int /\ b[2] \in Nat /\ b = <<b[1], b[2]>>
    BY CommandEntry
  <2>2. b[2] <= i <=> b[2] <= i - 1 \/ b[2] = i
    BY <2>1
  <2>3. b = at <=> b[1] = d /\ b[2] = i
    BY <1>1, <2>1
  <2>4. ~(d < d)
    BY <1>2
  <2> QED BY <2>2, <2>3, <2>4 DEF Reached
<1>4. \A b \in FirstCommands : b \in Commands /\ b # at
  BY <1>1 DEF FirstCommands
<1>5. Upto(d, i) = Upto(d, i - 1)
  BY <1>3, <1>4 DEF Upto
<1>6. ASSUME at \in Commands PROVE \E k \in DOMAIN es : es[k].file = FileOf(at)
  <2>1. PICK b \in Commands : EarlierThan(b, at) /\ FileOf(b) = FileOf(at)
    BY <1>1, <1>6 DEF FirstCommands
  <2>2. b[2] \in Nat
    BY CommandEntry
  <2>3. b[2] < i => b[2] <= i - 1
    BY <2>2
  <2>4. Reached(b, d, i - 1)
    BY <1>2, <2>1, <2>3 DEF EarlierThan, Reached
  <2> QED BY <2>1, <2>4 DEF Gathered
<1>7. \A b \in Commands : Reached(b, d, i) => \E k \in DOMAIN es : es[k].file = FileOf(b)
  BY <1>3, <1>6 DEF Gathered
<1> QED BY <1>5, <1>7 DEF Gathered

\* Behind the last line of a directory comes the next one.
LEMMA DirectoryOver ==
  ASSUME WorldTyped, NEW d \in Dir, NEW es, NEW n, Gathered(es, d, n),
         IF health[d] = "fine" THEN n = Len(Found[d][version[d]]) ELSE n = 0
  PROVE  Gathered(es, d + 1, 0)
<1>1. d \in Int
  <2>1. PICK m : m = Cardinality(Dir) /\ m \in Nat
    BY DatabaseAssumption, FS_CardinalityType
  <2>2. Dir = 1 .. m
    BY <2>1, DatabaseAssumption
  <2> QED BY <2>1, <2>2
<1>2. ASSUME NEW b \in Commands PROVE Reached(b, d + 1, 0) <=> Reached(b, d, n)
  <2>1. b[1] \in Int /\ b[2] \in Nat \ {0} /\ health[b[1]] = "fine" /\ b[2] <= Len(Found[b[1]][version[b[1]]])
    BY CommandEntry
  <2>2. Reached(b, d + 1, 0) <=> b[1] < d \/ b[1] = d
    <3>1. b[1] < d + 1 <=> b[1] < d \/ b[1] = d
      BY <1>1, <2>1
    <3>2. ~(b[2] <= 0)
      BY <2>1
    <3> QED BY <3>1, <3>2 DEF Reached
  <2>3. b[1] = d => b[2] <= n
    BY <2>1
  <2> QED BY <2>2, <2>3 DEF Reached
<1>3. \A b \in FirstCommands : b \in Commands
  BY DEF FirstCommands
<1>4. Upto(d + 1, 0) = Upto(d, n)
  BY <1>2, <1>3 DEF Upto
<1> QED BY <1>2, <1>4 DEF Gathered

\* The loop over the lines of a directory.
Gathers(after, have, found) ==
  /\ after[0] = have
  /\ \A i \in 1 .. Len(found) :
       after[i] = IF Fresh(after[i - 1], found[i]) THEN after[i - 1] \o found[i] ELSE after[i - 1]

\* Collect is where that loop ends.
LEMMA CollectSteps ==
  ASSUME NEW have \in Seq(EntryType), NEW found \in Seq(Seq(EntryType))
  PROVE  \E after \in [0 .. Len(found) -> Seq(EntryType)] :
            Gathers(after, have, found) /\ Collect(have, found) = after[Len(found)]
<1> DEFINE n == Len(found)
           Fits(g) == g = [i \in 0 .. n |->
                             IF i = 0 THEN have
                             ELSE IF Fresh(g[i - 1], found[i]) THEN g[i - 1] \o found[i] ELSE g[i - 1]]
           V == Seq(EntryType)
           step == [i \in 1 .. n |-> [es \in V |-> IF Fresh(es, found[i]) THEN es \o found[i] ELSE es]]
<1>0. n \in Nat /\ \A i \in 1 .. n : found[i] \in V
  OBVIOUS
<1>1. step \in [1 .. n -> [V -> V]]
  <2>1. ASSUME NEW i \in 1 .. n, NEW es \in V PROVE (IF Fresh(es, found[i]) THEN es \o found[i] ELSE es) \in V
    <3>1. found[i] \in Seq(EntryType)
      BY <1>0
    <3>2. es \o found[i] \in Seq(EntryType)
      BY <3>1
    <3> QED BY <3>2
  <2> HIDE DEF V, n
  <2> QED BY <2>1
<1>2. \A i \in 1 .. n : \A es \in V : step[i][es] = IF Fresh(es, found[i]) THEN es \o found[i] ELSE es
  <2> HIDE DEF V, n
  <2> QED OBVIOUS
<1> HIDE DEF step
<1>3. PICK f \in [0 .. n -> V] : Computes(f, have, n, step)
  BY <1>0, <1>1, Recursion
<1>4. f[0] = have /\ \A i \in 1 .. n : f[i] = IF Fresh(f[i - 1], found[i]) THEN f[i - 1] \o found[i] ELSE f[i - 1]
  <2>1. \A i \in 1 .. n : i - 1 \in 0 .. n
    BY <1>0
  <2>2. \A i \in 1 .. n : f[i - 1] \in V
    <3> HIDE DEF V, n
    <3> QED BY <2>1
  <2> HIDE DEF V, n
  <2> QED BY <1>2, <1>3, <2>2 DEF Computes
<1>5. Fits(f)
  <2>1. f = [i \in 0 .. n |-> f[i]]
    OBVIOUS
  <2>2. \A i \in 0 .. n : i = 0 \/ i \in 1 .. n
    BY <1>0
  <2> HIDE DEF n, V
  <2> QED BY <1>4, <2>1, <2>2
<1>6. PICK g : g = CHOOSE h : Fits(h)
  OBVIOUS
<1>7. Collect(have, found) = g[n]
  BY <1>6 DEF Collect
<1>8. Fits(g)
  <2> HIDE DEF Fits
  <2> QED BY <1>5, <1>6
<1>9. g[0] = have /\ \A i \in 1 .. n : g[i] = IF Fresh(g[i - 1], found[i]) THEN g[i - 1] \o found[i] ELSE g[i - 1]
  <2>1. 0 \in 0 .. n /\ \A i \in 1 .. n : i # 0 /\ i \in 0 .. n
    BY <1>0
  <2> HIDE DEF n
  <2> QED BY <1>8, <2>1
<1>10. \E h : g = [i \in 0 .. n |-> h[i]]
  <2>1. PICK h : h = [i \in 0 .. n |->
                        IF i = 0 THEN have
                        ELSE IF Fresh(g[i - 1], found[i]) THEN g[i - 1] \o found[i] ELSE g[i - 1]]
    OBVIOUS
  <2>2. h = [i \in 0 .. n |-> h[i]]
    BY <2>1
  <2> QED BY <1>8, <2>1, <2>2
<1> HIDE DEF Fits, n, V
<1> DEFINE Typed == {i \in Nat : i <= n => g[i] = f[i]}
<1>11. 0 \in Typed
  BY <1>4, <1>9
<1>12. ASSUME NEW i \in Nat, i \in Typed PROVE i + 1 \in Typed
  <2>1. SUFFICES ASSUME i + 1 <= n PROVE g[i + 1] = f[i + 1]
    OBVIOUS
  <2>2. i + 1 \in 1 .. n /\ i <= n /\ (i + 1) - 1 = i
    BY <1>0, <2>1
  <2> QED BY <1>4, <1>9, <1>12, <2>2
<1> HIDE DEF Typed
<1>13. \A i \in Nat : i \in Typed
  BY <1>11, <1>12, InductionOnSet
<1>14. n \in 0 .. n /\ g[n] = f[n]
  BY <1>0, <1>13 DEF Typed
<1> QED BY <1>3, <1>4, <1>7, <1>14 DEF Gathers, n, V

\* A directory that works.
LEMMA LinesGathered ==
  ASSUME WorldTyped, NEW d \in Dir, health[d] = "fine", NEW have, Gathered(have, d, 0)
  PROVE  Gathered(Collect(have, Found[d][version[d]]), d + 1, 0)
<1>1. PICK found : found = Found[d][version[d]]
  OBVIOUS
<1>2. found \in Seq(Seq(EntryType)) /\ Len(found) \in Nat
  <2>1. PICK v \in 0 .. EDITS : v = version[d]
    BY DEF WorldTyped
  <2> QED BY <1>1, <2>1, FoundLines
<1>3. have \in Seq(EntryType)
  BY DEF Gathered
<1>4. PICK after \in [0 .. Len(found) -> Seq(EntryType)] :
         Gathers(after, have, found) /\ Collect(have, found) = after[Len(found)]
  BY <1>2, <1>3, CollectSteps
<1> DEFINE Done == {i \in Nat : i <= Len(found) => Gathered(after[i], d, i)}
<1>5. 0 \in Done
  BY <1>4 DEF Gathers
<1>6. ASSUME NEW m \in Nat, m \in Done PROVE m + 1 \in Done
  <2>1. SUFFICES ASSUME m + 1 <= Len(found) PROVE Gathered(after[m + 1], d, m + 1)
    OBVIOUS
  <2>2. PICK i : i = m + 1
    OBVIOUS
  <2>3. i \in 1 .. Len(found) /\ i \in Nat \ {0} /\ i - 1 = m /\ m <= Len(found)
    BY <1>2, <2>1, <2>2
  <2>4. Gathered(after[i - 1], d, i - 1)
    BY <1>6, <2>3
  <2>5. after[i] = IF Fresh(after[i - 1], found[i]) THEN after[i - 1] \o found[i] ELSE after[i - 1]
    BY <1>4, <2>3 DEF Gathers
  <2>6. Fresh(after[i - 1], found[i]) <=> <<d, i>> \in FirstCommands
    BY <1>1, <2>3, <2>4, FreshIsFirst
  <2>7. CASE <<d, i>> \in FirstCommands
    <3>1. PICK at : at = <<d, i>>
      OBVIOUS
    <3>2. at[1] = d /\ at[2] = i /\ at \in Commands
      BY <2>7, <3>1 DEF FirstCommands
    <3>3. Found[at[1]][version[at[1]]][at[2]] = <<EntryOf(at)>> /\ EntryOf(at) \in EntryType
      BY <3>2, CommandEntry
    <3>4. after[i - 1] \o found[i] = Append(after[i - 1], EntryOf(at))
      <4>1. after[i - 1] \in Seq(EntryType)
        BY <2>4 DEF Gathered
      <4>2. found[i] = <<EntryOf(at)>>
        BY <1>1, <3>2, <3>3
      <4> QED BY <3>3, <4>1, <4>2, Concatenated
    <3>5. Gathered(Append(after[i - 1], EntryOf(<<d, i>>)), d, i)
      BY <2>3, <2>4, <2>7, GatherFirst
    <3> QED BY <2>2, <2>5, <2>6, <2>7, <3>1, <3>4, <3>5
  <2>8. CASE <<d, i>> \notin FirstCommands
    <3>1. Gathered(after[i - 1], d, i)
      BY <2>3, <2>4, <2>8, GatherOther
    <3> QED BY <2>2, <2>5, <2>6, <2>8, <3>1
  <2> QED BY <2>7, <2>8
<1> HIDE DEF Done
<1>7. Len(found) \in Done
  BY <1>2, <1>5, <1>6, InductionOnSet
<1>8. Gathered(after[Len(found)], d, Len(found))
  BY <1>2, <1>7 DEF Done
<1> QED BY <1>1, <1>4, <1>8, DirectoryOver

\* A directory that has no lines.
LEMMA NothingGathered ==
  ASSUME NEW have \in Seq(EntryType)
  PROVE  Collect(have, <<>>) = have
<1>1. PICK after \in [0 .. Len(<<>>) -> Seq(EntryType)] :
         Gathers(after, have, <<>>) /\ Collect(have, <<>>) = after[Len(<<>>)]
  <2>1. <<>> \in Seq(Seq(EntryType))
    OBVIOUS
  <2> QED BY <2>1, CollectSteps
<1> QED BY <1>1 DEF Gathers

\* The start and the end of the search.
LEMMA GatheredNothing ==
  ASSUME WorldTyped PROVE Gathered(<<>>, 1, 0)
<1>1. ASSUME NEW b \in Commands PROVE ~Reached(b, 1, 0)
  <2>1. b[1] \in Dir /\ b[2] \in Nat \ {0}
    BY CommandEntry
  <2>2. b[1] >= 1 /\ b[1] \in Int
    <3>1. PICK m : m = Cardinality(Dir) /\ m \in Nat
      BY DatabaseAssumption, FS_CardinalityType
    <3>2. Dir = 1 .. m
      BY <3>1, DatabaseAssumption
    <3> QED BY <2>1, <3>1, <3>2
  <2>3. ~(b[1] < 1) /\ ~(b[2] <= 0)
    BY <2>1, <2>2
  <2> QED BY <2>3 DEF Reached
<1>2. Upto(1, 0) = {}
  BY <1>1 DEF Upto, FirstCommands
<1>3. <<>> \in Seq(EntryType) /\ DOMAIN <<>> = {}
  OBVIOUS
<1>4. Lists(<<>>, Upto(1, 0))
  BY <1>2, <1>3 DEF Lists
<1> QED BY <1>1, <1>3, <1>4 DEF Gathered

\* What is gathered behind the last directory is the list of the first commands.
LEMMA GatheredAll ==
  ASSUME WorldTyped, NEW es, Gathered(es, Cardinality(Dir) + 1, 0)
  PROVE  es \in Seq(EntryType) /\ Lists(es, FirstCommands)
<1>1. PICK n : n = Cardinality(Dir) /\ n \in Nat
  BY DatabaseAssumption, FS_CardinalityType
<1>2. ASSUME NEW b \in FirstCommands PROVE Reached(b, n + 1, 0)
  <2>1. b[1] \in Dir
    BY CommandEntry DEF FirstCommands
  <2>2. b[1] < n + 1
    <3>1. Dir = 1 .. n
      BY <1>1, DatabaseAssumption
    <3>2. PICK e : e = b[1]
      OBVIOUS
    <3>3. e \in 1 .. n
      BY <2>1, <3>1, <3>2
    <3>4. e < n + 1
      BY <1>1, <3>3
    <3> QED BY <3>2, <3>4
  <2> QED BY <2>2 DEF Reached
<1>3. Upto(n + 1, 0) = FirstCommands
  BY <1>2 DEF Upto
<1> QED BY <1>1, <1>3 DEF Gathered

-----------------------------------------------------------------------------
(* The scripts: types *)

\* What holds of every script.
ScriptsTyped ==
  /\ pc \in [Proc -> {"idle", "scan", "retry", "compare", "write", "store", "build", "killed"}]
  /\ dir \in [Proc -> 1 .. Cardinality(Dir) + 1]
  /\ entries \in [Proc -> Seq(EntryType)]
  /\ \A p \in Proc : ~Running(p) => dir[p] = 1 /\ entries[p] = <<>>
  /\ \A p \in Proc : pc[p] \in {"scan", "retry"} => dir[p] \in Dir
Typed ==
  /\ WorldTyped /\ file \in Seq(EntryType) /\ alone \in [Proc -> BOOLEAN]
  /\ ScriptsTyped

\* What holds of the script of p when nothing disturbed it.
Undisturbed(p) ==
  /\ \A q \in Proc : Running(q) => q = p
  /\ Running(p) => Gathered(entries[p], dir[p], 0)
  /\ pc[p] = "retry" => health[dir[p]] # "hangs"
  /\ pc[p] \in {"compare", "write", "store"} => dir[p] = Cardinality(Dir) + 1
  /\ pc[p] = "write" => entries[p] # <<>> /\ entries[p] # file
  /\ pc[p] = "store" => entries[p] # <<>> /\ file = <<>>
  /\ pc[p] = "build" /\ FirstCommands # {} => UpToDate

DatabaseInv == Typed /\ \A p \in Proc : alone[p] => Undisturbed(p)

\* The directories are numbered from 1 on.
LEMMA Directories ==
  \E n \in Nat : n = Cardinality(Dir) /\ n >= 1 /\ Dir = 1 .. n
<1>1. PICK n : n = Cardinality(Dir) /\ n \in Nat
  BY DatabaseAssumption, FS_CardinalityType
<1>2. Dir = 1 .. n /\ Dir # {}
  BY <1>1, DatabaseAssumption
<1>3. n >= 1
  <2>1. PICK d : d \in 1 .. n
    BY <1>2
  <2> QED BY <1>1, <2>1
<1> QED BY <1>1, <1>2, <1>3

\* Nothing runs at the start.
LEMMA StartTyped == Init => Typed
<1> SUFFICES ASSUME Init PROVE Typed
  OBVIOUS
<1>1. PICK n \in Nat : n = Cardinality(Dir) /\ n >= 1 /\ Dir = 1 .. n
  BY Directories
<1>2. WorldTyped
  <2>1. 0 \in 0 .. EDITS
    BY DatabaseAssumption
  <2> QED BY <2>1 DEF Init, WorldTyped
<1>3. 1 \in 1 .. Cardinality(Dir) + 1 /\ <<>> \in Seq(EntryType)
  <2>1. 1 \in 1 .. n + 1
    OBVIOUS
  <2> QED BY <1>1, <2>1
<1>4. ScriptsTyped
  BY <1>3 DEF Init, ScriptsTyped, Running
<1> QED BY <1>2, <1>3, <1>4 DEF Init, Typed

\* A script goes on or ends.
LEMMA AdvanceTyped ==
  ASSUME ScriptsTyped, NEW p \in Proc, pc[p] \in {"scan", "retry"},
         NEW found \in Seq(Seq(EntryType)), Advance(p, found)
  PROVE  ScriptsTyped'
<1>1. PICK n \in Nat : n = Cardinality(Dir) /\ n >= 1 /\ Dir = 1 .. n
  BY Directories
<1>2. dir[p] \in 1 .. n
  BY <1>1 DEF ScriptsTyped
<1>3. Collect(entries[p], found) \in Seq(EntryType)
  <2>1. entries[p] \in Seq(EntryType)
    BY DEF ScriptsTyped
  <2>2. PICK after \in [0 .. Len(found) -> Seq(EntryType)] : Collect(entries[p], found) = after[Len(found)]
    BY <2>1, CollectSteps
  <2>3. Len(found) \in 0 .. Len(found)
    OBVIOUS
  <2> QED BY <2>2, <2>3
<1>4. /\ entries' = [entries EXCEPT ![p] = Collect(entries[p], found)]
      /\ dir' = [dir EXCEPT ![p] = dir[p] + 1]
      /\ pc' = [pc EXCEPT ![p] = IF dir[p] = n THEN "compare" ELSE "scan"]
  BY <1>1 DEF Advance
<1>5. entries' \in [Proc -> Seq(EntryType)]
  BY <1>3, <1>4 DEF ScriptsTyped
<1>6. /\ dir[p] + 1 \in 1 .. n + 1
      /\ dir[p] # n => dir[p] + 1 \in 1 .. n
  BY <1>2
<1>7. dir' \in [Proc -> 1 .. n + 1]
  BY <1>1, <1>4, <1>6 DEF ScriptsTyped
<1>8. pc' \in [Proc -> {"idle", "scan", "retry", "compare", "write", "store", "build", "killed"}]
  BY <1>4 DEF ScriptsTyped
<1>9. ASSUME NEW q \in Proc
      PROVE  /\ ~Running(q)' => dir'[q] = 1 /\ entries'[q] = <<>>
             /\ pc'[q] \in {"scan", "retry"} => dir'[q] \in Dir
  <2>1. CASE q = p
    <3>1. pc'[p] = (IF dir[p] = n THEN "compare" ELSE "scan") /\ dir'[p] = dir[p] + 1
      BY <1>4 DEF ScriptsTyped
    <3> QED BY <1>1, <1>6, <2>1, <3>1 DEF Running
  <2>2. CASE q # p
    <3>1. pc'[q] = pc[q] /\ dir'[q] = dir[q] /\ entries'[q] = entries[q]
      BY <1>4, <2>2 DEF ScriptsTyped
    <3> QED BY <3>1 DEF ScriptsTyped, Running
  <2> QED BY <2>1, <2>2
<1> QED BY <1>1, <1>5, <1>7, <1>8, <1>9 DEF ScriptsTyped

\* A script that ends leaves nothing behind.
LEMMA LeaveTyped ==
  ASSUME ScriptsTyped, NEW p \in Proc, NEW how \in {"build", "killed"}, Leave(p, how)
  PROVE  ScriptsTyped'
<1>1. PICK n \in Nat : n = Cardinality(Dir) /\ n >= 1 /\ Dir = 1 .. n
  BY Directories
<1>2. 1 \in 1 .. Cardinality(Dir) + 1 /\ <<>> \in Seq(EntryType)
  <2>1. 1 \in 1 .. n + 1
    OBVIOUS
  <2> QED BY <1>1, <2>1
<1>3. /\ pc' \in [Proc -> {"idle", "scan", "retry", "compare", "write", "store", "build", "killed"}]
      /\ dir' \in [Proc -> 1 .. Cardinality(Dir) + 1]
      /\ entries' \in [Proc -> Seq(EntryType)]
  BY <1>2 DEF Leave, ScriptsTyped
<1>4. ASSUME NEW q \in Proc
      PROVE  /\ ~Running(q)' => dir'[q] = 1 /\ entries'[q] = <<>>
             /\ pc'[q] \in {"scan", "retry"} => dir'[q] \in Dir
  <2>1. CASE q = p
    BY <2>1 DEF Leave, ScriptsTyped
  <2>2. CASE q # p
    <3>1. pc'[q] = pc[q] /\ dir'[q] = dir[q] /\ entries'[q] = entries[q]
      BY <2>2 DEF Leave, ScriptsTyped
    <3> QED BY <3>1 DEF ScriptsTyped, Running
  <2> QED BY <2>1, <2>2
<1> QED BY <1>3, <1>4 DEF ScriptsTyped

\* A script is at its next step in the same directory, with the same entries.
LEMMA StepTyped ==
  ASSUME ScriptsTyped, NEW p \in Proc, Running(p), NEW next \in {"retry", "write", "store"},
         next = "retry" => pc[p] = "scan", pc' = [pc EXCEPT ![p] = next], UNCHANGED local
  PROVE  ScriptsTyped'
<1>1. pc' \in [Proc -> {"idle", "scan", "retry", "compare", "write", "store", "build", "killed"}]
  BY DEF ScriptsTyped
<1>2. dir' = dir /\ entries' = entries
  BY DEF local
<1>3. ASSUME NEW q \in Proc
      PROVE  /\ ~Running(q)' => dir[q] = 1 /\ entries[q] = <<>>
             /\ pc'[q] \in {"scan", "retry"} => dir[q] \in Dir
  <2>1. CASE q = p
    <3>1. pc'[q] = next
      BY <2>1 DEF ScriptsTyped
    <3> QED BY <2>1, <3>1 DEF ScriptsTyped, Running
  <2>2. CASE q # p
    <3>1. pc'[q] = pc[q]
      BY <2>2 DEF ScriptsTyped
    <3> QED BY <3>1 DEF ScriptsTyped, Running
  <2> QED BY <2>1, <2>2
<1> QED BY <1>1, <1>2, <1>3 DEF ScriptsTyped

\* What a directory yields for a script.
LEMMA YieldTyped ==
  ASSUME Typed, NEW p \in Proc, dir[p] \in Dir
  PROVE  Found[dir[p]][version[dir[p]]] \in Seq(Seq(EntryType)) /\ <<>> \in Seq(Seq(EntryType))
<1>1. version[dir[p]] \in 0 .. EDITS
  BY DEF Typed, WorldTyped
<1> QED BY <1>1, FoundLines

\* What is written over the start of a file.
LEMMA OverwriteTyped ==
  ASSUME NEW S, NEW es \in Seq(S), NEW fs \in Seq(S)
  PROVE  es \o SubSeq(fs, Len(es) + 1, Len(fs)) \in Seq(S)
<1>1. PICK m \in Nat : m = Len(es) + 1 /\ m >= 1
  OBVIOUS
<1>2. PICK n \in Nat : n = Len(fs)
  OBVIOUS
<1>3. m \in 1 .. n + 1 => SubSeq(fs, m, n) \in Seq(S)
  BY <1>2, SubSeqProperties
<1>4. m > n + 1 => SubSeq(fs, m, n) = <<>>
  BY SubSeqEmpty
<1>5. SubSeq(fs, m, n) \in Seq(S)
  <2>1. m \in 1 .. n + 1 \/ m > n + 1
    BY <1>1
  <2>2. <<>> \in Seq(S)
    OBVIOUS
  <2> QED BY <1>3, <1>4, <2>1, <2>2
<1> QED BY <1>1, <1>2, <1>5, ConcatProperties

-----------------------------------------------------------------------------
(* The inductive invariant *)

\* The world does not change with a step of a script.
LEMMA WorldStays ==
  ASSUME WorldTyped, version' = version, health' = health PROVE WorldTyped'
BY DEF WorldTyped

\* No step of any script or user leaves the types.
LEMMA NextTyped ==
  ASSUME Typed, [Next]_vars PROVE Typed'
<1> USE DEF Typed
<1>1. ASSUME NEW p \in Proc, Make(p) PROVE Typed'
  <2>1. WorldTyped' /\ file' \in Seq(EntryType)
    BY <1>1, WorldStays DEF Make, world
  <2>2. /\ alone' \in [Proc -> BOOLEAN]
        /\ pc' \in [Proc -> {"idle", "scan", "retry", "compare", "write", "store", "build", "killed"}]
    <3>1. CASE alone' = [q \in Proc |-> q = p /\ \A r \in Proc : ~Running(r)] /\ pc' = [pc EXCEPT ![p] = "scan"]
      BY <3>1 DEF ScriptsTyped
    <3>2. CASE alone' = [alone EXCEPT ![p] = FALSE] /\ pc' = [pc EXCEPT ![p] = "build"]
      BY <3>2 DEF ScriptsTyped
    <3> QED BY <1>1, <3>1, <3>2 DEF Make
  <2>3. dir' = dir /\ entries' = entries /\ dir[p] = 1 /\ ~Running(p)
    BY <1>1 DEF Make, local, ScriptsTyped
  <2>4. 1 \in Dir
    <3>1. PICK n \in Nat : n = Cardinality(Dir) /\ n >= 1 /\ Dir = 1 .. n
      BY Directories
    <3>2. 1 \in 1 .. n
      BY <3>1
    <3> QED BY <3>1, <3>2
  <2>5. ASSUME NEW q \in Proc
        PROVE  /\ ~Running(q)' => dir[q] = 1 /\ entries[q] = <<>>
               /\ pc'[q] \in {"scan", "retry"} => dir[q] \in Dir
    <3>1. CASE q = p
      BY <2>3, <2>4, <3>1 DEF ScriptsTyped
    <3>2. CASE q # p
      <4>1. pc'[q] = pc[q]
        BY <1>1, <3>2 DEF Make, ScriptsTyped
      <4> QED BY <4>1 DEF ScriptsTyped, Running
    <3> QED BY <3>1, <3>2
  <2>6. ScriptsTyped'
    BY <2>2, <2>3, <2>5 DEF ScriptsTyped
  <2> QED BY <2>1, <2>2, <2>6
<1>2. ASSUME NEW p \in Proc, DryRun(p) PROVE Typed'
  <2>1. WorldTyped' /\ file' \in Seq(EntryType) /\ alone' \in [Proc -> BOOLEAN]
    BY <1>2, WorldStays DEF DryRun, world
  <2>2. dir[p] \in Dir
    BY <1>2 DEF DryRun, ScriptsTyped
  <2>3. CASE Advance(p, Found[dir[p]][version[dir[p]]])
    BY <1>2, <2>1, <2>2, <2>3, YieldTyped, AdvanceTyped DEF DryRun
  <2>4. CASE pc' = [pc EXCEPT ![p] = "retry"] /\ UNCHANGED local
    BY <1>2, <2>1, <2>4, StepTyped DEF DryRun, Running
  <2> QED BY <1>2, <2>3, <2>4 DEF DryRun
<1>3. ASSUME NEW p \in Proc, Retry(p) PROVE Typed'
  <2>1. WorldTyped' /\ file' \in Seq(EntryType) /\ alone' \in [Proc -> BOOLEAN]
    BY <1>3, WorldStays DEF Retry, world
  <2>2. dir[p] \in Dir
    BY <1>3 DEF Retry, ScriptsTyped
  <2>3. PICK found \in Seq(Seq(EntryType)) : Advance(p, found)
    <3>1. Advance(p, IF health[dir[p]] = "fine" THEN Found[dir[p]][version[dir[p]]] ELSE <<>>)
      BY <1>3 DEF Retry
    <3> QED BY <2>2, <3>1, YieldTyped
  <2> QED BY <1>3, <2>1, <2>3, AdvanceTyped DEF Retry
<1>4. ASSUME NEW p \in Proc, Timeout(p) PROVE Typed'
  <2>1. WorldTyped' /\ file' \in Seq(EntryType) /\ alone' \in [Proc -> BOOLEAN]
    BY <1>4, WorldStays DEF Timeout, world
  <2>2. <<>> \in Seq(Seq(EntryType))
    OBVIOUS
  <2>3. CASE pc[p] = "scan"
    BY <1>4, <2>1, <2>2, <2>3, AdvanceTyped DEF Timeout
  <2>4. CASE pc[p] # "scan"
    BY <1>4, <2>1, <2>4, LeaveTyped DEF Timeout
  <2> QED BY <2>3, <2>4
<1>5. ASSUME NEW p \in Proc, Compare(p) PROVE Typed'
  <2>1. WorldTyped' /\ file' \in Seq(EntryType) /\ alone' \in [Proc -> BOOLEAN]
    BY <1>5, WorldStays DEF Compare, world
  <2>2. CASE entries[p] \in {<<>>, file}
    BY <1>5, <2>1, <2>2, LeaveTyped DEF Compare
  <2>3. CASE entries[p] \notin {<<>>, file}
    BY <1>5, <2>1, <2>3, StepTyped DEF Compare, Running
  <2> QED BY <2>2, <2>3
<1>6. ASSUME NEW p \in Proc, Truncate(p) PROVE Typed'
  <2>1. WorldTyped' /\ alone' \in [Proc -> BOOLEAN]
    BY <1>6, WorldStays DEF Truncate, world
  <2>2. file' \in Seq(EntryType)
    BY <1>6 DEF Truncate
  <2> QED BY <1>6, <2>1, <2>2, StepTyped DEF Truncate, Running
<1>7. ASSUME NEW p \in Proc, Store(p) PROVE Typed'
  <2>1. WorldTyped' /\ alone' \in [Proc -> BOOLEAN]
    BY <1>7, WorldStays DEF Store, world
  <2>2. file' \in Seq(EntryType)
    BY <1>7, OverwriteTyped DEF Store, ScriptsTyped
  <2> QED BY <1>7, <2>1, <2>2, LeaveTyped DEF Store
<1>8. ASSUME NEW p \in Proc, Kill(p) PROVE Typed'
  <2>1. WorldTyped' /\ file' \in Seq(EntryType) /\ alone' \in [Proc -> BOOLEAN]
    BY <1>8, WorldStays DEF Kill, world
  <2> QED BY <1>8, <2>1, LeaveTyped DEF Kill
<1>9. ASSUME Disturb PROVE file' \in Seq(EntryType) /\ alone' \in [Proc -> BOOLEAN] /\ ScriptsTyped'
  BY <1>9 DEF Disturb, local, ScriptsTyped, Running
<1>10. ASSUME NEW d \in Dir, Edit(d) PROVE Typed'
  <2>1. PICK v \in 0 .. EDITS : v = version[d]
    BY DEF WorldTyped
  <2>2. v + 1 \in 0 .. EDITS
    BY <1>10, <2>1, DatabaseAssumption DEF Edit
  <2>3. WorldTyped'
    BY <1>10, <2>1, <2>2 DEF Edit, WorldTyped
  <2> QED BY <1>9, <1>10, <2>3 DEF Edit
<1>11. ASSUME NEW d \in Dir, Break(d) PROVE Typed'
  <2>1. WorldTyped'
    BY <1>11 DEF Break, WorldTyped
  <2> QED BY <1>9, <1>11, <2>1 DEF Break
<1>12. CASE UNCHANGED vars
  BY <1>12 DEF vars, world, local, WorldTyped, ScriptsTyped, Running
<1> QED BY <1>1, <1>2, <1>3, <1>4, <1>5, <1>6, <1>7, <1>8, <1>10, <1>11, <1>12 DEF Next, ScriptStep

\* As long as no Makefile changes, the commands stay the same.
LEMMA CommandsStay ==
  ASSUME version' = version, health' = health, NEW p \in Proc
  PROVE  /\ FirstCommands' = FirstCommands
         /\ Gathered(entries'[p], dir'[p], 0) => Gathered(entries[p], dir[p], 0)'
         /\ Lists(file', FirstCommands) <=> UpToDate'
<1>1. \A at : Line(at)' = Line(at)
  BY DEF Line
<1>2. \A at : EntryOf(at)' = EntryOf(at)
  BY <1>1 DEF EntryOf
<1>3. \A at : FileOf(at)' = FileOf(at)
  BY <1>2 DEF FileOf
<1>4. Commands' = Commands
  BY <1>1 DEF Commands, Lines
<1>5. FirstCommands' = FirstCommands
  BY <1>3, <1>4 DEF FirstCommands
<1>6. Upto(dir[p], 0)' = Upto(dir'[p], 0)
  BY <1>5 DEF Upto, Reached
<1>7. Gathered(entries'[p], dir'[p], 0) => Gathered(entries[p], dir[p], 0)'
  BY <1>2, <1>3, <1>4, <1>6 DEF Gathered, Lists, Reached
<1>8. Lists(file', FirstCommands) <=> UpToDate'
  BY <1>2, <1>5 DEF UpToDate, Lists
<1> QED BY <1>5, <1>7, <1>8

\* A step of the script of p leaves no script undisturbed but that of p.
LEMMA ScriptStays ==
  ASSUME DatabaseInv, [Next]_vars, NEW p \in Proc, Running(p), alone' = alone,
         version' = version, health' = health, \A q \in Proc \ {p} : pc'[q] = pc[q],
         alone[p] =>
           /\ Running(p)' => Gathered(entries'[p], dir'[p], 0)
           /\ pc'[p] = "retry" => health[dir'[p]] # "hangs"
           /\ pc'[p] \in {"compare", "write", "store"} => dir'[p] = Cardinality(Dir) + 1
           /\ pc'[p] = "write" => entries'[p] # <<>> /\ entries'[p] # file'
           /\ pc'[p] = "store" => entries'[p] # <<>> /\ file' = <<>>
           /\ pc'[p] = "build" /\ FirstCommands # {} => Lists(file', FirstCommands)
  PROVE  DatabaseInv'
<1>1. Typed'
  BY NextTyped DEF DatabaseInv
<1>2. ASSUME NEW q \in Proc, alone'[q] PROVE Undisturbed(q)'
  <2>1. alone[q] /\ q = p
    BY <1>2 DEF DatabaseInv, Undisturbed
  <2>2. \A r \in Proc : Running(r)' => r = p
    <3>1. \A r \in Proc \ {p} : Running(r)' => Running(r)
      BY DEF Running
    <3> QED BY <2>1, <3>1 DEF DatabaseInv, Undisturbed
  <2> QED BY <2>1, <2>2, CommandsStay DEF Undisturbed
<1> QED BY <1>1, <1>2 DEF DatabaseInv

\* The script has what its next directory yields too.
LEMMA AdvanceGathers ==
  ASSUME DatabaseInv, NEW p \in Proc, alone[p], pc[p] \in {"scan", "retry"}, NEW found,
         found = IF health[dir[p]] = "fine" THEN Found[dir[p]][version[dir[p]]] ELSE <<>>,
         Advance(p, found)
  PROVE  /\ Gathered(entries'[p], dir'[p], 0)
         /\ (pc'[p] = "compare" /\ dir'[p] = Cardinality(Dir) + 1) \/ pc'[p] = "scan"
         /\ \A q \in Proc \ {p} : pc'[q] = pc[q]
<1>1. Running(p) /\ ScriptsTyped /\ WorldTyped
  BY DEF Running, DatabaseInv, Typed
<1>2. Gathered(entries[p], dir[p], 0)
  BY <1>1 DEF DatabaseInv, Undisturbed
<1>3. dir[p] \in Dir
  BY <1>1 DEF ScriptsTyped
<1>4. /\ entries'[p] = Collect(entries[p], found) /\ dir'[p] = dir[p] + 1
      /\ pc'[p] = (IF dir[p] = Cardinality(Dir) THEN "compare" ELSE "scan")
      /\ \A q \in Proc \ {p} : pc'[q] = pc[q]
  BY <1>1 DEF Advance, ScriptsTyped
<1>5. Gathered(Collect(entries[p], found), dir[p] + 1, 0)
  <2>1. CASE health[dir[p]] = "fine"
    BY <1>1, <1>2, <1>3, <2>1, LinesGathered
  <2>2. CASE health[dir[p]] # "fine"
    <3>1. Collect(entries[p], found) = entries[p]
      BY <1>2, <2>2, NothingGathered DEF Gathered
    <3> QED BY <1>1, <1>2, <1>3, <2>2, <3>1, DirectoryOver
  <2> QED BY <2>1, <2>2
<1> QED BY <1>4, <1>5

\* A script that has gone through all directories has the first commands.
LEMMA ScriptKnows ==
  ASSUME DatabaseInv, NEW p \in Proc, alone[p], pc[p] \in {"compare", "write", "store"}
  PROVE  /\ entries[p] \in Seq(EntryType) /\ Lists(entries[p], FirstCommands)
         /\ entries[p] = <<>> => FirstCommands = {}
<1>1. Running(p) /\ WorldTyped
  BY DEF Running, DatabaseInv, Typed
<1>2. Gathered(entries[p], Cardinality(Dir) + 1, 0)
  BY <1>1 DEF DatabaseInv, Undisturbed
<1>3. entries[p] \in Seq(EntryType) /\ Lists(entries[p], FirstCommands)
  BY <1>1, <1>2, GatheredAll
<1>4. entries[p] = <<>> => FirstCommands = {}
  <2>1. DOMAIN <<>> = {}
    OBVIOUS
  <2> QED BY <1>3, <2>1 DEF Lists
<1> QED BY <1>3, <1>4

\* At the start no script runs, disturbed or not.
LEMMA DatabaseStarts == Init => DatabaseInv
<1>1. Init => \A p \in Proc : ~alone[p]
  BY DEF Init
<1> QED BY <1>1, StartTyped DEF DatabaseInv

\* No step of a script, a user or a Makefile breaks the invariant.
LEMMA DatabaseStep == DatabaseInv /\ [Next]_vars => DatabaseInv'
<1> SUFFICES ASSUME DatabaseInv, [Next]_vars PROVE DatabaseInv'
  OBVIOUS
<1>0. Typed /\ ScriptsTyped /\ WorldTyped /\ Typed'
  BY NextTyped DEF DatabaseInv, Typed
<1>1. ASSUME NEW p \in Proc, Make(p) PROVE DatabaseInv'
  <2>1. version' = version /\ health' = health /\ file' = file /\ dir' = dir /\ entries' = entries /\ ~Running(p)
    BY <1>1 DEF Make, world, local
  <2>2. CASE pc' = [pc EXCEPT ![p] = "scan"] /\ alone' = [q \in Proc |-> q = p /\ \A r \in Proc : ~Running(r)]
    <3>1. ASSUME NEW q \in Proc, alone'[q] PROVE Undisturbed(q)'
      <4>1. q = p /\ \A r \in Proc : ~Running(r)
        BY <2>2, <3>1
      <4>2. pc'[p] = "scan" /\ \A r \in Proc \ {p} : pc'[r] = pc[r]
        BY <1>0, <2>2 DEF ScriptsTyped
      <4>3. \A r \in Proc : Running(r)' => r = p
        BY <4>1, <4>2 DEF Running
      <4>4. Gathered(entries'[p], dir'[p], 0)
        BY <1>0, <2>1, GatheredNothing DEF ScriptsTyped
      <4>5. Gathered(entries[p], dir[p], 0)'
        BY <2>1, <4>4, CommandsStay
      <4> QED BY <4>1, <4>2, <4>3, <4>5 DEF Undisturbed
    <3> QED BY <1>0, <3>1 DEF DatabaseInv
  <2>3. CASE pc' = [pc EXCEPT ![p] = "build"] /\ alone' = [alone EXCEPT ![p] = FALSE]
    <3>1. ASSUME NEW q \in Proc, alone'[q] PROVE Undisturbed(q)'
      <4>1. q # p /\ alone[q]
        BY <1>0, <2>3, <3>1 DEF Typed
      <4>2. pc'[p] = "build" /\ \A r \in Proc \ {p} : pc'[r] = pc[r]
        BY <1>0, <2>3 DEF ScriptsTyped
      <4>3. Undisturbed(q)
        BY <4>1 DEF DatabaseInv
      <4>4. \A r \in Proc : Running(r)' => Running(r)
        BY <4>2 DEF Running
      <4>5. Running(q)' => Gathered(entries'[q], dir'[q], 0)
        BY <2>1, <4>3, <4>4 DEF Undisturbed
      <4>6. FirstCommands' # {} /\ pc'[q] = "build" => UpToDate'
        BY <2>1, <4>1, <4>2, <4>3, CommandsStay DEF Undisturbed, UpToDate
      <4> QED BY <2>1, <4>1, <4>2, <4>3, <4>4, <4>5, <4>6, CommandsStay DEF Undisturbed
    <3> QED BY <1>0, <3>1 DEF DatabaseInv
  <2> QED BY <1>1, <2>2, <2>3 DEF Make
<1>2. ASSUME NEW p \in Proc, DryRun(p) PROVE DatabaseInv'
  <2>1. /\ version' = version /\ health' = health /\ file' = file /\ alone' = alone
        /\ Running(p) /\ pc[p] = "scan" /\ health[dir[p]] # "hangs"
    BY <1>2 DEF DryRun, world, Running
  <2>2. CASE health[dir[p]] = "fine" /\ HasAll[dir[p]]
    <3>1. Advance(p, Found[dir[p]][version[dir[p]]])
      BY <1>2, <2>2 DEF DryRun
    <3>2. \A q \in Proc \ {p} : pc'[q] = pc[q]
      BY <1>0, <3>1 DEF Advance, ScriptsTyped
    <3>3. alone[p] => /\ Gathered(entries'[p], dir'[p], 0)
                      /\ (pc'[p] = "compare" /\ dir'[p] = Cardinality(Dir) + 1) \/ pc'[p] = "scan"
      BY <2>1, <2>2, <3>1, AdvanceGathers
    <3> QED BY <2>1, <3>2, <3>3, ScriptStays
  <2>3. CASE ~(health[dir[p]] = "fine" /\ HasAll[dir[p]])
    <3>1. pc' = [pc EXCEPT ![p] = "retry"] /\ dir' = dir /\ entries' = entries
      BY <1>2, <2>3 DEF DryRun, local
    <3>2. pc'[p] = "retry" /\ \A q \in Proc \ {p} : pc'[q] = pc[q]
      BY <1>0, <3>1 DEF ScriptsTyped
    <3>3. alone[p] => Gathered(entries'[p], dir'[p], 0)
      BY <2>1, <3>1 DEF DatabaseInv, Undisturbed
    <3> QED BY <2>1, <3>1, <3>2, <3>3, ScriptStays
  <2> QED BY <2>2, <2>3
<1>3. ASSUME NEW p \in Proc, Retry(p) PROVE DatabaseInv'
  <2>1. /\ version' = version /\ health' = health /\ file' = file /\ alone' = alone
        /\ Running(p) /\ pc[p] = "retry"
    BY <1>3 DEF Retry, world, Running
  <2>2. PICK found : /\ found = IF health[dir[p]] = "fine" THEN Found[dir[p]][version[dir[p]]] ELSE <<>>
                     /\ Advance(p, found)
    BY <1>3 DEF Retry
  <2>3. \A q \in Proc \ {p} : pc'[q] = pc[q]
    BY <1>0, <2>2 DEF Advance, ScriptsTyped
  <2>4. alone[p] => /\ Gathered(entries'[p], dir'[p], 0)
                    /\ (pc'[p] = "compare" /\ dir'[p] = Cardinality(Dir) + 1) \/ pc'[p] = "scan"
    BY <2>1, <2>2, AdvanceGathers
  <2> QED BY <2>1, <2>3, <2>4, ScriptStays
<1>4. ASSUME NEW p \in Proc, Timeout(p) PROVE DatabaseInv'
  <2>1. /\ version' = version /\ health' = health /\ file' = file /\ alone' = alone
        /\ Running(p) /\ pc[p] \in {"scan", "retry"} /\ health[dir[p]] = "hangs"
    BY <1>4 DEF Timeout, world, Running
  <2>2. CASE pc[p] = "scan"
    <3>1. Advance(p, <<>>)
      BY <1>4, <2>2 DEF Timeout
    <3>2. \A q \in Proc \ {p} : pc'[q] = pc[q]
      BY <1>0, <3>1 DEF Advance, ScriptsTyped
    <3>3. alone[p] => /\ Gathered(entries'[p], dir'[p], 0)
                      /\ (pc'[p] = "compare" /\ dir'[p] = Cardinality(Dir) + 1) \/ pc'[p] = "scan"
      BY <2>1, <2>2, <3>1, AdvanceGathers
    <3> QED BY <2>1, <3>2, <3>3, ScriptStays
  <2>3. CASE pc[p] = "retry"
    <3>1. ~alone[p]
      BY <2>1, <2>3 DEF DatabaseInv, Undisturbed
    <3>2. \A q \in Proc \ {p} : pc'[q] = pc[q]
      BY <1>0, <1>4, <2>3 DEF Timeout, Leave, ScriptsTyped
    <3> QED BY <2>1, <3>1, <3>2, ScriptStays
  <2> QED BY <2>1, <2>2, <2>3
<1>5. ASSUME NEW p \in Proc, Compare(p) PROVE DatabaseInv'
  <2>1. /\ version' = version /\ health' = health /\ file' = file /\ alone' = alone
        /\ Running(p) /\ pc[p] = "compare"
    BY <1>5 DEF Compare, world, Running
  <2>2. CASE entries[p] \in {<<>>, file}
    <3>1. Leave(p, "build")
      BY <1>5, <2>2 DEF Compare
    <3>2. pc'[p] = "build" /\ \A q \in Proc \ {p} : pc'[q] = pc[q]
      BY <1>0, <3>1 DEF Leave, ScriptsTyped
    <3>3. alone[p] /\ FirstCommands # {} => Lists(file', FirstCommands)
      BY <2>1, <2>2, ScriptKnows
    <3> QED BY <2>1, <3>2, <3>3, ScriptStays DEF Running
  <2>3. CASE entries[p] \notin {<<>>, file}
    <3>1. pc' = [pc EXCEPT ![p] = "write"] /\ dir' = dir /\ entries' = entries
      BY <1>5, <2>3 DEF Compare, local
    <3>2. pc'[p] = "write" /\ \A q \in Proc \ {p} : pc'[q] = pc[q]
      BY <1>0, <3>1 DEF ScriptsTyped
    <3>3. alone[p] => Gathered(entries'[p], dir'[p], 0) /\ dir'[p] = Cardinality(Dir) + 1
      BY <2>1, <3>1 DEF DatabaseInv, Undisturbed
    <3> QED BY <2>1, <2>3, <3>1, <3>2, <3>3, ScriptStays
  <2> QED BY <2>2, <2>3
<1>6. ASSUME NEW p \in Proc, Truncate(p) PROVE DatabaseInv'
  <2>1. /\ version' = version /\ health' = health /\ file' = <<>> /\ alone' = alone
        /\ Running(p) /\ pc[p] = "write" /\ dir' = dir /\ entries' = entries
        /\ pc' = [pc EXCEPT ![p] = "store"]
    BY <1>6 DEF Truncate, world, local, Running
  <2>2. pc'[p] = "store" /\ \A q \in Proc \ {p} : pc'[q] = pc[q]
    BY <1>0, <2>1 DEF ScriptsTyped
  <2>3. alone[p] => /\ Gathered(entries'[p], dir'[p], 0) /\ dir'[p] = Cardinality(Dir) + 1
                    /\ entries'[p] # <<>>
    BY <2>1 DEF DatabaseInv, Undisturbed
  <2> QED BY <2>1, <2>2, <2>3, ScriptStays
<1>7. ASSUME NEW p \in Proc, Store(p) PROVE DatabaseInv'
  <2>1. /\ version' = version /\ health' = health /\ alone' = alone
        /\ Running(p) /\ pc[p] = "store" /\ Leave(p, "build")
        /\ file' = entries[p] \o SubSeq(file, Len(entries[p]) + 1, Len(file))
    BY <1>7 DEF Store, world, Running
  <2>2. pc'[p] = "build" /\ \A q \in Proc \ {p} : pc'[q] = pc[q]
    BY <1>0, <2>1 DEF Leave, ScriptsTyped
  <2>3. ASSUME alone[p] PROVE Lists(file', FirstCommands)
    <3>1. entries[p] \in Seq(EntryType) /\ Lists(entries[p], FirstCommands) /\ file = <<>>
      BY <2>1, <2>3, ScriptKnows DEF DatabaseInv, Undisturbed
    <3>2. PICK es \in Seq(EntryType) : es = entries[p]
      BY <3>1
    <3>3. SubSeq(<<>>, Len(es) + 1, Len(<<>>)) = <<>>
      <4>1. Len(es) + 1 \in Int /\ Len(<<>>) \in Int /\ Len(<<>>) < Len(es) + 1
        OBVIOUS
      <4> QED BY <4>1, SubSeqEmpty
    <3>4. es \o <<>> = es
      OBVIOUS
    <3> QED BY <2>1, <3>1, <3>2, <3>3, <3>4
  <2> QED BY <2>1, <2>2, <2>3, ScriptStays DEF Running
<1>8. ASSUME NEW p \in Proc, Kill(p) PROVE DatabaseInv'
  <2>1. version' = version /\ health' = health /\ alone' = alone /\ Running(p) /\ Leave(p, "killed")
    BY <1>8 DEF Kill, world
  <2>2. pc'[p] = "killed" /\ \A q \in Proc \ {p} : pc'[q] = pc[q]
    BY <1>0, <2>1 DEF Leave, ScriptsTyped
  <2> QED BY <2>1, <2>2, ScriptStays DEF Running
<1>9. ASSUME NEW d \in Dir, Edit(d) \/ Break(d) PROVE DatabaseInv'
  <2>1. \A q \in Proc : ~alone'[q]
    BY <1>9 DEF Edit, Break, Disturb
  <2> QED BY <1>0, <2>1 DEF DatabaseInv
<1>10. ASSUME UNCHANGED vars PROVE DatabaseInv'
  <2>1. /\ version' = version /\ health' = health /\ file' = file /\ pc' = pc
        /\ dir' = dir /\ entries' = entries /\ alone' = alone
    BY <1>10 DEF vars, world, local
  <2>2. ASSUME NEW q \in Proc, alone'[q] PROVE Undisturbed(q)'
    <3>1. Undisturbed(q)
      BY <2>1, <2>2 DEF DatabaseInv
    <3>2. \A r \in Proc : Running(r)' <=> Running(r)
      BY <2>1 DEF Running
    <3>3. Running(q)' => Gathered(entries[q], dir[q], 0)'
      BY <2>1, <3>1, <3>2, CommandsStay DEF Undisturbed
    <3>4. FirstCommands' = FirstCommands /\ (UpToDate => UpToDate')
      BY <2>1, CommandsStay DEF UpToDate
    <3> QED BY <2>1, <3>1, <3>2, <3>3, <3>4 DEF Undisturbed
  <2> QED BY <1>0, <2>2 DEF DatabaseInv
<1> QED
  BY <1>1, <1>2, <1>3, <1>4, <1>5, <1>6, <1>7, <1>8, <1>9, <1>10 DEF Next, ScriptStep

\* The types of the file and of every script hold whatever the users do.
THEOREM DatabaseTyped == Spec => []TypeOK
<1>1. DatabaseInv => TypeOK
  BY DEF DatabaseInv, Typed, WorldTyped, ScriptsTyped, TypeOK
<1> QED BY <1>1, DatabaseStarts, DatabaseStep, PTL DEF Spec

\* A make that nothing disturbs leaves the file up to date, whatever was in it before and
\* whatever directories fail, or hang in both calls of make.
THEOREM AlwaysRefreshed == Spec => []RefreshedByMake
<1>1. DatabaseInv => RefreshedByMake
  BY DEF DatabaseInv, Undisturbed, RefreshedByMake
<1> QED BY <1>1, DatabaseStarts, DatabaseStep, PTL DEF Spec

\* It does not write over a file that is up to date, and never replaces it by nothing.
THEOREM AlwaysUntouched == Spec => UntouchedIfUpToDate
<1>1. ASSUME DatabaseInv, [Next]_vars
      PROVE  \A p \in Proc : alone[p] /\ pc[p] = "write" /\ pc'[p] = "store" => ~UpToDate /\ FirstCommands # {}
  <2> SUFFICES ASSUME NEW p \in Proc, alone[p], pc[p] = "write" PROVE ~UpToDate /\ FirstCommands # {}
    OBVIOUS
  <2>1. entries[p] \in Seq(EntryType) /\ Lists(entries[p], FirstCommands)
    BY <1>1, ScriptKnows
  <2>2. entries[p] # <<>> /\ entries[p] # file /\ file \in Seq(EntryType) /\ WorldTyped
    BY <1>1 DEF DatabaseInv, Undisturbed, Typed
  <2>3. ~UpToDate
    BY <2>1, <2>2, SameList DEF UpToDate
  <2>4. FirstCommands # {}
    <3>1. PICK i : i \in DOMAIN entries[p]
      BY <2>1, <2>2
    <3> QED BY <2>1, <3>1 DEF Lists
  <2> QED BY <2>3, <2>4
<1> QED BY <1>1, DatabaseStarts, DatabaseStep, PTL DEF Spec, UntouchedIfUpToDate
=============================================================================
