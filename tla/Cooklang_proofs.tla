--------------------------- MODULE Cooklang_proofs ---------------------------
(***************************************************************************)
(* Whatever document is read, the actions the parser builds are what        *)
(* constructing a recipe asks for (ReadingIsSound), and what is printed of   *)
(* them reads as the same recipe again (PrintedReadsBack) and prints as the  *)
(* same text (PrintedIsPrintedAgain).                                       *)
(*                                                                         *)
(* The invariant of the first result adds to the property the same of the   *)
(* step being scanned: a name stands for an earlier step, and what a chunk  *)
(* refers to is on its list before the chunk is.                            *)
(*                                                                         *)
(* The other two rest on a trace (Trace): the scans a step went through     *)
(* while it was read, each beside the text that is printed of it.  From one *)
(* to the next the text grows by a lexeme that opens no token, or by a token *)
(* that takes the first scan to the second.  What opens no token where it   *)
(* was read must open none where it is printed: a sigil without a group     *)
(* behind it has none in the printed text either (Open, Settled), and the   *)
(* leftmost arrow of a printed step is the one it was printed with: the     *)
(* words and arrows its text ends in ended the step that was read (Ends,     *)
(* FitsName).  In the second round the trace is followed entry by entry      *)
(* (Reread).                                                                *)
(***************************************************************************)
EXTENDS Cooklang, TLAPS, SequenceTheorems, NaturalsInduction, WellFoundedInduction

ChunkIsSound(c, a) ==
  /\ c.kind = "state" => \E k \in DOMAIN a.uses : a.uses[k] = c.ref
  /\ c.kind = "timer" => c.ref \in Nat /\ c.ref < Len(a.timers)
  /\ c.kind = "ingredient" => \E k \in DOMAIN a.ingredients : a.ingredients[k].id = c.ref

(* An action, or a scan, that may use the first n steps.                    *)
IsSound(a, n) ==
  /\ \A j \in DOMAIN a.uses : a.uses[j] \in 1..n
  /\ \A j, k \in DOMAIN a.uses : a.uses[j] = a.uses[k] => j = k
  /\ \A j \in DOMAIN a.chunks : ChunkIsSound(a.chunks[j], a)

AllSound(as) == \A i \in DOMAIN as : IsSound(as[i], i - 1)

Lists(s) == IsList(s.uses) /\ IsList(s.chunks) /\ IsList(s.timers) /\ IsList(s.ingredients)

CInv ==
  /\ AllSound(actions)
  /\ DOMAIN scan = DOMAIN NotScanned /\ Lists(scan) /\ IsSound(scan, Len(actions))
  /\ phase # "print" => IsList(actions) /\ \A n \in DOMAIN names : names[n] \in 1..Len(actions)

-----------------------------------------------------------------------------
LEMMA AppendToList ==
  ASSUME NEW l, IsList(l), NEW x
  PROVE  LET m == Append(l, x) IN
         /\ IsList(m) /\ Len(l) \in Nat /\ Len(m) = Len(l) + 1
         /\ DOMAIN l = 1..Len(l) /\ DOMAIN m = 1..(Len(l) + 1)
         /\ m[Len(l) + 1] = x /\ \A i \in DOMAIN l : m[i] = l[i]
<1> DEFINE S == {l[i] : i \in DOMAIN l}
           m == Append(l, x)
<1>1. l \in Seq(S)
  BY DEF IsList
<1> HIDE DEF S
<1>2. /\ m \in Seq(S \cup {x}) /\ Len(l) \in Nat /\ Len(m) = Len(l) + 1
      /\ DOMAIN l = 1..Len(l) /\ DOMAIN m = 1..(Len(l) + 1)
      /\ m[Len(l) + 1] = x /\ \A i \in DOMAIN l : m[i] = l[i]
  BY <1>1
<1>3. m \in Seq({m[i] : i \in DOMAIN m})
  <2> DEFINE R == {m[i] : i \in DOMAIN m}
  <2>1. \A i \in 1..Len(m) : m[i] \in R
    BY <1>2
  <2> HIDE DEF R, m
  <2>2. m = [i \in 1..Len(m) |-> m[i]] /\ Len(m) \in Nat
    BY <1>2
  <2> QED
    BY <2>1, <2>2 DEF R
<1> QED
  BY <1>2, <1>3 DEF IsList

LEMMA EmptyIsList == IsList(<<>>)
  BY DEF IsList

LEMMA NotScannedIsSound ==
  ASSUME NEW n
  PROVE  Lists(NotScanned) /\ IsSound(NotScanned, n)
  BY EmptyIsList DEF NotScanned, Lists, IsSound

(* Ending a literal adds a chunk that refers to nothing.                    *)
LEMMA FlushKeeps ==
  ASSUME Lists(scan), NEW n, IsSound(scan, n)
  PROVE  IsList(Flushed) /\ \A j \in DOMAIN Flushed : ChunkIsSound(Flushed[j], scan)
<1>1. CASE scan.literal = <<>>
  BY <1>1 DEF Flushed, Lists, IsSound
<1>2. CASE scan.literal # <<>>
  <2>1. ChunkIsSound(Literal(scan.literal), scan)
    BY DEF ChunkIsSound, Literal
  <2>2. Flushed = Append(scan.chunks, Literal(scan.literal))
    BY <1>2 DEF Flushed
  <2>3. \A j \in DOMAIN scan.chunks : ChunkIsSound(scan.chunks[j], scan)
    BY DEF IsSound
  <2>4. IsList(scan.chunks)
    BY DEF Lists
  <2> DEFINE new == Literal(scan.literal)
  <2> HIDE DEF new
  <2>5. /\ IsList(Append(scan.chunks, new)) /\ Len(scan.chunks) \in Nat
        /\ DOMAIN scan.chunks = 1..Len(scan.chunks)
        /\ DOMAIN Append(scan.chunks, new) = 1..(Len(scan.chunks) + 1)
        /\ Append(scan.chunks, new)[Len(scan.chunks) + 1] = new
        /\ \A j \in DOMAIN scan.chunks : Append(scan.chunks, new)[j] = scan.chunks[j]
    BY <2>4, AppendToList
  <2>6. \A j \in DOMAIN Append(scan.chunks, new) : j = Len(scan.chunks) + 1 \/ j \in DOMAIN scan.chunks
    BY <2>5
  <2>7. ASSUME NEW j \in DOMAIN Append(scan.chunks, new)
        PROVE  ChunkIsSound(Append(scan.chunks, new)[j], scan)
    BY <2>1, <2>3, <2>5, <2>6, <2>7 DEF new
  <2> QED
    BY <2>2, <2>5, <2>7 DEF new
<1> QED
  BY <1>1, <1>2

(* What a scan consists of.                                                *)
Fields == {"literal", "chunks", "ingredients", "cookware", "timers", "temperatures", "uses", "counter"}

(* A token: s is the scan with what the token adds to a list.               *)
LEMMA TookKeeps ==
  ASSUME CInv, phase = "read", NEW chunk, NEW s, NEW error, Took(chunk, s, error),
         DOMAIN s = DOMAIN scan,
         IsList(s.uses), IsList(s.timers), IsList(s.ingredients),
         \A j \in DOMAIN s.uses : s.uses[j] \in 1..Len(actions),
         \A j, k \in DOMAIN s.uses : s.uses[j] = s.uses[k] => j = k,
         \A c : ChunkIsSound(c, scan) => ChunkIsSound(c, s),
         ChunkIsSound(chunk, s)
  PROVE  CInv'
<1>1. UNCHANGED <<actions, names>>
  BY DEF Took
<1>2. phase' # "print"
  BY DEF Took
<1>3. CASE error
  <2>1. scan' = scan
    BY <1>3 DEF Took
  <2> QED
    BY <1>1, <1>2, <2>1 DEF CInv
<1>4. CASE ~error
  <2> DEFINE chunks == Append(Flushed, chunk)
             t == [s EXCEPT !.literal = <<>>, !.chunks = chunks]
  <2>1. scan' = t
    BY <1>4 DEF Took
  <2>2. DOMAIN s = Fields
    BY DEF CInv, NotScanned, Fields
  <2>3. /\ DOMAIN t = Fields /\ t.chunks = chunks
        /\ t.uses = s.uses /\ t.timers = s.timers /\ t.ingredients = s.ingredients
    BY <2>2 DEF Fields
  <2> HIDE DEF t
  <2>4. \A c : ChunkIsSound(c, s) => ChunkIsSound(c, t)
    BY <2>3 DEF ChunkIsSound
  <2>5. IsList(Flushed) /\ \A j \in DOMAIN Flushed : ChunkIsSound(Flushed[j], scan)
    BY FlushKeeps DEF CInv
  <2>6. /\ IsList(chunks) /\ DOMAIN Flushed = 1..Len(Flushed) /\ Len(Flushed) \in Nat
        /\ DOMAIN chunks = 1..(Len(Flushed) + 1) /\ chunks[Len(Flushed) + 1] = chunk
        /\ \A j \in DOMAIN Flushed : chunks[j] = Flushed[j]
    BY <2>5, AppendToList
  <2> HIDE DEF chunks
  <2>7. \A j \in DOMAIN chunks : j = Len(Flushed) + 1 \/ j \in DOMAIN Flushed
    BY <2>6
  <2>8. \A j \in DOMAIN chunks : ChunkIsSound(chunks[j], t)
    BY <2>4, <2>5, <2>6, <2>7
  <2>9. IsSound(t, Len(actions)) /\ Lists(t)
    BY <2>3, <2>6, <2>8 DEF IsSound, Lists
  <2>10. DOMAIN t = DOMAIN NotScanned
    BY <2>2, <2>3 DEF CInv
  <2> QED
    BY <1>1, <1>2, <2>1, <2>9, <2>10 DEF CInv
<1> QED
  BY <1>3, <1>4

LEMMA ReadStateKeeps == ASSUME CInv, ReadState PROVE CInv'
<1> DEFINE st == names[BodyAt.words]
           s == [scan EXCEPT !.uses = Used(@, st)]
<1>1. phase = "read" /\ IsList(actions) /\ Took(Chunk("state", st), s, FALSE)
  BY DEF ReadState, Token, Reading, CInv
<1>2. st \in 1..Len(actions)
  <2>1. BodyAt.words \in DOMAIN names
    BY DEF ReadState, Token, IsToken
  <2> QED
    BY <1>1, <2>1 DEF CInv
<1> HIDE DEF st
<1>3. DOMAIN scan = Fields /\ Lists(scan) /\ IsSound(scan, Len(actions))
  BY DEF CInv, NotScanned, Fields
<1>4. /\ DOMAIN s = DOMAIN scan /\ s.timers = scan.timers /\ s.ingredients = scan.ingredients
      /\ s.uses = Used(scan.uses, st)
  BY <1>3 DEF Fields
<1> HIDE DEF s
<1> DEFINE old == scan.uses
           new == s.uses
<1>5. IsList(old) /\ \A j \in DOMAIN old : old[j] \in 1..Len(actions)
  BY <1>3 DEF Lists, IsSound
<1>6. \A j, k \in DOMAIN old : old[j] = old[k] => j = k
  BY <1>3 DEF IsSound
<1>7. /\ IsList(new) /\ \A j \in DOMAIN new : new[j] \in 1..Len(actions)
      /\ \A j, k \in DOMAIN new : new[j] = new[k] => j = k
      /\ \E k \in DOMAIN new : new[k] = st
      /\ \A j \in DOMAIN old : j \in DOMAIN new /\ new[j] = old[j]
  <2>1. CASE \E i \in DOMAIN old : old[i] = st
    <3>1. new = old
      BY <1>4, <2>1 DEF Used
    <3> HIDE DEF old, new
    <3> QED
      BY <1>5, <1>6, <2>1, <3>1
  <2>2. CASE \A i \in DOMAIN old : old[i] # st
    <3>1. new = Append(old, st)
      BY <1>4, <2>2 DEF Used
    <3> HIDE DEF old, new
    <3>2. /\ IsList(new) /\ Len(old) \in Nat /\ DOMAIN old = 1..Len(old) /\ DOMAIN new = 1..(Len(old) + 1)
          /\ new[Len(old) + 1] = st /\ \A i \in DOMAIN old : new[i] = old[i]
      BY <1>5, <3>1, AppendToList
    <3>3. /\ \A j \in DOMAIN new : j = Len(old) + 1 \/ j \in DOMAIN old
          /\ \A j \in DOMAIN old : j \in DOMAIN new
          /\ Len(old) + 1 \in DOMAIN new
      BY <3>2
    <3> QED
      BY <1>2, <1>5, <1>6, <2>2, <3>2, <3>3
  <2> QED
    BY <2>1, <2>2
<1>8. ChunkIsSound(Chunk("state", st), s)
  BY <1>7 DEF ChunkIsSound, Chunk
<1>9. \A c : ChunkIsSound(c, scan) => ChunkIsSound(c, s)
  BY <1>4, <1>7 DEF ChunkIsSound
<1> QED
  BY <1>1, <1>3, <1>4, <1>7, <1>8, <1>9, TookKeeps DEF Lists

LEMMA ReadIngredientKeeps == ASSUME CInv, ReadIngredient PROVE CInv'
<1> DEFINE id == scan.counter + 1
           q  == ParseQuantity(BodyAt, Text[at].invariant)
           use == [id |-> id, name |-> Between(at), quantity |-> q.specs, optional |-> Text[at].optional]
           s == [scan EXCEPT !.counter = id, !.ingredients = Append(@, use)]
<1>1. phase = "read" /\ Took(Chunk("ingredient", id), s, q.error)
  BY DEF ReadIngredient, Token, Reading
<1>2. use.id = id
  OBVIOUS
<1> HIDE DEF id, q, use
<1>3. DOMAIN scan = Fields /\ Lists(scan) /\ IsSound(scan, Len(actions))
  BY DEF CInv, NotScanned, Fields
<1>4. /\ DOMAIN s = DOMAIN scan /\ s.timers = scan.timers /\ s.uses = scan.uses
      /\ s.ingredients = Append(scan.ingredients, use)
  BY <1>3 DEF Fields
<1> HIDE DEF s
<1> DEFINE old == scan.ingredients
           new == s.ingredients
<1>5. IsList(old)
  BY <1>3 DEF Lists
<1>6. new = Append(old, use)
  BY <1>4
<1> HIDE DEF old, new
<1>7. /\ IsList(new) /\ Len(old) \in Nat /\ DOMAIN old = 1..Len(old) /\ DOMAIN new = 1..(Len(old) + 1)
      /\ new[Len(old) + 1] = use /\ \A i \in DOMAIN old : new[i] = old[i]
  BY <1>5, <1>6, AppendToList
<1>8. (\A j \in DOMAIN old : j \in DOMAIN new) /\ Len(old) + 1 \in DOMAIN new
  BY <1>7
<1>9. ChunkIsSound(Chunk("ingredient", id), s)
  BY <1>2, <1>7, <1>8 DEF ChunkIsSound, Chunk, new
<1>10. \A c : ChunkIsSound(c, scan) => ChunkIsSound(c, s)
  BY <1>4, <1>7, <1>8 DEF ChunkIsSound, old, new
<1>11. IsList(s.uses) /\ IsList(s.timers) /\ IsList(s.ingredients)
  BY <1>3, <1>4, <1>7 DEF Lists, new
<1>12. /\ \A j \in DOMAIN s.uses : s.uses[j] \in 1..Len(actions)
       /\ \A j, k \in DOMAIN s.uses : s.uses[j] = s.uses[k] => j = k
  BY <1>3, <1>4 DEF IsSound
<1> QED
  BY <1>1, <1>4, <1>9, <1>10, <1>11, <1>12, TookKeeps

LEMMA ReadTimerKeeps == ASSUME CInv, ReadTimer PROVE CInv'
<1> DEFINE q    == ParseQuantity(BodyAt, FALSE)
           time == IF q.specs = <<>> THEN NoTime ELSE q.specs[1].quantity
           timer == [name |-> Between(at), quantity |-> time]
           bad  == q.error \/ time.kind \notin {"scalar", "range"}
           s == [scan EXCEPT !.timers = Append(@, timer)]
<1>1. phase = "read" /\ Took(Chunk("timer", Len(scan.timers)), s, bad)
  BY DEF ReadTimer, Token, Reading
<1> HIDE DEF q, time, timer, bad
<1>3. DOMAIN scan = Fields /\ Lists(scan) /\ IsSound(scan, Len(actions))
  BY DEF CInv, NotScanned, Fields
<1>4. /\ DOMAIN s = DOMAIN scan /\ s.ingredients = scan.ingredients /\ s.uses = scan.uses
      /\ s.timers = Append(scan.timers, timer)
  BY <1>3 DEF Fields
<1> HIDE DEF s
<1>5. IsList(scan.timers)
  BY <1>3 DEF Lists
<1>6. IsList(s.timers) /\ Len(scan.timers) \in Nat /\ Len(s.timers) = Len(scan.timers) + 1
  BY <1>4, <1>5, AppendToList
<1>9. ChunkIsSound(Chunk("timer", Len(scan.timers)), s)
  BY <1>6 DEF ChunkIsSound, Chunk
<1>10. \A c : ChunkIsSound(c, scan) => ChunkIsSound(c, s)
  BY <1>4, <1>6 DEF ChunkIsSound
<1>11. IsList(s.uses) /\ IsList(s.ingredients)
  BY <1>3, <1>4 DEF Lists
<1>12. /\ \A j \in DOMAIN s.uses : s.uses[j] \in 1..Len(actions)
       /\ \A j, k \in DOMAIN s.uses : s.uses[j] = s.uses[k] => j = k
  BY <1>3, <1>4 DEF IsSound
<1> QED
  BY <1>1, <1>4, <1>6, <1>9, <1>10, <1>11, <1>12, TookKeeps

(* Cookware and temperatures: what the property is about stays as it is.    *)
LEMMA OtherTokensKeep ==
  ASSUME CInv, ReadCookware \/ ReadTemperature PROVE CInv'
<1>1. DOMAIN scan = Fields /\ Lists(scan) /\ IsSound(scan, Len(actions))
  BY DEF CInv, NotScanned, Fields
<1>2. ASSUME NEW chunk, NEW s, NEW error, Took(chunk, s, error), phase = "read",
             chunk.kind \in {"cookware", "temperature"}, DOMAIN s = DOMAIN scan,
             s.uses = scan.uses, s.timers = scan.timers, s.ingredients = scan.ingredients
      PROVE  CInv'
  <2>1. ChunkIsSound(chunk, s) /\ \A c : ChunkIsSound(c, scan) => ChunkIsSound(c, s)
    BY <1>2 DEF ChunkIsSound
  <2>2. IsList(s.uses) /\ IsList(s.timers) /\ IsList(s.ingredients)
    BY <1>1, <1>2 DEF Lists
  <2>3. /\ \A j \in DOMAIN s.uses : s.uses[j] \in 1..Len(actions)
        /\ \A j, k \in DOMAIN s.uses : s.uses[j] = s.uses[k] => j = k
    BY <1>1, <1>2 DEF IsSound
  <2> QED
    BY <1>2, <2>1, <2>2, <2>3, TookKeeps
<1>3. CASE ReadCookware
  <2> DEFINE id   == scan.counter + 1
             item == [id |-> id, name |-> Between(at), quantity |-> BodyAt]
             good == BodyAt.kind = "empty" \/ (BodyAt.kind = "number" /\ BodyAt.unit = "")
             s    == [scan EXCEPT !.counter = id, !.cookware = Append(@, item)]
  <2>1. phase = "read" /\ Took(Chunk("cookware", id), s, ~good)
    BY <1>3 DEF ReadCookware, Token, Reading
  <2> HIDE DEF id, item, good
  <2>2. /\ DOMAIN s = DOMAIN scan /\ s.uses = scan.uses /\ s.timers = scan.timers
        /\ s.ingredients = scan.ingredients /\ Chunk("cookware", id).kind = "cookware"
    BY <1>1 DEF Fields, Chunk
  <2> HIDE DEF s
  <2> QED
    BY <1>2, <2>1, <2>2
<1>4. CASE ReadTemperature
  <2> DEFINE unit == IF BodyAt.unit = "" THEN "C" ELSE BodyAt.unit
             heat == [value |-> BodyAt.low, unit |-> unit]
             bad  == BodyAt.kind # "number" \/ unit \notin {"C", "F"}
             s    == [scan EXCEPT !.temperatures = Append(@, heat)]
             ref  == Len(scan.temperatures)
  <2>1. phase = "read" /\ Took(Chunk("temperature", ref), s, bad)
    BY <1>4 DEF ReadTemperature, Token, Reading
  <2> HIDE DEF unit, heat, bad, ref
  <2>2. /\ DOMAIN s = DOMAIN scan /\ s.uses = scan.uses /\ s.timers = scan.timers
        /\ s.ingredients = scan.ingredients /\ Chunk("temperature", ref).kind = "temperature"
    BY <1>1 DEF Fields, Chunk
  <2> HIDE DEF s
  <2> QED
    BY <1>2, <2>1, <2>2
<1> QED
  BY <1>3, <1>4

LEMMA ReadLiteralKeeps == ASSUME CInv, ReadLiteral PROVE CInv'
<1>1. /\ UNCHANGED <<actions, names, phase>>
      /\ scan' = [scan EXCEPT !.literal = Append(@, Text[at])]
  BY DEF ReadLiteral
<1>2. DOMAIN scan = Fields
  BY DEF CInv, NotScanned, Fields
<1>3. /\ DOMAIN scan' = DOMAIN scan /\ scan'.uses = scan.uses /\ scan'.timers = scan.timers
      /\ scan'.ingredients = scan.ingredients /\ scan'.chunks = scan.chunks
  BY <1>1, <1>2 DEF Fields
<1>4. Lists(scan') /\ IsSound(scan', Len(actions))
  BY <1>3 DEF CInv, Lists, IsSound, ChunkIsSound
<1> QED
  BY <1>1, <1>3, <1>4 DEF CInv

(* A step ends: what was scanned becomes an action, and a name stands for it. *)
LEMMA EndStepKeeps == ASSUME CInv, EndStep PROVE CInv'
<1> DEFINE t == document[Len(actions) + 1]
           name == Produced(t)
           here == Len(actions) + 1
           a == [name |-> name, uses |-> scan.uses, ingredients |-> scan.ingredients,
                 cookware |-> scan.cookware, timers |-> scan.timers,
                 temperatures |-> scan.temperatures, chunks |-> Flushed]
<1>1. /\ phase = "read" /\ phase' = phase /\ scan' = NotScanned
      /\ actions' = Append(actions, a)
      /\ names' = [n \in DOMAIN names \cup {name[i] : i \in DOMAIN name} |->
                     IF name # <<>> /\ n = name[1] THEN here ELSE names[n]]
  BY DEF EndStep, Reading
<1>2. IsList(actions) /\ \A n \in DOMAIN names : names[n] \in 1..Len(actions)
  BY <1>1 DEF CInv
<1>3. IsSound(a, Len(actions))
  <2>1. IsList(Flushed) /\ \A j \in DOMAIN Flushed : ChunkIsSound(Flushed[j], scan)
    BY FlushKeeps DEF CInv
  <2>2. /\ a.uses = scan.uses /\ a.timers = scan.timers /\ a.ingredients = scan.ingredients
        /\ a.chunks = Flushed
    OBVIOUS
  <2> HIDE DEF a
  <2> QED
    BY <2>1, <2>2 DEF CInv, IsSound, ChunkIsSound
<1> HIDE DEF a
<1>4. /\ IsList(actions') /\ Len(actions) \in Nat /\ Len(actions') = Len(actions) + 1
      /\ DOMAIN actions = 1..Len(actions) /\ DOMAIN actions' = 1..(Len(actions) + 1)
      /\ actions'[Len(actions) + 1] = a /\ \A i \in DOMAIN actions : actions'[i] = actions[i]
  BY <1>1, <1>2, AppendToList
<1>5. AllSound(actions')
  <2> SUFFICES ASSUME NEW i \in DOMAIN actions' PROVE IsSound(actions'[i], i - 1)
    BY DEF AllSound
  <2>1. CASE i = Len(actions) + 1
    <3>1. i - 1 = Len(actions)
      BY <1>4, <2>1
    <3> QED
      BY <1>3, <1>4, <2>1, <3>1
  <2>2. CASE i # Len(actions) + 1
    <3>1. i \in DOMAIN actions
      BY <1>4, <2>2
    <3> QED
      BY <1>4, <3>1 DEF CInv, AllSound
  <2> QED
    BY <2>1, <2>2
<1>6. ASSUME NEW n \in DOMAIN names' PROVE names'[n] \in 1..Len(actions')
  <2>1. here \in 1..Len(actions')
    BY <1>4
  <2>2. \A k \in 1..Len(actions) : k \in 1..Len(actions')
    BY <1>4
  <2>3. DOMAIN name \subseteq {1}
    <3> DEFINE w == SubSeq(t, Arrow(t) + 1, Len(t))
    <3>1. name = <<w>> \/ name = <<>>
      BY Zenon DEF Produced
    <3> HIDE DEF w
    <3>2. DOMAIN <<w>> = {1} /\ DOMAIN <<>> = {}
      OBVIOUS
    <3> QED
      BY <3>1, <3>2
  <2> HIDE DEF name, here
  <2>4. CASE name # <<>> /\ n = name[1]
    BY <1>1, <1>6, <2>1, <2>4
  <2>5. CASE ~(name # <<>> /\ n = name[1])
    <3>1. n \in DOMAIN names /\ names'[n] = names[n]
      <4>1. name = <<>> \/ n # name[1]
        BY <2>5
      <4>2. name = <<>> => DOMAIN name = {}
        OBVIOUS
      <4>3. n \notin {name[i] : i \in DOMAIN name}
        BY <2>3, <4>1, <4>2
      <4> QED
        BY <1>1, <1>6, <2>5, <4>3
    <3> QED
      BY <1>2, <2>2, <3>1
  <2> QED
    BY <2>4, <2>5
<1>7. DOMAIN scan' = DOMAIN NotScanned /\ Lists(scan') /\ IsSound(scan', Len(actions'))
  BY <1>1, NotScannedIsSound
<1> QED
  BY <1>1, <1>4, <1>5, <1>6, <1>7 DEF CInv

LEMMA BoundariesKeep ==
  ASSUME CInv, EndDocument \/ PrintCook \/ UNCHANGED cvars PROVE CInv'
<1>1. CASE EndDocument
  BY <1>1 DEF EndDocument, CInv
<1>2. CASE PrintCook
  <2>1. actions' = <<>> /\ names' = <<>> /\ scan' = NotScanned
    BY <1>2 DEF PrintCook
  <2> QED
    BY <2>1, EmptyIsList, NotScannedIsSound DEF CInv, AllSound
<1>3. CASE UNCHANGED cvars
  BY <1>3 DEF cvars, CInv
<1> QED
  BY <1>1, <1>2, <1>3

LEMMA ReadingBegins == ASSUME \A as \in Authored : AllSound(as), CInit PROVE CInv
<1>1. scan = NotScanned /\ names = <<>>
  BY DEF CInit
<1>2. AllSound(actions) /\ (phase # "print" => actions = <<>>)
  BY DEF CInit, AllSound
<1> QED
  BY <1>1, <1>2, EmptyIsList, NotScannedIsSound DEF CInv

LEMMA ReadingStep == ASSUME CInv, [CNext]_cvars PROVE CInv'
  BY ReadStateKeeps, ReadIngredientKeeps, ReadTimerKeeps, OtherTokensKeep, ReadLiteralKeeps,
     EndStepKeeps, BoundariesKeep DEF CNext

(* Where every recipe that did not come from a document is sound, so is      *)
(* every recipe that is read, and every recipe that is read back: a step     *)
(* uses earlier steps only, and its prose refers to what it has.             *)
THEOREM ReadingIsSound ==
  ASSUME \A as \in Authored : AllSound(as)
  PROVE  CSpec => []ActionsAreSound
<1>1. CInit => CInv
  BY ReadingBegins
<1>2. CInv /\ [CNext]_cvars => CInv'
  BY ReadingStep
<1>3. CInv => ActionsAreSound
  BY DEF CInv, AllSound, IsSound, ChunkIsSound, ActionsAreSound
<1> QED
  BY <1>1, <1>2, <1>3, PTL DEF CSpec

-----------------------------------------------------------------------------
(* Lists: their elements, joining them, and the texts Concat joins.         *)
LEMMA LeastOf == ASSUME NEW T \in SUBSET Nat, T # {} PROVE \E x \in T : \A y \in T : x =< y
<1>1. PICK x \in T : \A y \in T : ~(<<y, x>> \in OpToRel(<, Nat))
  BY NatLessThanWellFounded, WFMin, Zenon
<1>2. \A y \in T : ~(y < x)
  BY <1>1, Zenon DEF OpToRel
<1> QED
  BY <1>2

LEMMA ListFacts ==
  ASSUME NEW l, IsList(l)
  PROVE  Len(l) \in Nat /\ DOMAIN l = 1..Len(l) /\ l = [i \in 1..Len(l) |-> l[i]]
  BY DEF IsList

LEMMA IsAList ==
  ASSUME NEW n \in Nat, NEW f, f = [i \in 1..n |-> f[i]]
  PROVE  IsList(f) /\ Len(f) = n
<1> DEFINE S == {f[i] : i \in DOMAIN f}
<1>1. DOMAIN f = 1..n
  OBVIOUS
<1>2. \A i \in 1..n : f[i] \in S
  BY <1>1
<1> HIDE DEF S
<1>3. f \in Seq(S) /\ Len(f) = n
  BY <1>2
<1> QED
  BY <1>3 DEF IsList, S

LEMMA EqualLists ==
  ASSUME NEW l, NEW m, IsList(l), IsList(m), Len(l) = Len(m), \A i \in 1..Len(l) : l[i] = m[i]
  PROVE  l = m
<1>1. l = [i \in 1..Len(l) |-> l[i]] /\ m = [i \in 1..Len(m) |-> m[i]]
  BY ListFacts
<1> QED
  BY <1>1

LEMMA JoinedLists ==
  ASSUME NEW l, NEW m, IsList(l), IsList(m)
  PROVE  /\ IsList(l \o m) /\ Len(l \o m) = Len(l) + Len(m)
         /\ \A i \in 1..Len(l) : (l \o m)[i] = l[i]
         /\ \A i \in 1..Len(m) : (l \o m)[Len(l) + i] = m[i]
<1> DEFINE S == {l[i] : i \in DOMAIN l} \cup {m[i] : i \in DOMAIN m}
           j == l \o m
<1>1. l \in Seq(S) /\ m \in Seq(S)
  <2>1. l \in Seq({l[i] : i \in DOMAIN l}) /\ m \in Seq({m[i] : i \in DOMAIN m})
    BY DEF IsList
  <2> QED
    BY <2>1, SeqMonotonic, Zenon
<1> HIDE DEF S
<1>2. /\ j \in Seq(S) /\ Len(j) = Len(l) + Len(m) /\ Len(l) \in Nat /\ Len(m) \in Nat
      /\ \A i \in 1..Len(l) : j[i] = l[i]
      /\ \A i \in 1..Len(m) : j[Len(l) + i] = m[i]
  BY <1>1
<1> HIDE DEF j
<1>3. j = [i \in 1..Len(j) |-> j[i]] /\ Len(j) \in Nat
  BY <1>2
<1>4. IsList(j)
  BY <1>3, IsAList
<1> QED
  BY <1>2, <1>4 DEF j

LEMMA SubLists ==
  ASSUME NEW l, IsList(l), NEW a \in Nat, NEW b \in Nat, 1 =< a, b =< Len(l), a =< b + 1
  PROVE  /\ IsList(SubSeq(l, a, b)) /\ Len(SubSeq(l, a, b)) = b + 1 - a
         /\ \A i \in 1..(b + 1 - a) : SubSeq(l, a, b)[i] = l[a + i - 1]
<1> DEFINE j == SubSeq(l, a, b)
           S == {l[i] : i \in DOMAIN l}
<1>1. l \in Seq(S)
  BY DEF IsList
<1> HIDE DEF S
<1>2. /\ j \in Seq(S) /\ Len(j) = b + 1 - a /\ \A i \in 1..(b + 1 - a) : j[i] = l[a + i - 1]
  BY <1>1
<1> HIDE DEF j
<1>3. j = [i \in 1..Len(j) |-> j[i]] /\ Len(j) \in Nat
  BY <1>2
<1>4. IsList(j)
  BY <1>3, IsAList
<1> QED
  BY <1>2, <1>4 DEF j

LEMMA FrontOf ==
  ASSUME NEW d, IsList(d), NEW k \in Nat, k =< Len(d)
  PROVE  IsList(SubSeq(d, 1, k)) /\ Len(SubSeq(d, 1, k)) = k /\ \A p \in 1..k : SubSeq(d, 1, k)[p] = d[p]
<1> DEFINE s == SubSeq(d, 1, k)
<1>1. 1 \in Nat /\ 1 =< 1 /\ 1 =< k + 1 /\ k + 1 - 1 = k /\ \A p \in 1..k : 1 + p - 1 = p
  OBVIOUS
<1>2. IsList(s) /\ Len(s) = k + 1 - 1 /\ \A p \in 1..(k + 1 - 1) : s[p] = d[1 + p - 1]
  BY <1>1, SubLists
<1> HIDE DEF s
<1>3. IsList(s) /\ Len(s) = k /\ \A p \in 1..k : s[p] = d[p]
  BY <1>1, <1>2
<1> QED
  BY <1>3 DEF s

LEMMA BackOf ==
  ASSUME NEW d, IsList(d), NEW k \in Nat, k =< Len(d)
  PROVE  LET s == SubSeq(d, k + 1, Len(d)) IN
         IsList(s) /\ Len(s) = Len(d) - k /\ \A p \in 1..(Len(d) - k) : s[p] = d[k + p]
<1> DEFINE c == k + 1
           h == Len(d)
           s == SubSeq(d, c, h)
<1>1. /\ c \in Nat /\ h \in Nat /\ 1 =< c /\ h =< Len(d) /\ c =< h + 1 /\ h + 1 - c = h - k
      /\ \A p \in 1..(h - k) : c + p - 1 = k + p
  BY ListFacts
<1> HIDE DEF c, h
<1>2. IsList(s) /\ Len(s) = h + 1 - c /\ \A p \in 1..(h + 1 - c) : s[p] = d[c + p - 1]
  BY <1>1, SubLists
<1> HIDE DEF s
<1>3. IsList(s) /\ Len(s) = h - k /\ \A p \in 1..(h - k) : s[p] = d[k + p]
  BY <1>1, <1>2
<1> QED
  BY <1>3 DEF s, c, h

LEMMA OneIsList == ASSUME NEW x PROVE IsList(<<x>>) /\ Len(<<x>>) = 1 /\ <<x>>[1] = x
  BY DEF IsList

LEMMA EmptyList == ASSUME NEW l, IsList(l) PROVE l = <<>> <=> Len(l) = 0
<1>1. l = [i \in 1..Len(l) |-> l[i]] /\ Len(l) \in Nat
  BY ListFacts
<1>2. IsList(<<>>) /\ Len(<<>>) = 0
  BY EmptyIsList
<1>3. ASSUME Len(l) = 0 PROVE l = <<>>
  BY <1>2, <1>3, EqualLists
<1> QED
  BY <1>2, <1>3

(* The recursion Concat is defined by.                                     *)
Joins(f, list, n) == f = [k \in 0..n |-> IF k = 0 THEN <<>> ELSE f[k - 1] \o list[k]]

LEMMA JoinsExist ==
  ASSUME NEW list
  PROVE  \A n \in Nat : \E f : Joins(f, list, n)
<1> DEFINE wrong == {n \in Nat : ~\E f : Joins(f, list, n)}
<1> SUFFICES ASSUME wrong # {} PROVE FALSE
  OBVIOUS
<1>1. PICK n \in wrong : \A y \in wrong : n =< y
  BY LeastOf
<1>2. n \in Nat /\ ~\E f : Joins(f, list, n)
  OBVIOUS
<1>3. CASE n = 0
  <2> DEFINE f == [k \in 0..n |-> <<>>]
  <2>1. f = [k \in 0..n |-> IF k = 0 THEN <<>> ELSE f[k - 1] \o list[k]]
    BY <1>3
  <2> QED
    BY <1>2, <2>1, Zenon DEF Joins
<1>4. CASE n # 0
  <2>1. n - 1 \in Nat /\ n - 1 \notin wrong
    BY <1>1, <1>2, <1>4
  <2>2. PICK f : Joins(f, list, n - 1)
    BY <2>1
  <2> DEFINE j == f[n - 1] \o list[n]
             g == [k \in 0..n |-> IF k = n THEN j ELSE f[k]]
  <2> HIDE DEF j
  <2>3. \A k \in 0..(n - 1) : f[k] = IF k = 0 THEN <<>> ELSE f[k - 1] \o list[k]
    BY <2>2, Zenon DEF Joins
  <2>4. ASSUME NEW k \in 0..n PROVE g[k] = IF k = 0 THEN <<>> ELSE g[k - 1] \o list[k]
    <3>1. CASE k = n
      <4>1. n - 1 \in 0..n /\ n - 1 # n
        BY <1>2, <1>4, <2>1
      <4>2. g[n - 1] = f[n - 1] /\ g[k] = j
        BY <3>1, <4>1
      <4> QED
        BY <1>4, <3>1, <4>2 DEF j
    <3>2. CASE k # n
      <4>1. k \in 0..(n - 1)
        BY <1>2, <3>2
      <4>2. g[k] = f[k] /\ f[k] = IF k = 0 THEN <<>> ELSE f[k - 1] \o list[k]
        BY <2>3, <3>2, <4>1
      <4>3. CASE k = 0
        BY <4>2, <4>3
      <4>4. CASE k # 0
        <5>1. k - 1 \in 0..n /\ k - 1 # n
          BY <1>2, <4>1, <4>4
        <5>2. g[k - 1] = f[k - 1]
          BY <5>1
        <5> QED
          BY <4>2, <4>4, <5>2
      <4> QED
        BY <4>3, <4>4
    <3> QED
      BY <3>1, <3>2
  <2>5. g = [k \in 0..n |-> g[k]]
    OBVIOUS
  <2> HIDE DEF g
  <2>6. g = [k \in 0..n |-> IF k = 0 THEN <<>> ELSE g[k - 1] \o list[k]]
    BY <2>4, <2>5
  <2> QED
    BY <1>2, <2>6, Zenon DEF Joins
<1> QED
  BY <1>3, <1>4

(* What UpTo is.                                                           *)
LEMMA UpToJoins ==
  ASSUME NEW list, IsList(list), \A i \in 1..Len(list) : IsList(list[i])
  PROVE  /\ UpTo(list)[0] = <<>>
         /\ \A n \in 0..Len(list) : IsList(UpTo(list)[n])
         /\ \A n \in 1..Len(list) : UpTo(list)[n] = UpTo(list)[n - 1] \o list[n]
<1> DEFINE u == UpTo(list)
           N == Len(list)
<1>0. N \in Nat
  BY ListFacts
<1>1. u = CHOOSE f : Joins(f, list, N)
  BY DEF UpTo, Joins
<1> HIDE DEF u, N
<1>2. Joins(u, list, N)
  BY <1>0, <1>1, JoinsExist, Zenon
<1>3. \A k \in 0..N : u[k] = IF k = 0 THEN <<>> ELSE u[k - 1] \o list[k]
  BY <1>2, Zenon DEF Joins
<1>4. u[0] = <<>> /\ \A n \in 1..N : u[n] = u[n - 1] \o list[n]
  <2>1. 0 \in 0..N /\ \A n \in 1..N : n \in 0..N /\ n # 0
    BY <1>0
  <2> QED
    BY <1>3, <2>1
<1>5. \A n \in 0..N : IsList(u[n])
  <2> DEFINE wrong == {n \in Nat : n \in 0..N /\ ~IsList(u[n])}
  <2> SUFFICES ASSUME wrong # {} PROVE FALSE
    BY <1>0
  <2>1. PICK n \in wrong : \A y \in wrong : n =< y
    BY LeastOf
  <2>2. n \in 0..N /\ ~IsList(u[n])
    OBVIOUS
  <2>3. n # 0
    BY <1>4, <2>2, EmptyIsList
  <2>4. n \in 1..N /\ n - 1 \in 0..N /\ n - 1 \notin wrong
    BY <1>0, <2>1, <2>2, <2>3
  <2>5. IsList(u[n - 1]) /\ IsList(list[n])
    BY <1>0, <2>4 DEF N
  <2>6. u[n] = u[n - 1] \o list[n]
    BY <1>4, <2>4
  <2> QED
    BY <2>2, <2>5, <2>6, JoinedLists
<1> QED
  BY <1>4, <1>5 DEF u, N

(* Where the n-th text is found in the whole.                               *)
LEMMA TextsInPlace ==
  ASSUME NEW list, IsList(list), \A i \in 1..Len(list) : IsList(list[i]), NEW n \in 1..Len(list)
  PROVE  /\ Len(UpTo(list)[n - 1]) \in Nat
         /\ Len(UpTo(list)[n]) = Len(UpTo(list)[n - 1]) + Len(list[n])
         /\ Len(UpTo(list)[n]) =< Len(Concat(list))
         /\ \A x \in 1..Len(list[n]) : Concat(list)[Len(UpTo(list)[n - 1]) + x] = list[n][x]
<1> DEFINE u == UpTo(list)
           N == Len(list)
<1>1. N \in Nat
  BY ListFacts
<1>2. /\ u[0] = <<>> /\ \A k \in 0..N : IsList(u[k])
      /\ \A k \in 1..N : u[k] = u[k - 1] \o list[k]
  BY UpToJoins
<1>3. Concat(list) = u[N]
  BY DEF Concat
<1>4. n \in 1..N /\ n \in 0..N /\ n - 1 \in 0..N
  BY <1>1
<1>5. /\ Len(u[n - 1]) \in Nat /\ Len(list[n]) \in Nat
      /\ Len(u[n]) = Len(u[n - 1]) + Len(list[n])
      /\ \A x \in 1..Len(list[n]) : u[n][Len(u[n - 1]) + x] = list[n][x]
  <2> DEFINE p == u[n - 1]
             q == list[n]
             r == u[n]
  <2>1. IsList(p) /\ IsList(q) /\ r = p \o q
    BY <1>2, <1>4
  <2> HIDE DEF p, q, r
  <2>2. /\ Len(p) \in Nat /\ Len(q) \in Nat /\ Len(r) = Len(p) + Len(q)
        /\ \A x \in 1..Len(q) : r[Len(p) + x] = q[x]
    BY <2>1, JoinedLists, ListFacts
  <2> QED
    BY <2>2 DEF p, q, r
<1> DEFINE start == Len(u[n - 1])
           len   == Len(list[n])
           text  == list[n]
           Good(v) == Len(v) \in Nat /\ start + len =< Len(v) /\ \A x \in 1..len : v[start + x] = text[x]
           wrong == {m \in Nat : m \in n..N /\ ~Good(u[m])}
<1> HIDE DEF start, len, text, Good
<1>6. Good(u[n]) /\ start \in Nat /\ len \in Nat
  <2> DEFINE r == u[n]
  <2>1. /\ start \in Nat /\ len \in Nat /\ Len(r) = start + len
        /\ \A x \in 1..len : r[start + x] = text[x]
    BY <1>5, Zenon DEF start, len, text
  <2> HIDE DEF r
  <2>2. Good(r)
    BY <2>1 DEF Good
  <2> QED
    BY <2>1, <2>2 DEF r
<1>7. ASSUME NEW v, NEW w, IsList(v), IsList(w), Good(v) PROVE Good(v \o w)
  <2>1. /\ Len(v \o w) = Len(v) + Len(w) /\ Len(v) \in Nat /\ Len(w) \in Nat
        /\ \A i \in 1..Len(v) : (v \o w)[i] = v[i]
    BY <1>7, JoinedLists, ListFacts
  <2> DEFINE j == v \o w
  <2> HIDE DEF j
  <2>2. /\ Len(j) = Len(v) + Len(w) /\ Len(v) \in Nat /\ Len(w) \in Nat
        /\ \A i \in 1..Len(v) : j[i] = v[i]
    BY <2>1 DEF j
  <2>3. ASSUME NEW x \in 1..len PROVE j[start + x] = text[x]
    <3>1. start + x \in 1..Len(v) /\ v[start + x] = text[x]
      BY <1>6, <1>7 DEF Good
    <3> QED
      BY <2>2, <3>1
  <2>4. Len(j) \in Nat /\ start + len =< Len(j)
    BY <1>6, <1>7, <2>2 DEF Good
  <2>5. Good(j)
    BY <2>3, <2>4 DEF Good
  <2> QED
    BY <2>5 DEF j
<1>8. wrong = {}
  <2> SUFFICES ASSUME wrong # {} PROVE FALSE
    OBVIOUS
  <2>1. PICK m \in wrong : \A y \in wrong : m =< y
    BY LeastOf
  <2>2. m \in n..N /\ ~Good(u[m])
    OBVIOUS
  <2>3. m # n
    BY <1>6, <2>2
  <2>4. m - 1 \in n..N /\ m - 1 \in Nat /\ m \in 1..N /\ m - 1 \in 0..N /\ m - 1 \notin wrong
    BY <1>1, <1>4, <2>1, <2>2, <2>3
  <2>5. Good(u[m - 1])
    BY <2>4
  <2>6. u[m] = u[m - 1] \o list[m] /\ IsList(u[m - 1]) /\ IsList(list[m])
    BY <1>2, <2>4 DEF N
  <2> QED
    BY <1>7, <2>2, <2>5, <2>6, Zenon
<1>9. Good(u[N])
  <2>1. N \in n..N
    BY <1>1, <1>4
  <2> QED
    BY <1>1, <1>8, <2>1
<1>10. /\ start \in Nat /\ Len(u[n]) = start + len /\ Len(u[n]) =< Len(u[N])
       /\ \A x \in 1..len : u[N][start + x] = text[x]
  <2>1. Len(u[n]) = start + len
    BY <1>5 DEF start, len
  <2> HIDE DEF u
  <2> QED
    BY <1>9, <1>6, <2>1 DEF Good
<1> QED
  BY <1>3, <1>10, Zenon DEF start, len, text

(* Texts that are the same one by one are the same when joined.             *)
LEMMA NothingJoined == UpTo(<<>>)[0] = <<>> /\ Concat(<<>>) = <<>>
<1>1. IsList(<<>>) /\ Len(<<>>) = 0
  BY EmptyIsList
<1>2. \A i \in 1..Len(<<>>) : IsList(<<>>[i])
  BY <1>1
<1>3. UpTo(<<>>)[0] = <<>>
  BY <1>1, <1>2, UpToJoins
<1> QED
  BY <1>1, <1>3 DEF Concat

-----------------------------------------------------------------------------
(* A quantity that was read is read again from what is printed for it, with  *)
(* the "=" it was written with or with the "=" that is printed.             *)
LEMMA ParsedCases ==
  ASSUME NEW b, NEW inv
  PROVE  LET policy == IF inv THEN "INVARIANT" ELSE "LINEAR"
             q == ParseQuantity(b, inv) IN
         /\ b.kind = "empty" => q = NotGiven
         /\ b.kind = "number" /\ b.unit \in Sizes => q = Spec1(Quantity("count", b.low, b.low, b.unit, <<>>), "LINEAR")
         /\ b.kind = "number" /\ b.unit = "" => q = Spec1(Quantity("count", b.low, b.low, "", <<>>), policy)
         /\ b.kind = "number" /\ b.unit \notin Sizes \cup {""} =>
              q = Spec1(Quantity("scalar", b.low, b.low, b.unit, <<>>), policy)
         /\ b.kind = "interval" /\ b.unit \notin Sizes /\ b.low =< b.high /\ b.unit = "" =>
              q = Spec1(Quantity("count range", b.low, b.high, "", <<>>), "LINEAR")
         /\ b.kind = "interval" /\ b.unit \notin Sizes /\ b.low =< b.high /\ b.unit # "" =>
              q = Spec1(Quantity("range", b.low, b.high, b.unit, <<>>), policy)
         /\ b.kind = "words" /\ b.unit = "" => q = Spec1(Quantity("approx", 0, 0, "", b.words), "INVARIANT")
         /\ \/ q = NotANumber
            \/ b.kind = "empty"
            \/ b.kind = "number" /\ b.unit \in Sizes
            \/ b.kind = "number" /\ b.unit = ""
            \/ b.kind = "number" /\ b.unit \notin Sizes \cup {""}
            \/ b.kind = "interval" /\ b.unit \notin Sizes /\ b.low =< b.high /\ b.unit = ""
            \/ b.kind = "interval" /\ b.unit \notin Sizes /\ b.low =< b.high /\ b.unit # ""
            \/ b.kind = "words" /\ b.unit = ""
<1> DEFINE policy == IF inv THEN "INVARIANT" ELSE "LINEAR"
           small == b.low =< b.high
           u == b.unit
           k == b.kind
           sized   == Spec1(Quantity("count", b.low, b.low, u, <<>>), "LINEAR")
           count   == Spec1(Quantity("count", b.low, b.low, "", <<>>), policy)
           scalar  == Spec1(Quantity("scalar", b.low, b.low, u, <<>>), policy)
           counts  == Spec1(Quantity("count range", b.low, b.high, "", <<>>), "LINEAR")
           scalars == Spec1(Quantity("range", b.low, b.high, u, <<>>), policy)
           approx  == Spec1(Quantity("approx", 0, 0, "", b.words), "INVARIANT")
           q == ParseQuantity(b, inv)
<1>1. "" \notin Sizes
  BY SizesAreWords
<1>2. q = CASE k = "empty" -> NotGiven
            [] k = "number" /\ u \in Sizes -> sized
            [] k = "number" /\ u = "" -> count
            [] k = "number" /\ u \notin Sizes \cup {""} -> scalar
            [] k = "interval" /\ u \notin Sizes /\ small -> IF u = "" THEN counts ELSE scalars
            [] k = "words" /\ u = "" -> approx
            [] OTHER -> NotANumber
  BY DEF ParseQuantity
<1> HIDE DEF small, u, k, sized, count, scalar, counts, scalars, approx, q
<1>3. k = "empty" => q = NotGiven
  BY <1>1, <1>2, Zenon
<1>4. k = "number" /\ u \in Sizes => q = sized
  BY <1>1, <1>2, Zenon
<1>5. k = "number" /\ u = "" => q = count
  BY <1>1, <1>2, Zenon
<1>6. k = "number" /\ u \notin Sizes \cup {""} => q = scalar
  BY <1>1, <1>2, Zenon
<1>7. k = "interval" /\ u \notin Sizes /\ small => q = (IF u = "" THEN counts ELSE scalars)
  BY <1>1, <1>2, Zenon
<1>8. k = "words" /\ u = "" => q = approx
  BY <1>1, <1>2, Zenon
<1>9. \/ q = NotANumber
      \/ k = "empty"
      \/ k = "number" /\ u \in Sizes
      \/ k = "number" /\ u = ""
      \/ k = "number" /\ u \notin Sizes \cup {""}
      \/ k = "interval" /\ u \notin Sizes /\ small
      \/ k = "words" /\ u = ""
  BY <1>2, Zenon
<1>10. /\ k = "interval" /\ u \notin Sizes /\ small /\ u = "" => q = counts
       /\ k = "interval" /\ u \notin Sizes /\ small /\ u # "" => q = scalars
  BY <1>7, Zenon
<1>11. \/ q = NotANumber
       \/ k = "empty"
       \/ k = "number" /\ u \in Sizes
       \/ k = "number" /\ u = ""
       \/ k = "number" /\ u \notin Sizes \cup {""}
       \/ k = "interval" /\ u \notin Sizes /\ small /\ u = ""
       \/ k = "interval" /\ u \notin Sizes /\ small /\ u # ""
       \/ k = "words" /\ u = ""
  BY <1>9
<1> USE DEF small, u, k, sized, count, scalar, counts, scalars, approx, q
<1>12. b.kind = "empty" => ParseQuantity(b, inv) = NotGiven
  BY <1>3, Zenon
<1>13. b.kind = "number" /\ b.unit \in Sizes =>
         ParseQuantity(b, inv) = Spec1(Quantity("count", b.low, b.low, b.unit, <<>>), "LINEAR")
  BY <1>4, Zenon
<1>14. b.kind = "number" /\ b.unit = "" =>
         ParseQuantity(b, inv) = Spec1(Quantity("count", b.low, b.low, "", <<>>), policy)
  BY <1>5, Zenon
<1>15. b.kind = "number" /\ b.unit \notin Sizes \cup {""} =>
         ParseQuantity(b, inv) = Spec1(Quantity("scalar", b.low, b.low, b.unit, <<>>), policy)
  BY <1>6, Zenon
<1>16. b.kind = "words" /\ b.unit = "" =>
         ParseQuantity(b, inv) = Spec1(Quantity("approx", 0, 0, "", b.words), "INVARIANT")
  BY <1>8, Zenon
<1>17. b.kind = "interval" /\ b.unit \notin Sizes /\ b.low =< b.high /\ b.unit = "" =>
         ParseQuantity(b, inv) = Spec1(Quantity("count range", b.low, b.high, "", <<>>), "LINEAR")
  BY <1>10, Zenon
<1>18. b.kind = "interval" /\ b.unit \notin Sizes /\ b.low =< b.high /\ b.unit # "" =>
         ParseQuantity(b, inv) = Spec1(Quantity("range", b.low, b.high, b.unit, <<>>), policy)
  BY <1>10, Zenon
<1> QED
  BY <1>11, <1>12, <1>13, <1>14, <1>15, <1>16, <1>17, <1>18, Zenon

(* What is printed for a quantity reads as that quantity, with or without    *)
(* the "=" it was written with: the "=" is printed for what does not scale. *)
Invariantly(specs) == \E i \in DOMAIN specs : specs[i].scaling = "INVARIANT"

LEMMA OneSpec ==
  ASSUME NEW q, NEW scaling
  PROVE  LET p == Spec1(q, scaling) IN
         /\ p.specs # <<>> /\ p.specs[1].quantity = q /\ ~p.error
         /\ Invariantly(p.specs) <=> scaling = "INVARIANT"
<1> DEFINE spec == [quantity |-> q, scaling |-> scaling]
           p == Spec1(q, scaling)
<1>1. spec.quantity = q /\ spec.scaling = scaling
  OBVIOUS
<1> HIDE DEF spec
<1>2. p = [specs |-> <<spec>>, error |-> FALSE]
  BY DEF Spec1, spec
<1>3. p.specs = <<spec>> /\ p.error = FALSE
  BY <1>2
<1>4. DOMAIN <<spec>> = {1} /\ <<spec>>[1] = spec /\ <<spec>> # <<>>
  OBVIOUS
<1> HIDE DEF p
<1> QED
  BY <1>1, <1>3, <1>4 DEF Invariantly, p

LEMMA PrintedQuantity ==
  ASSUME NEW r, NEW scaling, NEW q, q = Spec1(r, scaling)
  PROVE  /\ r.kind = "approx" => PrintSpecs(q.specs) = Body("words", 0, 0, "", r.words)
         /\ r.kind \in {"range", "count range"} => PrintSpecs(q.specs) = Body("interval", r.low, r.high, r.unit, <<>>)
         /\ r.kind \in {"count", "scalar"} => PrintSpecs(q.specs) = Body("number", r.low, r.low, r.unit, <<>>)
<1>2. q.specs # <<>> /\ q.specs[1].quantity = r
  BY OneSpec
<1>3. PrintSpecs(q.specs) = PrintQuantity(r)
  BY <1>2, Zenon DEF PrintSpecs
<1>4. r.kind = "approx" => PrintQuantity(r) = Body("words", 0, 0, "", r.words)
  BY Zenon DEF PrintQuantity
<1>5. ASSUME r.kind \in {"range", "count range"} PROVE PrintQuantity(r) = Body("interval", r.low, r.high, r.unit, <<>>)
  <2>1. r.kind # "approx"
    BY <1>5
  <2> QED
    BY <1>5, <2>1, Zenon DEF PrintQuantity
<1>6. ASSUME r.kind \in {"count", "scalar"} PROVE PrintQuantity(r) = Body("number", r.low, r.low, r.unit, <<>>)
  <2>1. r.kind # "approx" /\ r.kind \notin {"range", "count range"}
    BY <1>6
  <2> QED
    BY <2>1, Zenon DEF PrintQuantity
<1> QED
  BY <1>3, <1>4, <1>5, <1>6, Zenon

LEMMA QuantityReadAgain ==
  ASSUME NEW b, NEW inv, ~ParseQuantity(b, inv).error
  PROVE  /\ ParseQuantity(PrintSpecs(ParseQuantity(b, inv).specs), inv) = ParseQuantity(b, inv)
         /\ ParseQuantity(PrintSpecs(ParseQuantity(b, inv).specs), Invariantly(ParseQuantity(b, inv).specs))
              = ParseQuantity(b, inv)
<1> DEFINE q == ParseQuantity(b, inv)
           c == PrintSpecs(q.specs)
           now == Invariantly(q.specs)
           Policy(i) == IF i THEN "INVARIANT" ELSE "LINEAR"
<1>1. q # NotANumber
  BY DEF NotANumber
<1> SUFFICES ParseQuantity(c, inv) = q /\ ParseQuantity(c, now) = q
  OBVIOUS
<1>2. \A scaling, r : q = Spec1(r, scaling) => (now <=> scaling = "INVARIANT")
  BY OneSpec, Zenon
<1>3. ASSUME q = NotGiven PROVE ParseQuantity(c, inv) = q /\ ParseQuantity(c, now) = q
  <2>1. c = Body("empty", 0, 0, "", <<>>)
    BY <1>3 DEF NotGiven, PrintSpecs
  <2> HIDE DEF c
  <2>2. c.kind = "empty"
    BY <2>1 DEF Body
  <2> HIDE DEF now, q
  <2> QED
    BY <1>3, <2>2, ParsedCases, Zenon
<1> HIDE DEF c, now, q
<1>4. ASSUME q = Spec1(Quantity("count", b.low, b.low, b.unit, <<>>), "LINEAR"), b.unit \in Sizes
      PROVE  ParseQuantity(c, inv) = q /\ ParseQuantity(c, now) = q
  <2> DEFINE r == Quantity("count", b.low, b.low, b.unit, <<>>)
  <2>0. r.kind = "count" /\ r.low = b.low /\ r.high = b.low /\ r.unit = b.unit /\ r.words = <<>>
    BY DEF Quantity
  <2>9. \E scaling : q = Spec1(r, scaling)
    BY <1>4
  <2> HIDE DEF r
  <2>1. c = Body("number", b.low, b.low, b.unit, <<>>)
    BY <2>0, <2>9, PrintedQuantity DEF c
  <2>2. c.kind = "number" /\ c.low = b.low /\ c.unit = b.unit
    BY <2>1 DEF Body
  <2> QED
    BY <1>4, <2>2, ParsedCases, Zenon
<1>5. ASSUME q = Spec1(Quantity("count", b.low, b.low, "", <<>>), Policy(inv))
      PROVE  ParseQuantity(c, inv) = q /\ ParseQuantity(c, now) = q
  <2> DEFINE r == Quantity("count", b.low, b.low, "", <<>>)
  <2>0. r.kind = "count" /\ r.low = b.low /\ r.high = b.low /\ r.unit = "" /\ r.words = <<>>
    BY DEF Quantity
  <2>9. \E scaling : q = Spec1(r, scaling)
    BY <1>5
  <2> HIDE DEF r
  <2>1. c = Body("number", b.low, b.low, "", <<>>)
    BY <2>0, <2>9, PrintedQuantity DEF c
  <2>2. c.kind = "number" /\ c.low = b.low /\ c.unit = ""
    BY <2>1 DEF Body
  <2>3. \A i : ParseQuantity(c, i) = Spec1(Quantity("count", b.low, b.low, "", <<>>), Policy(i))
    BY <2>2, ParsedCases, Zenon
  <2>4. Policy(now) = Policy(inv)
    BY <1>2, <1>5
  <2> QED
    BY <1>5, <2>3, <2>4, Zenon
<1>6. ASSUME q = Spec1(Quantity("scalar", b.low, b.low, b.unit, <<>>), Policy(inv)), b.unit \notin Sizes \cup {""}
      PROVE  ParseQuantity(c, inv) = q /\ ParseQuantity(c, now) = q
  <2> DEFINE r == Quantity("scalar", b.low, b.low, b.unit, <<>>)
  <2>0. r.kind = "scalar" /\ r.low = b.low /\ r.high = b.low /\ r.unit = b.unit /\ r.words = <<>>
    BY DEF Quantity
  <2>9. \E scaling : q = Spec1(r, scaling)
    BY <1>6
  <2> HIDE DEF r
  <2>1. c = Body("number", b.low, b.low, b.unit, <<>>)
    BY <2>0, <2>9, PrintedQuantity DEF c
  <2>2. c.kind = "number" /\ c.low = b.low /\ c.unit = b.unit
    BY <2>1 DEF Body
  <2>3. \A i : ParseQuantity(c, i) = Spec1(Quantity("scalar", b.low, b.low, b.unit, <<>>), Policy(i))
    BY <1>6, <2>2, ParsedCases, Zenon
  <2>4. Policy(now) = Policy(inv)
    BY <1>2, <1>6
  <2> QED
    BY <1>6, <2>3, <2>4, Zenon
<1>7. ASSUME q = Spec1(Quantity("count range", b.low, b.high, "", <<>>), "LINEAR"),
             "" \notin Sizes, b.low =< b.high
      PROVE  ParseQuantity(c, inv) = q /\ ParseQuantity(c, now) = q
  <2> DEFINE r == Quantity("count range", b.low, b.high, "", <<>>)
  <2>0. r.kind = "count range" /\ r.low = b.low /\ r.high = b.high /\ r.unit = "" /\ r.words = <<>>
    BY DEF Quantity
  <2>9. \E scaling : q = Spec1(r, scaling)
    BY <1>7
  <2> HIDE DEF r
  <2>1. c = Body("interval", b.low, b.high, "", <<>>)
    BY <2>0, <2>9, PrintedQuantity DEF c
  <2>2. c.kind = "interval" /\ c.low = b.low /\ c.high = b.high /\ c.unit = ""
    BY <2>1 DEF Body
  <2> QED
    BY <1>7, <2>2, ParsedCases, Zenon
<1>8. ASSUME q = Spec1(Quantity("range", b.low, b.high, b.unit, <<>>), Policy(inv)),
             b.unit \notin Sizes, b.low =< b.high, b.unit # ""
      PROVE  ParseQuantity(c, inv) = q /\ ParseQuantity(c, now) = q
  <2> DEFINE r == Quantity("range", b.low, b.high, b.unit, <<>>)
  <2>0. r.kind = "range" /\ r.low = b.low /\ r.high = b.high /\ r.unit = b.unit /\ r.words = <<>>
    BY DEF Quantity
  <2>9. \E scaling : q = Spec1(r, scaling)
    BY <1>8
  <2> HIDE DEF r
  <2>1. c = Body("interval", b.low, b.high, b.unit, <<>>)
    BY <2>0, <2>9, PrintedQuantity DEF c
  <2>2. c.kind = "interval" /\ c.low = b.low /\ c.high = b.high /\ c.unit = b.unit
    BY <2>1 DEF Body
  <2>3. \A i : ParseQuantity(c, i) = Spec1(Quantity("range", b.low, b.high, b.unit, <<>>), Policy(i))
    BY <1>8, <2>2, ParsedCases, Zenon
  <2>4. Policy(now) = Policy(inv)
    BY <1>2, <1>8
  <2> QED
    BY <1>8, <2>3, <2>4, Zenon
<1>9. ASSUME q = Spec1(Quantity("approx", 0, 0, "", b.words), "INVARIANT")
      PROVE  ParseQuantity(c, inv) = q /\ ParseQuantity(c, now) = q
  <2> DEFINE r == Quantity("approx", 0, 0, "", b.words)
  <2>0. r.kind = "approx" /\ r.low = 0 /\ r.high = 0 /\ r.unit = "" /\ r.words = b.words
    BY DEF Quantity
  <2>9. \E scaling : q = Spec1(r, scaling)
    BY <1>9
  <2> HIDE DEF r
  <2>1. c = Body("words", 0, 0, "", b.words)
    BY <2>0, <2>9, PrintedQuantity DEF c
  <2>2. c.kind = "words" /\ c.unit = "" /\ c.words = b.words
    BY <2>1 DEF Body
  <2> QED
    BY <1>9, <2>2, ParsedCases, Zenon
<1> QED
  BY <1>1, <1>3, <1>4, <1>5, <1>6, <1>7, <1>8, <1>9, ParsedCases, SizesAreWords, Zenon DEF q

-----------------------------------------------------------------------------
(* What a token adds to a scan whose literal has been ended.                *)
Scan(literal, chunks, ingredients, cookware, timers, temperatures, uses, counter) ==
  [literal |-> literal, chunks |-> chunks, ingredients |-> ingredients, cookware |-> cookware,
   timers |-> timers, temperatures |-> temperatures, uses |-> uses, counter |-> counter]
IsScan(s) ==
  s = Scan(s.literal, s.chunks, s.ingredients, s.cookware, s.timers, s.temperatures, s.uses, s.counter)

(* The scan as it is once the literal has become a chunk.                   *)
Ended == Scan(<<>>, Flushed, scan.ingredients, scan.cookware, scan.timers, scan.temperatures, scan.uses, scan.counter)

IngredientOf(v, f, name, b) ==
  [id |-> v.counter + 1, name |-> name, quantity |-> ParseQuantity(b, f.invariant).specs, optional |-> f.optional]
CookwareOf(v, name, b) == [id |-> v.counter + 1, name |-> name, quantity |-> b]
TimeOf(b) == IF ParseQuantity(b, FALSE).specs = <<>> THEN NoTime ELSE ParseQuantity(b, FALSE).specs[1].quantity
TimerOf(name, b) == [name |-> name, quantity |-> TimeOf(b)]
Degrees(b) == IF b.unit = "" THEN "C" ELSE b.unit
HeatOf(b) == [value |-> b.low, unit |-> Degrees(b)]

(* f is the sigil, b the body in braces, s the state that is named.         *)
Accepts(f, b) ==
  /\ f.k = "@" => ~ParseQuantity(b, f.invariant).error
  /\ f.k = "#" => b.kind = "empty" \/ (b.kind = "number" /\ b.unit = "")
  /\ f.k = "~" => ~ParseQuantity(b, FALSE).error /\ TimeOf(b).kind \in {"scalar", "range"}
  /\ f.k = "^" => b.kind = "number" /\ Degrees(b) \in {"C", "F"}

TakesState(v, s, c, to) ==
  /\ c = Chunk("state", s)
  /\ to = Scan(<<>>, Append(v.chunks, c), v.ingredients, v.cookware, v.timers, v.temperatures,
               Used(v.uses, s), v.counter)
TakesIngredient(v, f, name, b, c, to) ==
  /\ c = Chunk("ingredient", v.counter + 1)
  /\ to = Scan(<<>>, Append(v.chunks, c), Append(v.ingredients, IngredientOf(v, f, name, b)), v.cookware,
               v.timers, v.temperatures, v.uses, v.counter + 1)
TakesCookware(v, name, b, c, to) ==
  /\ c = Chunk("cookware", v.counter + 1)
  /\ to = Scan(<<>>, Append(v.chunks, c), v.ingredients, Append(v.cookware, CookwareOf(v, name, b)),
               v.timers, v.temperatures, v.uses, v.counter + 1)
TakesTimer(v, name, b, c, to) ==
  /\ c = Chunk("timer", Len(v.timers))
  /\ to = Scan(<<>>, Append(v.chunks, c), v.ingredients, v.cookware, Append(v.timers, TimerOf(name, b)),
               v.temperatures, v.uses, v.counter)
TakesTemperature(v, b, c, to) ==
  /\ c = Chunk("temperature", Len(v.temperatures))
  /\ to = Scan(<<>>, Append(v.chunks, c), v.ingredients, v.cookware, v.timers,
               Append(v.temperatures, HeatOf(b)), v.uses, v.counter)

Takes(v, s, f, name, b, c, to) ==
  \/ f.k = "@&" /\ TakesState(v, s, c, to)
  \/ f.k = "@"  /\ TakesIngredient(v, f, name, b, c, to)
  \/ f.k = "#"  /\ TakesCookware(v, name, b, c, to)
  \/ f.k = "~"  /\ TakesTimer(v, name, b, c, to)
  \/ f.k = "^"  /\ TakesTemperature(v, b, c, to)

ReadToken == ReadState \/ ReadIngredient \/ ReadCookware \/ ReadTimer \/ ReadTemperature

LEMMA ScanFields ==
  ASSUME NEW l, NEW c, NEW i, NEW k, NEW t, NEW x, NEW u, NEW n
  PROVE  LET s == Scan(l, c, i, k, t, x, u, n) IN
         /\ s.literal = l /\ s.chunks = c /\ s.ingredients = i /\ s.cookware = k
         /\ s.timers = t /\ s.temperatures = x /\ s.uses = u /\ s.counter = n
         /\ IsScan(s)
  BY DEF Scan, IsScan

LEMMA ScanDomain == ASSUME NEW r, IsScan(r) PROVE DOMAIN r = Fields /\ r = [f \in DOMAIN r |-> r[f]]
<1> DEFINE t == Scan(r.literal, r.chunks, r.ingredients, r.cookware, r.timers, r.temperatures, r.uses, r.counter)
<1>1. DOMAIN t = Fields /\ t = [f \in DOMAIN t |-> t[f]]
  BY DEF Scan, Fields
<1> HIDE DEF t
<1>2. r = t
  BY DEF IsScan, t
<1> QED
  BY <1>1, <1>2

LEMMA ScanExcept ==
  ASSUME NEW r, IsScan(r), NEW y
  PROVE  /\ [r EXCEPT !.uses = y] =
              Scan(r.literal, r.chunks, r.ingredients, r.cookware, r.timers, r.temperatures, y, r.counter)
         /\ [r EXCEPT !.timers = y] =
              Scan(r.literal, r.chunks, r.ingredients, r.cookware, y, r.temperatures, r.uses, r.counter)
         /\ [r EXCEPT !.temperatures = y] =
              Scan(r.literal, r.chunks, r.ingredients, r.cookware, r.timers, y, r.uses, r.counter)
         /\ [r EXCEPT !.literal = y] =
              Scan(y, r.chunks, r.ingredients, r.cookware, r.timers, r.temperatures, r.uses, r.counter)
  BY ScanDomain, SMT DEF Fields, Scan

LEMMA CountedIngredients ==
  ASSUME NEW r, IsScan(r), NEW y, NEW z
  PROVE  [r EXCEPT !.counter = y, !.ingredients = z] =
           Scan(r.literal, r.chunks, z, r.cookware, r.timers, r.temperatures, r.uses, y)
<1> DEFINE s == [r EXCEPT !.counter = y, !.ingredients = z]
<1>1. /\ DOMAIN s = Fields /\ s.literal = r.literal /\ s.chunks = r.chunks /\ s.ingredients = z
      /\ s.cookware = r.cookware /\ s.timers = r.timers /\ s.temperatures = r.temperatures
      /\ s.uses = r.uses /\ s.counter = y /\ s = [f \in DOMAIN s |-> s[f]]
  BY ScanDomain DEF Fields
<1> HIDE DEF s
<1>2. s = Scan(r.literal, r.chunks, z, r.cookware, r.timers, r.temperatures, r.uses, y)
  BY <1>1, SMT DEF Fields, Scan
<1> QED
  BY <1>2 DEF s

LEMMA CountedCookware ==
  ASSUME NEW r, IsScan(r), NEW y, NEW z
  PROVE  [r EXCEPT !.counter = y, !.cookware = z] =
           Scan(r.literal, r.chunks, r.ingredients, z, r.timers, r.temperatures, r.uses, y)
<1> DEFINE s == [r EXCEPT !.counter = y, !.cookware = z]
<1>1. /\ DOMAIN s = Fields /\ s.literal = r.literal /\ s.chunks = r.chunks /\ s.ingredients = r.ingredients
      /\ s.cookware = z /\ s.timers = r.timers /\ s.temperatures = r.temperatures
      /\ s.uses = r.uses /\ s.counter = y /\ s = [f \in DOMAIN s |-> s[f]]
  BY ScanDomain DEF Fields
<1> HIDE DEF s
<1>2. s = Scan(r.literal, r.chunks, r.ingredients, z, r.timers, r.temperatures, r.uses, y)
  BY <1>1, SMT DEF Fields, Scan
<1> QED
  BY <1>2 DEF s

LEMMA EndedLiteral ==
  ASSUME NEW r, IsScan(r), NEW y, NEW z
  PROVE  [r EXCEPT !.literal = y, !.chunks = z] =
           Scan(y, z, r.ingredients, r.cookware, r.timers, r.temperatures, r.uses, r.counter)
<1> DEFINE s == [r EXCEPT !.literal = y, !.chunks = z]
<1>1. /\ DOMAIN s = Fields /\ s.literal = y /\ s.chunks = z /\ s.ingredients = r.ingredients
      /\ s.cookware = r.cookware /\ s.timers = r.timers /\ s.temperatures = r.temperatures
      /\ s.uses = r.uses /\ s.counter = r.counter /\ s = [f \in DOMAIN s |-> s[f]]
  BY ScanDomain DEF Fields
<1> HIDE DEF s
<1>2. s = Scan(y, z, r.ingredients, r.cookware, r.timers, r.temperatures, r.uses, r.counter)
  BY <1>1, SMT DEF Fields, Scan
<1> QED
  BY <1>2 DEF s

(* A token that is read either raises or adds what it stands for.           *)
LEMMA TokenIsTaken ==
  ASSUME IsScan(scan), ReadToken
  PROVE  /\ Reading /\ at =< Len(Text) /\ IsToken
         /\ UNCHANGED <<front, document, round, meta, actions, names, source>>
         /\ \/ /\ Accepts(Text[at], BodyAt)
               /\ \E c : Takes(Ended, names[BodyAt.words], Text[at], Between(at), BodyAt, c, scan')
               /\ at' = Brace(at) + 1 /\ phase' = phase
            \/ ~Accepts(Text[at], BodyAt) /\ phase' = "raised"
<1> DEFINE f == Text[at]
           b == BodyAt
           name == Between(at)
           Goal == /\ UNCHANGED <<front, document, round, meta, actions, names, source>>
                   /\ \/ /\ Accepts(f, b)
                         /\ \E c : Takes(Ended, names[b.words], f, name, b, c, scan')
                         /\ at' = Brace(at) + 1 /\ phase' = phase
                      \/ ~Accepts(f, b) /\ phase' = "raised"
           L == scan.literal
           C == scan.chunks
           I == scan.ingredients
           K == scan.cookware
           T == scan.timers
           X == scan.temperatures
           U == scan.uses
           N == scan.counter
<1>0. IsScan(scan)
  OBVIOUS
<1>1. /\ scan = Scan(L, C, I, K, T, X, U, N)
      /\ Ended = Scan(<<>>, Flushed, I, K, T, X, U, N)
  BY DEF IsScan, Ended
<1>2. /\ Ended.chunks = Flushed /\ Ended.ingredients = I /\ Ended.cookware = K /\ Ended.timers = T
      /\ Ended.temperatures = X /\ Ended.uses = U /\ Ended.counter = N
  BY <1>1, ScanFields
<1>3. ASSUME NEW chunk, NEW s, NEW error, Took(chunk, s, error),
             NEW i, NEW k, NEW t, NEW x, NEW u, NEW n, s = Scan(L, C, i, k, t, x, u, n)
      PROVE  /\ UNCHANGED <<front, document, round, meta, actions, names, source>>
             /\ \/ /\ ~error /\ at' = Brace(at) + 1 /\ phase' = phase
                   /\ scan' = Scan(<<>>, Append(Flushed, chunk), i, k, t, x, u, n)
                \/ error /\ phase' = "raised"
  <2>0. IsScan(s) /\ s.ingredients = i /\ s.cookware = k /\ s.timers = t /\ s.temperatures = x
        /\ s.uses = u /\ s.counter = n
    BY <1>3, ScanFields
  <2>1. [s EXCEPT !.literal = <<>>, !.chunks = Append(Flushed, chunk)]
          = Scan(<<>>, Append(Flushed, chunk), i, k, t, x, u, n)
    <3> DEFINE ch == Append(Flushed, chunk)
               e == [s EXCEPT !.literal = <<>>, !.chunks = ch]
    <3>1. e = Scan(<<>>, ch, s.ingredients, s.cookware, s.timers, s.temperatures, s.uses, s.counter)
      BY <2>0, EndedLiteral, Zenon
    <3> HIDE DEF e, ch
    <3>2. e = Scan(<<>>, ch, i, k, t, x, u, n)
      BY <2>0, <3>1
    <3> QED
      BY <3>2 DEF e, ch
  <2> QED
    BY <1>3, <2>1, Zenon DEF Took
<1> HIDE DEF f, b, name, L, C, I, K, T, X, U, N
<1>4. ASSUME ReadState PROVE Goal
  <2> DEFINE st == names[b.words]
             s == [scan EXCEPT !.uses = Used(@, st)]
             c == Chunk("state", st)
  <2>1. Took(c, s, FALSE) /\ f.k = "@&"
    BY <1>4 DEF ReadState, Token, Sigil, b, f, U
  <2>2. s = Scan(L, C, I, K, T, X, Used(U, st), N)
    <3>1. s = [scan EXCEPT !.uses = Used(U, st)]
      BY DEF U
    <3> HIDE DEF s, st
    <3> QED
      BY <1>0, <3>1, ScanExcept, Zenon DEF L, C, I, K, T, X, U, N
  <2> HIDE DEF s
  <2>3. /\ UNCHANGED <<front, document, round, meta, actions, names, source>>
        /\ at' = Brace(at) + 1 /\ phase' = phase
        /\ scan' = Scan(<<>>, Append(Flushed, c), I, K, T, X, Used(U, st), N)
    BY <1>3, <2>1, <2>2
  <2>4. Accepts(f, b)
    BY <2>1 DEF Accepts
  <2>5. TakesState(Ended, st, c, scan')
    BY <1>2, <2>3, Zenon DEF TakesState
  <2> HIDE DEF st, c
  <2>6. Takes(Ended, st, f, name, b, c, scan')
    BY <2>1, <2>5 DEF Takes
  <2> QED
    BY <2>3, <2>4, <2>6 DEF st
<1>5. ASSUME ReadIngredient PROVE Goal
  <2> DEFINE id == N + 1
             q == ParseQuantity(b, f.invariant)
             use == [id |-> id, name |-> name, quantity |-> q.specs, optional |-> f.optional]
             s == [scan EXCEPT !.counter = id, !.ingredients = Append(@, use)]
             c == Chunk("ingredient", id)
  <2>1. Took(c, s, q.error) /\ f.k = "@"
    BY <1>5 DEF ReadIngredient, Token, Sigil, b, f, name, N, I
  <2>2. use = IngredientOf(Ended, f, name, b)
    BY <1>2, Zenon DEF IngredientOf
  <2>3. s = Scan(L, C, Append(I, use), K, T, X, U, id)
    <3> DEFINE j == Append(I, use)
    <3>1. s = [scan EXCEPT !.counter = id, !.ingredients = j]
      BY DEF I
    <3> HIDE DEF s, id, use, j
    <3>2. [scan EXCEPT !.counter = id, !.ingredients = j] = Scan(L, C, j, K, T, X, U, id)
      BY <1>0, CountedIngredients, Zenon DEF L, C, I, K, T, X, U
    <3> QED
      BY <3>1, <3>2, Zenon DEF j
  <2>4. Accepts(f, b) <=> ~q.error
    BY <2>1 DEF Accepts
  <2> HIDE DEF id, s, use, q
  <2>5. /\ UNCHANGED <<front, document, round, meta, actions, names, source>>
        /\ \/ /\ ~q.error /\ at' = Brace(at) + 1 /\ phase' = phase
              /\ scan' = Scan(<<>>, Append(Flushed, c), Append(I, use), K, T, X, U, id)
           \/ q.error /\ phase' = "raised"
    BY <1>3, <2>1, <2>3
  <2>6. scan' = Scan(<<>>, Append(Flushed, c), Append(I, use), K, T, X, U, id)
          => TakesIngredient(Ended, f, name, b, c, scan')
    BY <1>2, <2>2, Zenon DEF id, TakesIngredient
  <2> HIDE DEF c
  <2> QED
    BY <2>1, <2>4, <2>5, <2>6 DEF Takes
<1>6. ASSUME ReadCookware PROVE Goal
  <2> DEFINE id == N + 1
             item == [id |-> id, name |-> name, quantity |-> b]
             good == b.kind = "empty" \/ (b.kind = "number" /\ b.unit = "")
             bad == ~good
             s == [scan EXCEPT !.counter = id, !.cookware = Append(@, item)]
             c == Chunk("cookware", id)
  <2>1. Took(c, s, bad) /\ f.k = "#"
    BY <1>6 DEF ReadCookware, Token, Sigil, b, f, name, N, K
  <2>2. item = CookwareOf(Ended, name, b)
    BY <1>2, Zenon DEF CookwareOf
  <2>3. s = Scan(L, C, I, Append(K, item), T, X, U, id)
    <3> DEFINE j == Append(K, item)
    <3>1. s = [scan EXCEPT !.counter = id, !.cookware = j]
      BY DEF K
    <3> HIDE DEF s, id, item, j
    <3>2. [scan EXCEPT !.counter = id, !.cookware = j] = Scan(L, C, I, j, T, X, U, id)
      BY <1>0, CountedCookware, Zenon DEF L, C, I, K, T, X, U
    <3> QED
      BY <3>1, <3>2, Zenon DEF j
  <2>4. Accepts(f, b) <=> ~bad
    BY <2>1 DEF Accepts
  <2> HIDE DEF id, s, item, good, bad
  <2>5. /\ UNCHANGED <<front, document, round, meta, actions, names, source>>
        /\ \/ /\ ~bad /\ at' = Brace(at) + 1 /\ phase' = phase
              /\ scan' = Scan(<<>>, Append(Flushed, c), I, Append(K, item), T, X, U, id)
           \/ bad /\ phase' = "raised"
    BY <1>3, <2>1, <2>3
  <2>6. scan' = Scan(<<>>, Append(Flushed, c), I, Append(K, item), T, X, U, id)
          => TakesCookware(Ended, name, b, c, scan')
    BY <1>2, <2>2, Zenon DEF id, TakesCookware
  <2> HIDE DEF c
  <2> QED
    BY <2>1, <2>4, <2>5, <2>6 DEF Takes
<1>7. ASSUME ReadTimer PROVE Goal
  <2> DEFINE q == ParseQuantity(b, FALSE)
             time == IF q.specs = <<>> THEN NoTime ELSE q.specs[1].quantity
             timer == [name |-> name, quantity |-> time]
             bad == q.error \/ time.kind \notin {"scalar", "range"}
             s == [scan EXCEPT !.timers = Append(@, timer)]
             c == Chunk("timer", Len(T))
  <2>1. Took(c, s, bad) /\ f.k = "~"
    BY <1>7 DEF ReadTimer, Token, Sigil, b, f, name, T
  <2>2. timer = TimerOf(name, b)
    BY DEF TimerOf, TimeOf
  <2>3. s = Scan(L, C, I, K, Append(T, timer), X, U, N)
    <3>1. s = [scan EXCEPT !.timers = Append(T, timer)]
      BY DEF T
    <3> HIDE DEF s, timer
    <3> QED
      BY <1>0, <3>1, ScanExcept, Zenon DEF L, C, I, K, T, X, U, N
  <2>4. Accepts(f, b) <=> ~bad
    BY <2>1 DEF Accepts, TimeOf
  <2> HIDE DEF s, timer, time, bad
  <2>5. /\ UNCHANGED <<front, document, round, meta, actions, names, source>>
        /\ \/ /\ ~bad /\ at' = Brace(at) + 1 /\ phase' = phase
              /\ scan' = Scan(<<>>, Append(Flushed, c), I, K, Append(T, timer), X, U, N)
           \/ bad /\ phase' = "raised"
    BY <1>3, <2>1, <2>3
  <2>6. scan' = Scan(<<>>, Append(Flushed, c), I, K, Append(T, timer), X, U, N)
          => TakesTimer(Ended, name, b, c, scan')
    BY <1>2, <2>2, Zenon DEF TakesTimer
  <2> HIDE DEF c
  <2> QED
    BY <2>1, <2>4, <2>5, <2>6 DEF Takes
<1>8. ASSUME ReadTemperature PROVE Goal
  <2> DEFINE unit == IF b.unit = "" THEN "C" ELSE b.unit
             heat == [value |-> b.low, unit |-> unit]
             bad == b.kind # "number" \/ unit \notin {"C", "F"}
             s == [scan EXCEPT !.temperatures = Append(@, heat)]
             c == Chunk("temperature", Len(X))
  <2>1. Took(c, s, bad) /\ f.k = "^"
    BY <1>8 DEF ReadTemperature, Token, Sigil, b, f, X
  <2>2. heat = HeatOf(b)
    BY DEF HeatOf, Degrees
  <2>3. s = Scan(L, C, I, K, T, Append(X, heat), U, N)
    <3>1. s = [scan EXCEPT !.temperatures = Append(X, heat)]
      BY DEF X
    <3> HIDE DEF s, heat
    <3> QED
      BY <1>0, <3>1, ScanExcept, Zenon DEF L, C, I, K, T, X, U, N
  <2>4. Accepts(f, b) <=> ~bad
    BY <2>1 DEF Accepts, Degrees
  <2> HIDE DEF s, heat, unit, bad
  <2>5. /\ UNCHANGED <<front, document, round, meta, actions, names, source>>
        /\ \/ /\ ~bad /\ at' = Brace(at) + 1 /\ phase' = phase
              /\ scan' = Scan(<<>>, Append(Flushed, c), I, K, T, Append(X, heat), U, N)
           \/ bad /\ phase' = "raised"
    BY <1>3, <2>1, <2>3
  <2>6. scan' = Scan(<<>>, Append(Flushed, c), I, K, T, Append(X, heat), U, N)
          => TakesTemperature(Ended, b, c, scan')
    BY <1>2, <2>2, Zenon DEF TakesTemperature
  <2> HIDE DEF c
  <2> QED
    BY <2>1, <2>4, <2>5, <2>6 DEF Takes
<1>9. Goal
  BY <1>4, <1>5, <1>6, <1>7, <1>8, Zenon DEF ReadToken
<1>10. Reading /\ at =< Len(Text) /\ IsToken
  BY DEF ReadToken, ReadState, ReadIngredient, ReadCookware, ReadTimer, ReadTemperature, Token
<1> QED
  BY <1>9, <1>10 DEF f, b, name

-----------------------------------------------------------------------------
(* A token in a text, and where it ends.                                    *)
Sigils == {"@", "@&", "#", "~", "^"}
Piece(f, name, b) == <<f>> \o name \o <<Group(b)>>
IsName(name) == IsList(name) /\ \A i \in 1..Len(name) : name[i].k # "group"

LEMMA PieceFacts ==
  ASSUME NEW f, NEW name, NEW b, IsName(name)
  PROVE  /\ IsList(Piece(f, name, b)) /\ Len(Piece(f, name, b)) = Len(name) + 2
         /\ Piece(f, name, b)[1] = f
         /\ \A i \in 1..Len(name) : Piece(f, name, b)[i + 1] = name[i]
         /\ Piece(f, name, b)[Len(name) + 2] = Group(b)
<1> DEFINE g == Group(b)
           start == <<f>>
           end == <<g>>
           both == start \o name
           p == both \o end
<1>1. /\ IsList(start) /\ Len(start) = 1 /\ start[1] = f
      /\ IsList(end) /\ Len(end) = 1 /\ end[1] = g
  BY OneIsList
<1>2. IsList(name) /\ Len(name) \in Nat
  BY ListFacts DEF IsName
<1> HIDE DEF start, end, g
<1>3. both = start \o name /\ p = both \o end
  OBVIOUS
<1> HIDE DEF both, p
<1>4. /\ IsList(both) /\ Len(both) = Len(start) + Len(name)
      /\ \A i \in 1..Len(start) : both[i] = start[i]
      /\ \A i \in 1..Len(name) : both[Len(start) + i] = name[i]
  <2>1. IsList(start) /\ IsList(name) /\ both = start \o name
    BY <1>1, <1>2, <1>3
  <2> QED
    BY <2>1, JoinedLists
<1>7. /\ IsList(p) /\ Len(p) = Len(both) + Len(end)
      /\ \A i \in 1..Len(both) : p[i] = both[i]
      /\ \A i \in 1..Len(end) : p[Len(both) + i] = end[i]
  BY <1>1, <1>3, <1>4, JoinedLists
<1>5. /\ IsList(p) /\ Len(p) = Len(name) + 2 /\ p[1] = f
      /\ \A i \in 1..Len(name) : p[i + 1] = name[i]
      /\ p[Len(name) + 2] = g
  <2>1. Len(both) = Len(name) + 1 /\ both[1] = f /\ \A i \in 1..Len(name) : both[1 + i] = name[i]
    BY <1>1, <1>2, <1>4
  <2>2. Len(p) = Len(name) + 2 /\ p[Len(name) + 2] = g /\ \A i \in 1..(Len(name) + 1) : p[i] = both[i]
    <3>1. Len(both) + 1 = Len(name) + 2 /\ 1 \in 1..Len(end)
      BY <1>1, <1>2, <2>1
    <3>2. p[Len(both) + 1] = end[1] /\ Len(p) = Len(both) + 1
      BY <1>1, <1>7, <3>1
    <3> QED
      BY <1>1, <1>2, <1>7, <2>1, <3>1, <3>2
  <2>3. ASSUME NEW i \in 1..Len(name) PROVE p[i + 1] = name[i]
    <3>1. i + 1 \in 1..(Len(name) + 1) /\ 1 + i = i + 1
      BY <1>2
    <3> QED
      BY <2>1, <2>2, <3>1
  <2>4. 1 \in 1..(Len(name) + 1)
    BY <1>2
  <2> QED
    BY <1>7, <2>1, <2>2, <2>3, <2>4
<1>6. p = Piece(f, name, b)
  BY DEF p, both, start, end, g, Piece
<1> QED
  BY <1>5, <1>6 DEF g

LEMMA BraceIs ==
  ASSUME NEW i \in Nat, NEW g \in (i + 1)..Len(Text), Len(Text) \in Nat, Text[g].k = "group",
         \A h \in (i + 1)..(g - 1) : Text[h].k # "group"
  PROVE  Brace(i) = g
<1> DEFINE T == Text
<1> HIDE DEF T
<1>1. Brace(i) = CHOOSE x \in (i + 1)..Len(T) : T[x].k = "group" /\ \A h \in (i + 1)..(x - 1) : T[h].k # "group"
  BY DEF Brace, T
<1>2. ASSUME NEW x \in (i + 1)..Len(T), T[x].k = "group", \A h \in (i + 1)..(x - 1) : T[h].k # "group"
      PROVE  x = g
  <2>1. ~(x < g)
    BY <1>2 DEF T
  <2>2. ~(g < x)
    BY <1>2 DEF T
  <2> QED
    BY <1>2, <2>1, <2>2 DEF T
<1>3. \E x \in (i + 1)..Len(T) : T[x].k = "group" /\ \A h \in (i + 1)..(x - 1) : T[h].k # "group"
  BY DEF T
<1> DEFINE Q(x) == x \in (i + 1)..Len(T) /\ T[x].k = "group" /\ \A h \in (i + 1)..(x - 1) : T[h].k # "group"
<1>4. Brace(i) = CHOOSE x : Q(x)
  BY <1>1
<1>5. \E x : Q(x)
  BY <1>3
<1>6. \A x : Q(x) => x = g
  BY <1>2
<1> QED
  BY <1>4, <1>5, <1>6, Zenon

LEMMA BraceFound ==
  ASSUME NEW i \in Nat, Len(Text) \in Nat
  PROVE  /\ Brace(i) = 0 => \A g \in (i + 1)..Len(Text) : Text[g].k # "group"
         /\ Brace(i) # 0 => /\ Brace(i) \in (i + 1)..Len(Text) /\ Text[Brace(i)].k = "group"
                            /\ \A h \in (i + 1)..(Brace(i) - 1) : Text[h].k # "group"
<1> DEFINE T == Text
           groups == {g \in Nat : g \in (i + 1)..Len(T) /\ T[g].k = "group"}
<1> HIDE DEF T
<1>1. CASE groups = {}
  <2>1. \A g \in (i + 1)..Len(T) : T[g].k # "group"
    BY <1>1 DEF T
  <2>2. Brace(i) = 0
    BY <2>1 DEF Brace, T
  <2> QED
    BY <2>1, <2>2 DEF T
<1>2. CASE groups # {}
  <2>1. PICK g \in groups : \A y \in groups : g =< y
    BY <1>2, LeastOf
  <2>2. g \in (i + 1)..Len(T) /\ T[g].k = "group"
    OBVIOUS
  <2>3. \A h \in (i + 1)..(g - 1) : T[h].k # "group"
    BY <2>1, <2>2 DEF T
  <2>4. Brace(i) = g
    BY <2>2, <2>3, BraceIs DEF T
  <2> QED
    BY <2>2, <2>3, <2>4 DEF T
<1> QED
  BY <1>1, <1>2

(* A token that stands in the text is the token that is read.               *)
TokenStands(f, name, b) ==
  Brace(at) = at + Len(name) + 1 /\ Between(at) = name /\ BodyAt = b /\ Text[at] = f /\ at =< Len(Text)

LEMMA TokenInText ==
  ASSUME IsList(Text), NEW f, NEW name, IsName(name), NEW b, at \in Nat \ {0},
         at + Len(name) + 1 =< Len(Text),
         \A x \in 1..(Len(name) + 2) : Text[at - 1 + x] = Piece(f, name, b)[x]
  PROVE  TokenStands(f, name, b)
<1> DEFINE T == Text
           P == Piece(f, name, b)
           n == Len(name)
           g == at + n + 1
<1>1. /\ IsList(T) /\ Len(T) \in Nat /\ n \in Nat /\ g =< Len(T)
      /\ \A x \in 1..(n + 2) : T[at - 1 + x] = P[x]
  BY ListFacts DEF IsName
<1>2. /\ P[1] = f /\ P[n + 2] = Group(b) /\ \A i \in 1..n : P[i + 1] = name[i]
      /\ \A i \in 1..n : name[i].k # "group"
  BY PieceFacts DEF IsName
<1> HIDE DEF T, P, n
<1>3. T[at] = f
  <2>1. 1 \in 1..(n + 2) /\ at - 1 + 1 = at
    BY <1>1
  <2> QED
    BY <1>1, <1>2, <2>1
<1>4. T[g] = Group(b)
  <2>1. n + 2 \in 1..(n + 2) /\ at - 1 + (n + 2) = g
    BY <1>1
  <2> QED
    BY <1>1, <1>2, <2>1
<1>5. ASSUME NEW i \in 1..n PROVE T[at + i] = name[i]
  <2>1. i + 1 \in 1..(n + 2) /\ at - 1 + (i + 1) = at + i
    BY <1>1
  <2> QED
    BY <1>1, <1>2, <2>1
<1>6. Brace(at) = g
  <2>1. ASSUME NEW h \in (at + 1)..(g - 1) PROVE T[h].k # "group"
    <3>1. h - at \in 1..n /\ at + (h - at) = h
      BY <1>1
    <3> QED
      BY <1>2, <1>5, <3>1
  <2>2. T[g].k = "group"
    BY <1>4 DEF Group
  <2>3. g \in (at + 1)..Len(T)
    BY <1>1
  <2> QED
    BY <1>1, <2>1, <2>2, <2>3, BraceIs DEF T
<1>7. Between(at) = name
  <2> DEFINE s == SubSeq(T, at + 1, g - 1)
  <2>1. at + 1 \in Nat /\ g - 1 \in Nat /\ 1 =< at + 1 /\ g - 1 =< Len(T) /\ at + 1 =< g - 1 + 1
        /\ g - 1 + 1 - (at + 1) = n
    BY <1>1
  <2> HIDE DEF g
  <2>2. /\ IsList(s) /\ Len(s) = g - 1 + 1 - (at + 1)
        /\ \A i \in 1..(g - 1 + 1 - (at + 1)) : s[i] = T[at + 1 + i - 1]
    BY <1>1, <2>1, SubLists
  <2>3. Len(s) = n /\ \A i \in 1..n : s[i] = T[at + 1 + i - 1]
    BY <2>1, <2>2
  <2> HIDE DEF s
  <2>4. \A i \in 1..n : s[i] = name[i]
    <3> SUFFICES ASSUME NEW i \in 1..n PROVE s[i] = name[i]
      OBVIOUS
    <3>1. at + 1 + i - 1 = at + i
      BY <1>1
    <3> QED
      BY <1>5, <2>3, <3>1
  <2>5. s = name
    BY <2>2, <2>3, <2>4, EqualLists DEF n, IsName
  <2> QED
    BY <1>6, <2>5 DEF s, Between, T
<1>8. BodyAt = b
  <2>1. Group(b).body = b
    BY DEF Group
  <2> QED
    BY <1>4, <1>6, <2>1 DEF BodyAt, T
<1> QED
  BY <1>1, <1>3, <1>6, <1>7, <1>8 DEF T, n, TokenStands

(* What stands between a sigil and its group is a name.                     *)
LEMMA BetweenIsName ==
  ASSUME IsList(Text), at \in Nat \ {0}, Brace(at) # 0
  PROVE  IsName(Between(at)) /\ Brace(at) \in (at + 1)..Len(Text) /\ Text[Brace(at)].k = "group"
<1> DEFINE T == Text
           g == Brace(at)
           s == SubSeq(T, at + 1, g - 1)
<1>1. IsList(T) /\ Len(T) \in Nat
  BY ListFacts
<1>2. g \in (at + 1)..Len(T) /\ T[g].k = "group" /\ \A h \in (at + 1)..(g - 1) : T[h].k # "group"
  BY <1>1, BraceFound
<1> HIDE DEF T, g
<1>3. at + 1 \in Nat /\ g - 1 \in Nat /\ 1 =< at + 1 /\ g - 1 =< Len(T) /\ at + 1 =< g - 1 + 1
  BY <1>1, <1>2
<1>4. /\ IsList(s) /\ Len(s) = g - 1 + 1 - (at + 1)
      /\ \A i \in 1..(g - 1 + 1 - (at + 1)) : s[i] = T[at + 1 + i - 1]
  BY <1>1, <1>3, SubLists
<1> HIDE DEF s
<1>5. ASSUME NEW i \in 1..Len(s) PROVE s[i].k # "group"
  <2>1. at + 1 + i - 1 \in (at + 1)..(g - 1) /\ i \in 1..(g - 1 + 1 - (at + 1))
    BY <1>2, <1>4
  <2> QED
    BY <1>2, <1>4, <2>1
<1>6. s = Between(at)
  BY DEF s, T, g, Between
<1> QED
  BY <1>2, <1>4, <1>5, <1>6 DEF T, g, IsName

-----------------------------------------------------------------------------
(* What a chunk of a scan refers to is found, and stays what it is.         *)
Numbered(list, n) ==
  \A i, j \in 1..Len(list) : list[i].id \in 1..n /\ (list[i].id = list[j].id => i = j)
Begins(l, m) == Len(l) =< Len(m) /\ \A i \in 1..Len(l) : m[i] = l[i]

Tidy(v) ==
  /\ IsScan(v) /\ IsList(v.literal) /\ IsList(v.chunks) /\ IsList(v.ingredients) /\ IsList(v.cookware)
  /\ IsList(v.timers) /\ IsList(v.temperatures) /\ IsList(v.uses)
  /\ v.counter \in Nat /\ Numbered(v.ingredients, v.counter) /\ Numbered(v.cookware, v.counter)

ChunkKinds == {"text", "ingredient", "cookware", "state", "timer", "temperature"}

Refers(v, c) ==
  /\ c.kind \in ChunkKinds
  /\ c.kind = "ingredient"  => \E i \in 1..Len(v.ingredients) : v.ingredients[i].id = c.ref
  /\ c.kind = "cookware"    => \E i \in 1..Len(v.cookware) : v.cookware[i].id = c.ref
  /\ c.kind = "timer"       => c.ref + 1 \in 1..Len(v.timers)
  /\ c.kind = "temperature" => c.ref + 1 \in 1..Len(v.temperatures)

Grows(v, w) ==
  /\ Begins(v.ingredients, w.ingredients) /\ Begins(v.cookware, w.cookware)
  /\ Begins(v.timers, w.timers) /\ Begins(v.temperatures, w.temperatures)

(* How each kind of chunk is printed.                                      *)
LEMMA PrintsText ==
  ASSUME NEW as, NEW a, NEW c, c.kind = "text" PROVE PrintChunk(as, a, c) = c.text
  BY Zenon DEF PrintChunk
LEMMA PrintsIngredient ==
  ASSUME NEW as, NEW a, NEW c, c.kind = "ingredient" PROVE PrintChunk(as, a, c) = IngredientToken(WithId(a.ingredients, c.ref))
  BY Zenon DEF PrintChunk
LEMMA PrintsCookware ==
  ASSUME NEW as, NEW a, NEW c, c.kind = "cookware" PROVE PrintChunk(as, a, c) = CookwareToken(WithId(a.cookware, c.ref))
  BY Zenon DEF PrintChunk
LEMMA PrintsState ==
  ASSUME NEW as, NEW a, NEW c, c.kind = "state" PROVE PrintChunk(as, a, c) = Reference(as, c.ref)
  BY Zenon DEF PrintChunk
LEMMA PrintsTimer ==
  ASSUME NEW as, NEW a, NEW c, c.kind = "timer" PROVE PrintChunk(as, a, c) = TimerToken(a.timers[c.ref + 1])
  BY Zenon DEF PrintChunk
LEMMA PrintsTemperature ==
  ASSUME NEW as, NEW a, NEW c, c.kind = "temperature" PROVE PrintChunk(as, a, c) = TemperatureToken(a.temperatures[c.ref + 1])
  BY Zenon DEF PrintChunk

LEMMA WithIdIs ==
  ASSUME NEW l, IsList(l), NEW n, Numbered(l, n), NEW i \in 1..Len(l)
  PROVE  WithId(l, l[i].id) = l[i]
<1> DEFINE Q(x) == x \in DOMAIN l /\ l[x].id = l[i].id
<1>1. DOMAIN l = 1..Len(l)
  BY ListFacts
<1>2. Q(i) /\ \A x : Q(x) => x = i
  BY <1>1 DEF Numbered
<1>3. WithId(l, l[i].id) = l[CHOOSE x : Q(x)]
  BY DEF WithId
<1>4. (CHOOSE x : Q(x)) = i
  BY <1>2, Zenon
<1> QED
  BY <1>3, <1>4, Zenon

LEMMA WithIdStays ==
  ASSUME NEW l, NEW m, IsList(l), IsList(m), Begins(l, m), NEW n, Numbered(m, n), NEW id,
         \E i \in 1..Len(l) : l[i].id = id
  PROVE  WithId(m, id) = WithId(l, id) /\ \E i \in 1..Len(m) : m[i].id = id
<1>1. PICK i \in 1..Len(l) : l[i].id = id
  OBVIOUS
<1>2. Len(l) \in Nat /\ Len(m) \in Nat
  BY ListFacts
<1>3. i \in 1..Len(m) /\ m[i] = l[i] /\ m[i].id = id
  BY <1>1, <1>2 DEF Begins
<1>4. Numbered(l, n)
  BY <1>2 DEF Begins, Numbered
<1>5. WithId(m, m[i].id) = m[i]
  BY <1>3, WithIdIs
<1>6. WithId(l, l[i].id) = l[i]
  BY <1>4, WithIdIs
<1> QED
  BY <1>1, <1>3, <1>5, <1>6

LEMMA RefersStays ==
  ASSUME NEW v, NEW w, Grows(v, w), Tidy(v), Tidy(w), NEW c, Refers(v, c)
  PROVE  Refers(w, c)
<1> DEFINE k == c.kind
           r == c.ref
           l1 == v.ingredients
           m1 == w.ingredients
           l2 == v.cookware
           m2 == w.cookware
           l3 == v.timers
           m3 == w.timers
           l4 == v.temperatures
           m4 == w.temperatures
           n == w.counter
<1>1. /\ IsList(l1) /\ IsList(m1) /\ Begins(l1, m1) /\ IsList(l2) /\ IsList(m2) /\ Begins(l2, m2)
      /\ IsList(l3) /\ IsList(m3) /\ Begins(l3, m3) /\ IsList(l4) /\ IsList(m4) /\ Begins(l4, m4)
      /\ Numbered(m1, n) /\ Numbered(m2, n)
  BY DEF Tidy, Grows
<1>2. /\ k \in ChunkKinds
      /\ k = "ingredient"  => \E i \in 1..Len(l1) : l1[i].id = r
      /\ k = "cookware"    => \E i \in 1..Len(l2) : l2[i].id = r
      /\ k = "timer"       => r + 1 \in 1..Len(l3)
      /\ k = "temperature" => r + 1 \in 1..Len(l4)
  BY DEF Refers
<1> HIDE DEF l1, m1, l2, m2, l3, m3, l4, m4, n, k, r
<1>3. k = "ingredient" => WithId(m1, r) = WithId(l1, r) /\ \E i \in 1..Len(m1) : m1[i].id = r
  BY <1>1, <1>2, WithIdStays
<1>4. k = "cookware" => WithId(m2, r) = WithId(l2, r) /\ \E i \in 1..Len(m2) : m2[i].id = r
  BY <1>1, <1>2, WithIdStays
<1>5. k = "timer" => m3[r + 1] = l3[r + 1] /\ r + 1 \in 1..Len(m3)
  <2>1. Len(l3) \in Nat /\ Len(m3) \in Nat
    BY <1>1, ListFacts
  <2> QED
    BY <1>1, <1>2, <2>1 DEF Begins
<1>6. k = "temperature" => m4[r + 1] = l4[r + 1] /\ r + 1 \in 1..Len(m4)
  <2>1. Len(l4) \in Nat /\ Len(m4) \in Nat
    BY <1>1, ListFacts
  <2> QED
    BY <1>1, <1>2, <2>1 DEF Begins
<1> QED
  BY <1>2, <1>3, <1>4, <1>5, <1>6 DEF Refers, k, r, m1, m2, m3, m4

LEMMA ChunkStays ==
  ASSUME NEW as, NEW v, NEW w, Grows(v, w), Tidy(v), Tidy(w), NEW c, Refers(v, c)
  PROVE  PrintChunk(as, w, c) = PrintChunk(as, v, c)
<1> DEFINE k == c.kind
           r == c.ref
           l1 == v.ingredients
           m1 == w.ingredients
           l2 == v.cookware
           m2 == w.cookware
           l3 == v.timers
           m3 == w.timers
           l4 == v.temperatures
           m4 == w.temperatures
           n == w.counter
<1>1. /\ IsList(l1) /\ IsList(m1) /\ Begins(l1, m1) /\ IsList(l2) /\ IsList(m2) /\ Begins(l2, m2)
      /\ IsList(l3) /\ IsList(m3) /\ Begins(l3, m3) /\ IsList(l4) /\ IsList(m4) /\ Begins(l4, m4)
      /\ Numbered(m1, n) /\ Numbered(m2, n)
  BY DEF Tidy, Grows
<1>2. /\ k \in ChunkKinds
      /\ k = "ingredient"  => \E i \in 1..Len(l1) : l1[i].id = r
      /\ k = "cookware"    => \E i \in 1..Len(l2) : l2[i].id = r
      /\ k = "timer"       => r + 1 \in 1..Len(l3)
      /\ k = "temperature" => r + 1 \in 1..Len(l4)
  BY DEF Refers
<1> HIDE DEF l1, m1, l2, m2, l3, m3, l4, m4, n, k, r
<1>3. k = "ingredient" => WithId(m1, r) = WithId(l1, r) /\ \E i \in 1..Len(m1) : m1[i].id = r
  BY <1>1, <1>2, WithIdStays
<1>4. k = "cookware" => WithId(m2, r) = WithId(l2, r) /\ \E i \in 1..Len(m2) : m2[i].id = r
  BY <1>1, <1>2, WithIdStays
<1>5. k = "timer" => m3[r + 1] = l3[r + 1] /\ r + 1 \in 1..Len(m3)
  <2>1. Len(l3) \in Nat /\ Len(m3) \in Nat
    BY <1>1, ListFacts
  <2> QED
    BY <1>1, <1>2, <2>1 DEF Begins
<1>6. k = "temperature" => m4[r + 1] = l4[r + 1] /\ r + 1 \in 1..Len(m4)
  <2>1. Len(l4) \in Nat /\ Len(m4) \in Nat
    BY <1>1, ListFacts
  <2> QED
    BY <1>1, <1>2, <2>1 DEF Begins
<1>8. ASSUME k = "ingredient" PROVE PrintChunk(as, w, c) = PrintChunk(as, v, c)
  <2>1. PrintChunk(as, w, c) = IngredientToken(WithId(m1, r)) /\ PrintChunk(as, v, c) = IngredientToken(WithId(l1, r))
    BY <1>8, PrintsIngredient, Zenon DEF k, r, l1, m1
  <2> QED
    BY <1>3, <1>8, <2>1, Zenon
<1>9. ASSUME k = "cookware" PROVE PrintChunk(as, w, c) = PrintChunk(as, v, c)
  <2>1. PrintChunk(as, w, c) = CookwareToken(WithId(m2, r)) /\ PrintChunk(as, v, c) = CookwareToken(WithId(l2, r))
    BY <1>9, PrintsCookware, Zenon DEF k, r, l2, m2
  <2> QED
    BY <1>4, <1>9, <2>1, Zenon
<1>10. ASSUME k = "timer" PROVE PrintChunk(as, w, c) = PrintChunk(as, v, c)
  <2>1. PrintChunk(as, w, c) = TimerToken(m3[r + 1]) /\ PrintChunk(as, v, c) = TimerToken(l3[r + 1])
    BY <1>10, PrintsTimer, Zenon DEF k, r, l3, m3
  <2> QED
    BY <1>5, <1>10, <2>1, Zenon
<1>11. ASSUME k = "temperature" PROVE PrintChunk(as, w, c) = PrintChunk(as, v, c)
  <2>1. /\ PrintChunk(as, w, c) = TemperatureToken(m4[r + 1])
        /\ PrintChunk(as, v, c) = TemperatureToken(l4[r + 1])
    BY <1>11, PrintsTemperature, Zenon DEF k, r, l4, m4
  <2> QED
    BY <1>6, <1>11, <2>1, Zenon
<1>12. k = "text" => PrintChunk(as, w, c) = PrintChunk(as, v, c)
  BY PrintsText, Zenon DEF k
<1>13. k = "state" => PrintChunk(as, w, c) = PrintChunk(as, v, c)
  BY PrintsState, Zenon DEF k
<1> QED
  BY <1>2, <1>8, <1>9, <1>10, <1>11, <1>12, <1>13 DEF ChunkKinds

(* What appending does to a list.                                          *)
LEMMA Appended ==
  ASSUME NEW l, IsList(l), NEW x, NEW m, m = Append(l, x)
  PROVE  /\ IsList(m) /\ Len(l) \in Nat /\ Len(m) = Len(l) + 1
         /\ Begins(l, m) /\ m[Len(l) + 1] = x
  BY AppendToList DEF Begins

LEMMA SameList == ASSUME NEW l, IsList(l) PROVE Begins(l, l)
  BY ListFacts DEF Begins

LEMMA NumberedAppend ==
  ASSUME NEW l, IsList(l), NEW n \in Nat, Numbered(l, n), NEW x, x.id = n + 1
  PROVE  Numbered(Append(l, x), n + 1)
<1> DEFINE m == Append(l, x)
<1>1. m = Append(l, x)
  OBVIOUS
<1> HIDE DEF m
<1>2. /\ Len(l) \in Nat /\ Len(m) = Len(l) + 1 /\ m[Len(l) + 1] = x /\ \A i \in 1..Len(l) : m[i] = l[i]
  BY <1>1, Appended DEF Begins
<1>3. \A i \in 1..Len(m) : i \in 1..Len(l) \/ i = Len(l) + 1
  BY <1>2
<1>4. \A i \in 1..Len(l) : m[i].id \in 1..n /\ m[i].id # n + 1
  BY <1>2 DEF Numbered
<1>5. m[Len(l) + 1].id = n + 1
  BY <1>2
<1>6. \A i \in 1..Len(m) : m[i].id \in 1..(n + 1)
  BY <1>3, <1>4, <1>5
<1>7. ASSUME NEW i \in 1..Len(m), NEW j \in 1..Len(m), m[i].id = m[j].id PROVE i = j
  <2>1. CASE i \in 1..Len(l) /\ j \in 1..Len(l)
    BY <1>2, <1>7, <2>1 DEF Numbered
  <2>2. CASE i = Len(l) + 1
    BY <1>3, <1>4, <1>5, <1>7, <2>2
  <2>3. CASE j = Len(l) + 1
    BY <1>3, <1>4, <1>5, <1>7, <2>3
  <2> QED
    BY <1>3, <2>1, <2>2, <2>3
<1>8. Numbered(m, n + 1)
  BY <1>6, <1>7 DEF Numbered
<1> QED
  BY <1>1, <1>8

LEMMA NumberedMore ==
  ASSUME NEW l, NEW n \in Nat, Numbered(l, n)
  PROVE  Numbered(l, n + 1)
<1>1. \A i \in 1..Len(l) : l[i].id \in 1..(n + 1)
  BY DEF Numbered
<1> QED
  BY <1>1 DEF Numbered

-----------------------------------------------------------------------------
(* Joining one text more, joining nothing, and joining one by one.          *)
LEMMA JoinsAt ==
  ASSUME NEW f, NEW l, NEW n \in Nat, Joins(f, l, n)
  PROVE  f[0] = <<>> /\ \A k \in 1..n : f[k] = f[k - 1] \o l[k]
<1>1. \A k \in 0..n : f[k] = IF k = 0 THEN <<>> ELSE f[k - 1] \o l[k]
  BY Zenon DEF Joins
<1>2. 0 \in 0..n /\ \A k \in 1..n : k \in 0..n /\ k # 0
  OBVIOUS
<1> QED
  BY <1>1, <1>2

LEMMA JoinsNext ==
  ASSUME NEW f, NEW l, NEW n \in Nat, Joins(f, l, n), NEW k \in 1..n
  PROVE  f[k] = f[k - 1] \o l[k]
  BY JoinsAt, Zenon

LEMMA UpToIs == ASSUME NEW l, Len(l) \in Nat PROVE Joins(UpTo(l), l, Len(l))
<1> DEFINE u == UpTo(l)
           n == Len(l)
<1>1. u = CHOOSE f : Joins(f, l, n)
  BY DEF UpTo, Joins
<1> HIDE DEF u, n
<1>2. \E f : Joins(f, l, n)
  BY JoinsExist DEF n
<1>3. Joins(u, l, n)
  BY <1>1, <1>2, Zenon
<1> QED
  BY <1>3 DEF u, n

LEMMA JoinsAgree ==
  ASSUME NEW f, NEW l, NEW a \in Nat, Joins(f, l, a), NEW g, NEW m, NEW b \in Nat, Joins(g, m, b),
         NEW n \in Nat, n =< a, n =< b, \A k \in 1..n : l[k] = m[k]
  PROVE  f[n] = g[n]
<1>1. \A k \in 1..a : f[k] = f[k - 1] \o l[k]
  BY JoinsNext, Zenon
<1>2. \A k \in 1..b : g[k] = g[k - 1] \o m[k]
  BY JoinsNext, Zenon
<1>3. f[0] = <<>> /\ g[0] = <<>>
  BY JoinsAt
<1>4. ASSUME NEW k \in 1..n, f[k - 1] = g[k - 1] PROVE f[k] = g[k]
  <2>1. k \in 1..a /\ k \in 1..b
    OBVIOUS
  <2> QED
    BY <1>1, <1>2, <1>4, <2>1, Zenon
<1> DEFINE wrong == {k \in Nat : k =< n /\ f[k] # g[k]}
<1>5. wrong = {}
  <2> SUFFICES ASSUME wrong # {} PROVE FALSE
    OBVIOUS
  <2>1. PICK k \in wrong : \A y \in wrong : k =< y
    BY LeastOf
  <2>2. k \in Nat /\ k =< n /\ f[k] # g[k]
    OBVIOUS
  <2>3. k - 1 \in Nat /\ k - 1 =< n /\ k \in 1..n
    BY <1>3, <2>2
  <2>4. f[k - 1] = g[k - 1]
    BY <2>1, <2>2, <2>3
  <2> QED
    BY <1>4, <2>2, <2>3, <2>4
<1> QED
  BY <1>5

LEMMA ConcatLast ==
  ASSUME NEW l, NEW m, Len(l) \in Nat, Len(m) \in Nat, Len(m) = Len(l) + 1, \A i \in 1..Len(l) : m[i] = l[i]
  PROVE  Concat(m) = Concat(l) \o m[Len(m)]
<1> DEFINE f == UpTo(l)
           g == UpTo(m)
<1>1. Joins(f, l, Len(l))
  BY UpToIs
<1>2. Joins(g, m, Len(m))
  BY UpToIs
<1>3. Concat(l) = f[Len(l)] /\ Concat(m) = g[Len(m)]
  BY DEF Concat
<1> HIDE DEF f, g
<1>4. g[Len(m)] = f[Len(l)] \o m[Len(m)]
  <2>1. Len(l) =< Len(l) /\ Len(l) =< Len(m) /\ Len(m) \in 1..Len(m) /\ Len(m) - 1 = Len(l)
    OBVIOUS
  <2>2. \A i \in 1..Len(l) : l[i] = m[i]
    OBVIOUS
  <2>3. f[Len(l)] = g[Len(l)]
    BY <1>1, <1>2, <2>1, <2>2, JoinsAgree
  <2>4. g[Len(m)] = g[Len(m) - 1] \o m[Len(m)]
    BY <1>2, <2>1, JoinsNext
  <2> QED
    BY <2>1, <2>3, <2>4, Zenon
<1> QED
  BY <1>3, <1>4, Zenon

LEMMA ConcatMore ==
  ASSUME NEW l, IsList(l), NEW x, NEW m, m = Append(l, x)
  PROVE  Concat(m) = Concat(l) \o x
<1>1. /\ Len(l) \in Nat /\ Len(m) \in Nat /\ Len(m) = Len(l) + 1 /\ m[Len(m)] = x
      /\ \A i \in 1..Len(l) : m[i] = l[i]
  BY Appended DEF Begins
<1>2. Concat(m) = Concat(l) \o m[Len(m)]
  BY <1>1, ConcatLast
<1> QED
  BY <1>1, <1>2, Zenon

LEMMA ConcatIs ==
  ASSUME NEW l, Len(l) \in Nat, NEW f, Joins(f, l, Len(l))
  PROVE  Concat(l) = f[Len(l)]
<1> DEFINE n == Len(l)
           u == UpTo(l)
<1>1. Joins(u, l, n) /\ n \in Nat /\ Concat(l) = u[n] /\ Joins(f, l, n)
  BY UpToIs DEF Concat
<1> HIDE DEF n, u
<1>2. n =< n /\ \A k \in 1..n : l[k] = l[k]
  BY <1>1
<1>3. u[n] = f[n]
  BY <1>1, <1>2, JoinsAgree
<1> QED
  BY <1>1, <1>3 DEF n

LEMMA ConcatNone ==
  ASSUME NEW l, Len(l) \in Nat, \A i \in 1..Len(l) : l[i] = <<>>
  PROVE  Concat(l) = <<>>
<1> DEFINE n == Len(l)
           f == [k \in 0..n |-> <<>>]
           e == <<>>
<1>1. e \o e = e
  OBVIOUS
<1>2. \A k \in 0..n : f[k] = IF k = 0 THEN e ELSE f[k - 1] \o l[k]
  <2> SUFFICES ASSUME NEW k \in 0..n PROVE f[k] = IF k = 0 THEN e ELSE f[k - 1] \o l[k]
    OBVIOUS
  <2>1. f[k] = e
    OBVIOUS
  <2>2. CASE k = 0
    BY <2>1, <2>2
  <2>3. CASE k # 0
    <3>1. k - 1 \in 0..n /\ k \in 1..n
      BY <2>3
    <3>2. f[k - 1] = e /\ l[k] = e
      BY <3>1
    <3> HIDE DEF f, e
    <3> QED
      BY <1>1, <2>1, <2>3, <3>2
  <2> QED
    BY <2>2, <2>3
<1>3. f = [k \in 0..n |-> f[k]]
  OBVIOUS
<1>4. f[n] = e
  OBVIOUS
<1>9. e = <<>>
  OBVIOUS
<1> HIDE DEF f, e
<1>5. f = [k \in 0..n |-> IF k = 0 THEN e ELSE f[k - 1] \o l[k]]
  BY <1>2, <1>3
<1>6. Joins(f, l, n)
  BY <1>5, <1>9 DEF Joins
<1> QED
  BY <1>4, <1>6, <1>9, ConcatIs

(* A list of single blocks, joined, is the list of the blocks.              *)
LEMMA ConcatOnes ==
  ASSUME NEW s, IsList(s), NEW l, Len(l) = Len(s), \A i \in 1..Len(s) : l[i] = <<s[i]>>
  PROVE  Concat(l) = s
<1> DEFINE n == Len(l)
           f == [k \in 0..n |-> SubSeq(s, 1, k)]
<1>1. n \in Nat /\ n = Len(s)
  BY ListFacts
<1>2. ASSUME NEW k \in 0..n
      PROVE  IsList(f[k]) /\ Len(f[k]) = k /\ \A i \in 1..k : f[k][i] = s[i]
  <2> DEFINE j == SubSeq(s, 1, k)
  <2>1. k \in Nat /\ 1 =< 1 /\ k =< Len(s) /\ 1 =< k + 1 /\ k + 1 - 1 = k
    BY <1>1
  <2>2. IsList(j) /\ Len(j) = k + 1 - 1 /\ \A i \in 1..(k + 1 - 1) : j[i] = s[1 + i - 1]
    BY <2>1, SubLists
  <2>4. f[k] = j
    OBVIOUS
  <2> HIDE DEF j, f
  <2>3. IsList(j) /\ Len(j) = k /\ \A i \in 1..k : j[i] = s[i]
    <3>1. \A i \in 1..k : 1 + i - 1 = i
      BY <2>1
    <3> QED
      BY <2>1, <2>2, <3>1
  <2> QED
    BY <2>3, <2>4
<1>8. f = [k \in 0..n |-> f[k]]
  OBVIOUS
<1> HIDE DEF f
<1>3. f[0] = <<>>
  <2>1. 0 \in 0..n
    BY <1>1
  <2> QED
    BY <1>2, <2>1, EmptyList
<1>4. ASSUME NEW k \in 1..n PROVE f[k] = f[k - 1] \o l[k]
  <2> DEFINE p == f[k - 1]
             q == l[k]
             r == p \o q
             h == f[k]
  <2>1. k - 1 \in 0..n /\ k \in 0..n
    BY <1>1
  <2>2. IsList(p) /\ Len(p) = k - 1 /\ \A i \in 1..(k - 1) : p[i] = s[i]
    BY <1>2, <2>1
  <2>3. IsList(h) /\ Len(h) = k /\ \A i \in 1..k : h[i] = s[i]
    BY <1>2, <2>1
  <2>4. IsList(q) /\ Len(q) = 1 /\ q[1] = s[k]
    BY <1>1, OneIsList
  <2>5. r = p \o q
    OBVIOUS
  <2> HIDE DEF p, q, r, h
  <2>6. /\ IsList(r) /\ Len(r) = Len(p) + Len(q)
        /\ \A i \in 1..Len(p) : r[i] = p[i]
        /\ \A i \in 1..Len(q) : r[Len(p) + i] = q[i]
    <3>1. IsList(p) /\ IsList(q) /\ r = p \o q
      BY <2>2, <2>4, <2>5
    <3> QED
      BY <3>1, JoinedLists
  <2>7. Len(r) = k /\ r[k] = s[k] /\ \A i \in 1..(k - 1) : r[i] = s[i]
    <3>1. Len(p) + 1 = k /\ 1 \in 1..Len(q) /\ k - 1 + 1 = k
      BY <2>2, <2>4
    <3>2. r[Len(p) + 1] = q[1]
      BY <2>6, <3>1
    <3> QED
      BY <2>2, <2>4, <2>6, <3>1, <3>2
  <2>8. \A i \in 1..k : h[i] = r[i]
    <3>1. \A i \in 1..k : i \in 1..(k - 1) \/ i = k
      BY <2>1
    <3> QED
      BY <2>3, <2>7, <3>1
  <2>9. h = r
    BY <2>3, <2>6, <2>7, <2>8, EqualLists
  <2> QED
    BY <2>5, <2>9 DEF h, p, q
<1>5. \A k \in 0..n : f[k] = IF k = 0 THEN <<>> ELSE f[k - 1] \o l[k]
  <2>1. \A k \in 0..n : k = 0 \/ k \in 1..n
    BY <1>1
  <2> QED
    BY <1>3, <1>4, <2>1
<1>6. Joins(f, l, n)
  BY <1>5, <1>8 DEF Joins
<1>7. Concat(l) = f[n]
  BY <1>1, <1>6, ConcatIs
<1>9. n \in 0..n
  BY <1>1
<1>10. IsList(f[n]) /\ Len(f[n]) = n /\ \A i \in 1..n : f[n][i] = s[i]
  BY <1>2, <1>9
<1>11. f[n] = s
  BY <1>1, <1>10, EqualLists
<1> QED
  BY <1>7, <1>11

-----------------------------------------------------------------------------
(* What is printed for a scan: its chunks, and the literal behind them.      *)
Pieces(as, v)  == [j \in DOMAIN v.chunks |-> PrintChunk(as, v, v.chunks[j])]
Printed(as, v) == Concat(Pieces(as, v)) \o v.literal

Sound(as, v) ==
  /\ Tidy(v) /\ Len(v.ingredients) =< Len(v.chunks)
  /\ \A i \in 1..Len(v.uses) : \E j \in 1..Len(v.chunks) : v.chunks[j] = Chunk("state", v.uses[i])
  /\ \A j \in 1..Len(v.chunks) : Refers(v, v.chunks[j]) /\ IsList(PrintChunk(as, v, v.chunks[j]))

LEMMA PiecesAre ==
  ASSUME NEW as, NEW v, IsList(v.chunks)
  PROVE  /\ Len(v.chunks) \in Nat /\ IsList(Pieces(as, v)) /\ Len(Pieces(as, v)) = Len(v.chunks)
         /\ \A j \in 1..Len(v.chunks) : Pieces(as, v)[j] = PrintChunk(as, v, v.chunks[j])
<1> DEFINE l == v.chunks
           p == Pieces(as, v)
           n == Len(l)
<1>1. n \in Nat /\ DOMAIN l = 1..n
  BY ListFacts
<1>2. p = [j \in 1..n |-> PrintChunk(as, v, l[j])]
  BY <1>1 DEF Pieces
<1> HIDE DEF p, n, l
<1>3. p = [j \in 1..n |-> p[j]] /\ \A j \in 1..n : p[j] = PrintChunk(as, v, l[j])
  BY <1>2
<1>4. IsList(p) /\ Len(p) = n
  BY <1>1, <1>3, IsAList
<1> QED
  BY <1>1, <1>3, <1>4 DEF p, n, l

LEMMA PrintedIsList ==
  ASSUME NEW as, NEW v, Sound(as, v)
  PROVE  IsList(Concat(Pieces(as, v))) /\ IsList(Printed(as, v))
<1> DEFINE p == Pieces(as, v)
           t == Concat(p)
<1>1. IsList(v.chunks) /\ IsList(v.literal)
  BY DEF Sound, Tidy
<1>2. IsList(p) /\ Len(p) = Len(v.chunks) /\ Len(p) \in Nat /\ \A j \in 1..Len(p) : IsList(p[j])
  BY <1>1, PiecesAre DEF Sound
<1> HIDE DEF p
<1>3. Len(p) \in 0..Len(p) /\ t = UpTo(p)[Len(p)]
  BY <1>2 DEF Concat
<1>4. IsList(t)
  BY <1>2, <1>3, UpToJoins
<1> HIDE DEF t
<1>5. IsList(t \o v.literal)
  BY <1>1, <1>4, JoinedLists
<1> QED
  BY <1>4, <1>5 DEF t, p, Printed

(* A chunk more, and what it refers to.                                     *)
LEMMA ChunkMore ==
  ASSUME NEW as, NEW v, Sound(as, v), NEW w, Tidy(w), Grows(v, w),
         NEW c, w.chunks = Append(v.chunks, c), Refers(w, c), IsList(PrintChunk(as, w, c)),
         Len(w.ingredients) =< Len(v.ingredients) + 1,
         \A i \in 1..Len(w.uses) : \/ \E x \in 1..Len(v.uses) : v.uses[x] = w.uses[i]
                                   \/ c = Chunk("state", w.uses[i])
  PROVE  Sound(as, w) /\ Concat(Pieces(as, w)) = Concat(Pieces(as, v)) \o PrintChunk(as, w, c)
<1> DEFINE old == v.chunks
           new == w.chunks
           n == Len(old)
           p == Pieces(as, v)
           q == Pieces(as, w)
<1>1. IsList(old) /\ IsList(new) /\ new = Append(old, c) /\ Tidy(v)
  BY DEF Sound, Tidy
<1>2. n \in Nat /\ Len(new) = n + 1 /\ new[n + 1] = c /\ \A j \in 1..n : new[j] = old[j]
  <2> HIDE DEF old, new
  <2> QED
    BY <1>1, Appended DEF Begins
<1>3. /\ Len(p) = n /\ \A j \in 1..n : p[j] = PrintChunk(as, v, old[j])
      /\ Len(q) = Len(new) /\ \A j \in 1..Len(new) : q[j] = PrintChunk(as, w, new[j])
  BY <1>1, PiecesAre
<1>4. \A j \in 1..n : Refers(v, old[j]) /\ IsList(PrintChunk(as, v, old[j]))
  BY DEF Sound
<1>5. \A j \in 1..n : \E x \in 1..Len(new) : new[x] = old[j]
  <2>1. \A j \in 1..n : j \in 1..Len(new)
    BY <1>2
  <2> QED
    BY <1>2, <2>1
<1>6. Len(w.ingredients) =< Len(new)
  <2>1. Len(v.ingredients) \in Nat /\ Len(w.ingredients) \in Nat
    BY <1>1, ListFacts DEF Tidy
  <2>2. Len(v.ingredients) =< n
    BY DEF Sound
  <2> HIDE DEF n, old, new
  <2> QED
    BY <1>2, <2>1, <2>2
<1>7. \A i \in 1..Len(v.uses) : \E j \in 1..n : old[j] = Chunk("state", v.uses[i])
  BY DEF Sound
<1> HIDE DEF old, new, n, p, q
<1>8. ASSUME NEW j \in 1..n
      PROVE  PrintChunk(as, w, old[j]) = PrintChunk(as, v, old[j]) /\ Refers(w, old[j])
  <2> DEFINE x == old[j]
  <2>1. Refers(v, x)
    BY <1>4
  <2> HIDE DEF x
  <2>2. PrintChunk(as, w, x) = PrintChunk(as, v, x)
    BY <1>1, <2>1, ChunkStays
  <2>3. Refers(w, x)
    BY <1>1, <2>1, RefersStays
  <2> QED
    BY <2>2, <2>3 DEF x
<1>9. ASSUME NEW j \in 1..Len(new) PROVE Refers(w, new[j]) /\ IsList(PrintChunk(as, w, new[j]))
  <2>1. CASE j \in 1..n
    <3>1. new[j] = old[j] /\ Refers(w, old[j]) /\ IsList(PrintChunk(as, w, old[j]))
      BY <1>2, <1>4, <1>8, <2>1
    <3> QED
      BY <3>1, Zenon
  <2>2. CASE j = n + 1
    <3>1. new[j] = c
      BY <1>2, <2>2
    <3> QED
      BY <3>1, Zenon
  <2>3. j \in 1..n \/ j = n + 1
    BY <1>2
  <2> QED
    BY <2>1, <2>2, <2>3, Zenon
<1>10. ASSUME NEW i \in 1..Len(w.uses) PROVE \E j \in 1..Len(new) : new[j] = Chunk("state", w.uses[i])
  <2>1. CASE c = Chunk("state", w.uses[i])
    <3>1. n + 1 \in 1..Len(new)
      BY <1>2
    <3> QED
      BY <1>2, <2>1, <3>1
  <2>2. CASE \E x \in 1..Len(v.uses) : v.uses[x] = w.uses[i]
    BY <1>5, <1>7, <2>2
  <2> QED
    BY <2>1, <2>2
<1>11. Sound(as, w)
  BY <1>6, <1>9, <1>10 DEF Sound, new
<1>12. Len(p) \in Nat /\ Len(q) \in Nat /\ Len(q) = Len(p) + 1
  BY <1>2, <1>3
<1>13. \A j \in 1..Len(p) : q[j] = p[j]
  <2> SUFFICES ASSUME NEW j \in 1..n PROVE q[j] = p[j]
    BY <1>3
  <2>1. j \in 1..Len(new)
    BY <1>2
  <2> QED
    BY <1>2, <1>3, <1>8, <2>1
<1>14. q[Len(q)] = PrintChunk(as, w, c)
  <2>1. Len(q) = n + 1 /\ n + 1 \in 1..Len(new)
    BY <1>2, <1>3
  <2> QED
    BY <1>2, <1>3, <2>1
<1>15. Concat(q) = Concat(p) \o q[Len(q)]
  BY <1>12, <1>13, ConcatLast
<1> QED
  BY <1>11, <1>14, <1>15 DEF p, q

-----------------------------------------------------------------------------
(* Reading on, and what has been printed: a literal adds its lexeme, and      *)
(* ending the literal adds nothing.                                         *)
EndedOf(v) ==
  Scan(<<>>, IF v.literal = <<>> THEN v.chunks ELSE Append(v.chunks, Literal(v.literal)), v.ingredients,
       v.cookware, v.timers, v.temperatures, v.uses, v.counter)
WithLiteral(v, x) ==
  Scan(Append(v.literal, x), v.chunks, v.ingredients, v.cookware, v.timers, v.temperatures, v.uses, v.counter)

LEMMA JoinedAgain ==
  ASSUME NEW l, NEW m, NEW n, IsList(l), IsList(m), IsList(n)
  PROVE  (l \o m) \o n = l \o (m \o n)
<1> DEFINE A == {l[i] : i \in DOMAIN l}
           B == {m[i] : i \in DOMAIN m}
           C == {n[i] : i \in DOMAIN n}
           S == A \cup B \cup C
<1>1. l \in Seq(A) /\ m \in Seq(B) /\ n \in Seq(C)
  BY DEF IsList
<1>2. A \subseteq S /\ B \subseteq S /\ C \subseteq S
  OBVIOUS
<1> HIDE DEF A, B, C, S
<1>3. l \in Seq(S) /\ m \in Seq(S) /\ n \in Seq(S)
  BY <1>1, <1>2, SeqMonotonic, Zenon
<1> QED
  BY <1>3, ConcatAssociative

LEMMA JoinedOne ==
  ASSUME NEW l, IsList(l), NEW x
  PROVE  Append(l, x) = l \o <<x>> /\ l \o <<>> = l /\ <<>> \o l = l
<1> DEFINE S == {l[i] : i \in DOMAIN l} \cup {x}
           A == {l[i] : i \in DOMAIN l}
<1>1. l \in Seq(A)
  BY DEF IsList
<1>2. A \subseteq S /\ x \in S
  OBVIOUS
<1> HIDE DEF A, S
<1>3. l \in Seq(S)
  BY <1>1, <1>2, SeqMonotonic, Zenon
<1>4. l \o <<>> = l /\ <<>> \o l = l
  BY <1>3, ConcatEmptySeq, Zenon
<1>5. Append(l, x) = l \o <<x>>
  BY <1>2, <1>3, AppendIsConcat, Zenon
<1> QED
  BY <1>4, <1>5

LEMMA SamePieces ==
  ASSUME NEW as, NEW v, Sound(as, v), NEW w, Tidy(w), w.chunks = v.chunks, w.ingredients = v.ingredients,
         w.cookware = v.cookware, w.timers = v.timers, w.temperatures = v.temperatures, w.uses = v.uses
  PROVE  Sound(as, w) /\ Concat(Pieces(as, w)) = Concat(Pieces(as, v))
<1> DEFINE l == v.chunks
           n == Len(l)
<1>1. IsList(l) /\ w.chunks = l /\ Tidy(v)
  BY DEF Sound, Tidy
<1>2. Grows(v, w)
  BY SameList DEF Sound, Tidy, Grows
<1>3. \A j \in 1..n : Refers(v, l[j]) /\ IsList(PrintChunk(as, v, l[j]))
  BY DEF Sound
<1>4. ASSUME NEW j \in 1..n
      PROVE  PrintChunk(as, w, l[j]) = PrintChunk(as, v, l[j]) /\ Refers(w, l[j])
  <2> DEFINE x == l[j]
  <2>1. Refers(v, x)
    BY <1>3
  <2> HIDE DEF x, l, n
  <2>2. PrintChunk(as, w, x) = PrintChunk(as, v, x)
    BY <1>1, <1>2, <2>1, ChunkStays
  <2>3. Refers(w, x)
    BY <1>1, <1>2, <2>1, RefersStays
  <2> QED
    BY <2>2, <2>3 DEF x
<1> HIDE DEF l, n
<1>5. \A j \in 1..n : Refers(w, l[j]) /\ IsList(PrintChunk(as, w, l[j]))
  <2> SUFFICES ASSUME NEW j \in 1..n PROVE Refers(w, l[j]) /\ IsList(PrintChunk(as, w, l[j]))
    OBVIOUS
  <2>1. PrintChunk(as, w, l[j]) = PrintChunk(as, v, l[j]) /\ Refers(w, l[j]) /\ IsList(PrintChunk(as, v, l[j]))
    BY <1>3, <1>4
  <2> QED
    BY <2>1, Zenon
<1>6. Sound(as, w)
  BY <1>1, <1>5 DEF Sound, l, n
<1>7. Pieces(as, w) = Pieces(as, v)
  <2>1. DOMAIN l = 1..n
    BY <1>1, ListFacts DEF n
  <2>2. Pieces(as, w) = [j \in 1..n |-> PrintChunk(as, w, l[j])]
    BY <1>1, <2>1 DEF Pieces
  <2>3. Pieces(as, v) = [j \in 1..n |-> PrintChunk(as, v, l[j])]
    BY <2>1 DEF Pieces, l
  <2> QED
    BY <1>4, <2>2, <2>3
<1> QED
  BY <1>6, <1>7

AddsLiteral(as, v, x, w) ==
  Sound(as, w) /\ Printed(as, w) = Printed(as, v) \o <<x>> /\ w.timers = v.timers
KeepsPrint(as, v, w) ==
  Sound(as, w) /\ Printed(as, w) = Printed(as, v) /\ w.literal = <<>> /\ w.timers = v.timers

LEMMA LiteralMore == ASSUME NEW as, NEW v, Sound(as, v), NEW x PROVE AddsLiteral(as, v, x, WithLiteral(v, x))
<1> DEFINE w == WithLiteral(v, x)
<1>0. w = WithLiteral(v, x)
  OBVIOUS
<1> HIDE DEF w
<1>1. Tidy(v) /\ IsList(v.literal)
  BY DEF Sound, Tidy
<1>2. /\ w.literal = Append(v.literal, x) /\ w.chunks = v.chunks /\ w.ingredients = v.ingredients
      /\ w.cookware = v.cookware /\ w.timers = v.timers /\ w.temperatures = v.temperatures
      /\ w.uses = v.uses /\ w.counter = v.counter /\ IsScan(w)
  <2> DEFINE lit == Append(v.literal, x)
  <2>1. w = Scan(lit, v.chunks, v.ingredients, v.cookware, v.timers, v.temperatures, v.uses, v.counter)
    BY <1>0 DEF WithLiteral
  <2> HIDE DEF lit
  <2>2. /\ w.literal = lit /\ w.chunks = v.chunks /\ w.ingredients = v.ingredients
        /\ w.cookware = v.cookware /\ w.timers = v.timers /\ w.temperatures = v.temperatures
        /\ w.uses = v.uses /\ w.counter = v.counter /\ IsScan(w)
    BY <2>1, ScanFields
  <2> QED
    BY <2>2 DEF lit
<1> DEFINE l == v.literal
           m == w.literal
           p == Concat(Pieces(as, v))
<1>3. IsList(l) /\ m = Append(l, x)
  BY <1>1, <1>2
<1>4. IsList(p)
  BY PrintedIsList
<1> HIDE DEF l, m, p
<1>5. IsList(m) /\ Len(m) = Len(l) + 1 /\ Len(l) \in Nat
  BY <1>3, Appended
<1>6. Tidy(w)
  BY <1>1, <1>2, <1>5 DEF Tidy, m
<1>7. Sound(as, w) /\ Concat(Pieces(as, w)) = p
  BY <1>2, <1>6, SamePieces DEF p
<1>8. m = l \o <<x>>
  BY <1>3, JoinedOne
<1>9. IsList(<<x>>)
  BY OneIsList
<1>10. (p \o l) \o <<x>> = p \o (l \o <<x>>)
  BY <1>3, <1>4, <1>9, JoinedAgain
<1>12. Printed(as, w) = p \o m /\ Printed(as, v) = p \o l
  BY <1>7 DEF Printed, p, l, m
<1>13. Printed(as, w) = Printed(as, v) \o <<x>>
  BY <1>8, <1>10, <1>12, Zenon
<1>14. AddsLiteral(as, v, x, w)
  BY <1>2, <1>7, <1>13, Zenon DEF AddsLiteral
<1> QED
  BY <1>14 DEF w

LEMMA EndingKeeps == ASSUME NEW as, NEW v, Sound(as, v) PROVE KeepsPrint(as, v, EndedOf(v))
<1> DEFINE w == EndedOf(v)
<1>0. w = EndedOf(v)
  OBVIOUS
<1> SUFFICES KeepsPrint(as, v, w)
  OBVIOUS
<1> HIDE DEF w
<1> DEFINE chunk == Literal(v.literal)
           chunks == IF v.literal = <<>> THEN v.chunks ELSE Append(v.chunks, chunk)
           p == Concat(Pieces(as, v))
<1>1. Tidy(v) /\ IsList(v.literal) /\ IsList(v.chunks) /\ IsList(p)
  BY PrintedIsList DEF Sound, Tidy
<1>2. /\ w.literal = <<>> /\ w.chunks = chunks /\ w.ingredients = v.ingredients
      /\ w.cookware = v.cookware /\ w.timers = v.timers /\ w.temperatures = v.temperatures
      /\ w.uses = v.uses /\ w.counter = v.counter /\ IsScan(w)
  BY <1>0, ScanFields DEF EndedOf
<1>3. Printed(as, w) = Concat(Pieces(as, w)) \o <<>> /\ Printed(as, v) = p \o v.literal
  BY <1>2 DEF Printed
<1>4. chunk.kind = "text" /\ chunk.text = v.literal
  BY DEF Literal
<1> HIDE DEF p, chunk
<1>5. CASE v.literal = <<>>
  <2>1. w.chunks = v.chunks
    BY <1>2, <1>5
  <2>2. Tidy(w)
    BY <1>1, <1>2, <2>1, EmptyIsList DEF Tidy
  <2>3. Sound(as, w) /\ Concat(Pieces(as, w)) = p
    BY <1>2, <2>1, <2>2, SamePieces DEF p
  <2> QED
    BY <1>2, <1>3, <1>5, <2>3, Zenon DEF KeepsPrint
<1>6. CASE v.literal # <<>>
  <2>1. w.chunks = Append(v.chunks, chunk)
    BY <1>2, <1>6
  <2>2. IsList(w.chunks)
    BY <1>1, <2>1, Appended
  <2>3. Tidy(w)
    BY <1>1, <1>2, <2>2, EmptyIsList DEF Tidy
  <2>4. Grows(v, w)
    BY <1>1, <1>2, SameList DEF Tidy, Grows
  <2>5. Refers(w, chunk)
    BY <1>4 DEF Refers, ChunkKinds
  <2>6. PrintChunk(as, w, chunk) = v.literal
    BY <1>4, PrintsText
  <2>7. IsList(PrintChunk(as, w, chunk))
    BY <1>1, <2>6
  <2>8. Len(w.ingredients) =< Len(v.ingredients) + 1
    <3>1. Len(v.ingredients) \in Nat
      BY <1>1, ListFacts DEF Tidy
    <3> QED
      BY <1>2, <3>1
  <2>9. \A i \in 1..Len(w.uses) : \/ \E x \in 1..Len(v.uses) : v.uses[x] = w.uses[i]
                                  \/ chunk = Chunk("state", w.uses[i])
    BY <1>2
  <2>10. Sound(as, w) /\ Concat(Pieces(as, w)) = Concat(Pieces(as, v)) \o PrintChunk(as, w, chunk)
    BY <2>1, <2>3, <2>4, <2>5, <2>7, <2>8, <2>9, ChunkMore
  <2> DEFINE q == p \o v.literal
  <2>11. IsList(q)
    BY <1>1, JoinedLists
  <2>12. Concat(Pieces(as, w)) = q
    BY <2>6, <2>10, Zenon DEF p
  <2> HIDE DEF q
  <2>13. q \o <<>> = q
    BY <2>11, JoinedOne
  <2>14. Printed(as, w) = Printed(as, v)
    BY <1>3, <2>12, <2>13, Zenon DEF q
  <2> QED
    BY <1>2, <2>10, <2>14, Zenon DEF KeepsPrint
<1> QED
  BY <1>5, <1>6

LEMMA NothingPrinted ==
  ASSUME NEW as
  PROVE  Sound(as, NotScanned) /\ Printed(as, NotScanned) = <<>>
<1> DEFINE v == NotScanned
           e == <<>>
<1>1. /\ v.literal = e /\ v.chunks = e /\ v.ingredients = e /\ v.cookware = e /\ v.timers = e
      /\ v.temperatures = e /\ v.uses = e /\ v.counter = 0 /\ IsScan(v)
  BY DEF NotScanned, IsScan, Scan
<1>2. IsList(e) /\ Len(e) = 0 /\ DOMAIN e = {}
  BY EmptyIsList
<1>3. e = <<>>
  OBVIOUS
<1>4. e \o e = e
  OBVIOUS
<1> HIDE DEF v, e
<1>5. Tidy(v)
  BY <1>1, <1>2 DEF Tidy, Numbered
<1>6. Sound(as, v)
  BY <1>1, <1>2, <1>5 DEF Sound
<1>7. Concat(Pieces(as, v)) = e
  <2>1. Len(Pieces(as, v)) = 0
    BY <1>1, <1>2, PiecesAre
  <2> QED
    BY <1>3, <2>1, ConcatNone
<1>8. Printed(as, v) = e
  BY <1>1, <1>4, <1>7 DEF Printed
<1> QED
  BY <1>3, <1>6, <1>8 DEF v

-----------------------------------------------------------------------------
(* What is printed for a token that was read is the same token.            *)

(* A token that was read is printed as a token that reads as the same; the    *)
(* timer without a time alone is printed as one that is refused.            *)
Timeless(v) == \E j \in DOMAIN v.timers : v.timers[j].quantity = NoTime

Rewritten(as, v, s, f, c, to, f2, n2, b2) ==
  /\ PrintChunk(as, to, c) = Piece(f2, n2, b2)
  /\ f2.k = f.k /\ IsName(n2)
  /\ f.k = "@&" => n2 = <<>> /\ b2.words = NameOf(as, s)
  /\ \/ Accepts(f2, b2) /\ Takes(v, s, f2, n2, b2, c, to)
     \/ ~Accepts(f2, b2) /\ Timeless(to)

Rewrites(as, v, s, f, c, to) ==
  /\ Sound(as, to) /\ to.literal = <<>> /\ (Timeless(v) => Timeless(to))
  /\ Concat(Pieces(as, to)) = Concat(Pieces(as, v)) \o PrintChunk(as, to, c)
  /\ \E f2, n2, b2 : Rewritten(as, v, s, f, c, to, f2, n2, b2)

LEMMA NoName == IsName(<<>>)
  BY EmptyIsList DEF IsName

LEMMA BarePiece == ASSUME NEW f, NEW b PROVE <<f, Group(b)>> = Piece(f, <<>>, b)
<1> DEFINE g == Group(b)
           l == <<f, g>>
           n == <<>>
           p == Piece(f, n, b)
<1>1. IsList(l) /\ Len(l) = 2 /\ l[1] = f /\ l[2] = g
  BY DEF IsList
<1>2. IsName(n) /\ Len(n) = 0
  BY NoName
<1> HIDE DEF g, l, n
<1>3. IsList(p) /\ Len(p) = Len(n) + 2 /\ p[1] = f /\ p[Len(n) + 2] = g
  <2>1. /\ IsList(Piece(f, n, b)) /\ Len(Piece(f, n, b)) = Len(n) + 2
        /\ Piece(f, n, b)[1] = f /\ Piece(f, n, b)[Len(n) + 2] = Group(b)
    <3>1. IsName(n)
      BY <1>2
    <3> QED
      BY <3>1, PieceFacts
  <2> QED
    BY <2>1 DEF g
<1> HIDE DEF p
<1>4. Len(p) = 2 /\ p[2] = g
  BY <1>2, <1>3
<1>5. l = p
  BY <1>1, <1>3, <1>4, EqualLists
<1> QED
  BY <1>5 DEF l, p, g, n

LEMMA StateRewritten ==
  ASSUME NEW as, NEW v, Sound(as, v), v.literal = <<>>, NEW s, NEW f, f.k = "@&", NEW c, NEW to, TakesState(v, s, c, to)
  PROVE  Rewrites(as, v, s, f, c, to)
<1> DEFINE old == v.uses
           new == Used(old, s)
           chunks == Append(v.chunks, c)
           w == NameOf(as, s)
           b == Body("words", 0, 0, "", w)
           m == Mark("@&")
           n == <<>>
<1>1. Tidy(v) /\ IsList(old) /\ IsList(v.chunks)
  BY DEF Sound, Tidy
<1>2. to = Scan(<<>>, chunks, v.ingredients, v.cookware, v.timers, v.temperatures, new, v.counter)
  BY Zenon DEF TakesState
<1>3. c = Chunk("state", s)
  BY DEF TakesState
<1> HIDE DEF chunks, new, old
<1>4. /\ to.literal = <<>> /\ to.chunks = chunks /\ to.ingredients = v.ingredients
      /\ to.cookware = v.cookware /\ to.timers = v.timers /\ to.temperatures = v.temperatures
      /\ to.uses = new /\ to.counter = v.counter /\ IsScan(to)
  BY <1>2, ScanFields
<1>5. c.kind = "state" /\ c.ref = s
  BY <1>3 DEF Chunk
<1>6. IsList(new) /\ \A i \in 1..Len(new) : (\E x \in 1..Len(old) : old[x] = new[i]) \/ new[i] = s
  <2>1. CASE \E i \in DOMAIN old : old[i] = s
    <3>1. new = old
      BY <2>1 DEF new, Used
    <3> QED
      BY <1>1, <3>1
  <2>2. CASE ~\E i \in DOMAIN old : old[i] = s
    <3>1. new = Append(old, s)
      BY <2>2 DEF new, Used
    <3>4. IsList(old)
      BY <1>1
    <3>5. IsList(new) /\ Len(old) \in Nat /\ Len(new) = Len(old) + 1 /\ Begins(old, new) /\ new[Len(old) + 1] = s
      BY <3>1, <3>4, Appended
    <3>2. /\ IsList(new) /\ Len(old) \in Nat /\ Len(new) = Len(old) + 1
          /\ new[Len(old) + 1] = s /\ \A i \in 1..Len(old) : new[i] = old[i]
      BY <3>5 DEF Begins
    <3>3. \A i \in 1..Len(new) : i \in 1..Len(old) \/ i = Len(old) + 1
      BY <3>2
    <3> QED
      BY <3>2, <3>3
  <2> QED
    BY <2>1, <2>2
<1>7. IsList(chunks)
  BY <1>1, Appended DEF chunks
<1>8. Tidy(to)
  BY <1>1, <1>4, <1>6, <1>7, EmptyIsList DEF Tidy
<1>9. Grows(v, to)
  BY <1>1, <1>4, SameList DEF Tidy, Grows
<1>10. Refers(to, c)
  BY <1>5 DEF Refers, ChunkKinds
<1>11. PrintChunk(as, to, c) = Piece(m, n, b)
  <2>1. PrintChunk(as, to, c) = Reference(as, s)
    BY <1>5, PrintsState
  <2>2. Reference(as, s) = <<m, Group(b)>>
    BY DEF Reference
  <2> HIDE DEF m, b
  <2> QED
    BY <2>1, <2>2, BarePiece
<1>12. m.k = f.k /\ b.words = w
  BY DEF Mark, Body
<1> HIDE DEF m, b, w
<1>13. IsName(n)
  BY NoName
<1>14. IsList(PrintChunk(as, to, c))
  BY <1>11, <1>13, PieceFacts
<1>15. Len(to.ingredients) =< Len(v.ingredients) + 1
  <2>1. Len(v.ingredients) \in Nat
    BY <1>1, ListFacts DEF Tidy
  <2> QED
    BY <1>4, <2>1
<1>16. \A i \in 1..Len(to.uses) : \/ \E x \in 1..Len(v.uses) : v.uses[x] = to.uses[i]
                                  \/ c = Chunk("state", to.uses[i])
  BY <1>3, <1>4, <1>6 DEF old
<1>17. Sound(as, to) /\ Concat(Pieces(as, to)) = Concat(Pieces(as, v)) \o PrintChunk(as, to, c)
  BY <1>4, <1>8, <1>9, <1>10, <1>14, <1>15, <1>16, ChunkMore DEF chunks
<1>18. Accepts(m, b)
  BY <1>12 DEF Accepts
<1>19. Takes(v, s, m, n, b, c, to)
  BY <1>12 DEF Takes
<1>20. Timeless(v) => Timeless(to)
  BY <1>4 DEF Timeless
<1>21. Rewritten(as, v, s, f, c, to, m, n, b)
  BY <1>11, <1>12, <1>13, <1>18, <1>19 DEF Rewritten, w
<1> QED
  BY <1>4, <1>17, <1>20, <1>21, Zenon DEF Rewrites

LEMMA TokenAdds ==
  ASSUME NEW as, NEW v, Sound(as, v), NEW to, Tidy(to), Grows(v, to), NEW c, to.chunks = Append(v.chunks, c),
         Refers(to, c), to.uses = v.uses, Len(to.ingredients) =< Len(v.ingredients) + 1, to.literal = <<>>,
         Timeless(v) => Timeless(to),
         NEW f, f.k # "@&", NEW f2, f2.k = f.k, NEW n2, IsName(n2), NEW b2, PrintChunk(as, to, c) = Piece(f2, n2, b2),
         NEW s, \/ Accepts(f2, b2) /\ Takes(v, s, f2, n2, b2, c, to)
                \/ ~Accepts(f2, b2) /\ Timeless(to)
  PROVE  Rewrites(as, v, s, f, c, to)
<1>1. IsList(PrintChunk(as, to, c))
  <2>1. IsList(Piece(f2, n2, b2))
    BY PieceFacts
  <2> QED
    BY <2>1
<1>2. \A i \in 1..Len(to.uses) : \/ \E x \in 1..Len(v.uses) : v.uses[x] = to.uses[i]
                                 \/ c = Chunk("state", to.uses[i])
  OBVIOUS
<1>3. Sound(as, to) /\ Concat(Pieces(as, to)) = Concat(Pieces(as, v)) \o PrintChunk(as, to, c)
  BY <1>1, <1>2, ChunkMore
<1>4. Rewritten(as, v, s, f, c, to, f2, n2, b2)
  BY DEF Rewritten
<1> QED
  BY <1>3, <1>4, Zenon DEF Rewrites

(* The element appended to a list is the one its number finds.              *)
LEMMA FoundLast ==
  ASSUME NEW l, IsList(l), NEW n \in Nat, Numbered(l, n), NEW x, x.id = n + 1, NEW m, m = Append(l, x)
  PROVE  WithId(m, x.id) = x
<1>1. IsList(m) /\ Len(l) \in Nat /\ Len(m) = Len(l) + 1 /\ Begins(l, m) /\ m[Len(l) + 1] = x
  BY Appended
<1>2. Numbered(m, n + 1)
  BY NumberedAppend
<1>3. Len(l) + 1 \in 1..Len(m) /\ m[Len(l) + 1].id = n + 1
  BY <1>1
<1>4. WithId(m, m[Len(l) + 1].id) = m[Len(l) + 1]
  BY <1>1, <1>2, <1>3, WithIdIs
<1> QED
  BY <1>1, <1>3, <1>4, Zenon

LEMMA LastIsThere ==
  ASSUME NEW l, IsList(l), NEW x, NEW m, m = Append(l, x)
  PROVE  \E i \in 1..Len(m) : m[i].id = x.id
<1>1. Len(l) \in Nat /\ Len(m) = Len(l) + 1 /\ m[Len(l) + 1] = x
  BY Appended
<1>2. Len(l) + 1 \in 1..Len(m)
  BY <1>1
<1> QED
  BY <1>1, <1>2

LEMMA IngredientRewritten ==
  ASSUME NEW as, NEW v, Sound(as, v), NEW f, f.k = "@", NEW name, IsName(name), NEW b, Accepts(f, b),
         NEW c, NEW to, TakesIngredient(v, f, name, b, c, to), NEW s
  PROVE  Rewrites(as, v, s, f, c, to)
<1> DEFINE u == IngredientOf(v, f, name, b)
           old == v.ingredients
           new == Append(old, u)
           n == v.counter
           q == ParseQuantity(b, f.invariant)
           d == PrintSpecs(q.specs)
           g == At(f.optional, Invariantly(q.specs))
           chunks == Append(v.chunks, c)
<1>1. Tidy(v) /\ IsList(old) /\ n \in Nat /\ Numbered(old, n) /\ IsList(v.chunks) /\ Numbered(v.cookware, n)
  BY DEF Sound, Tidy
<1>2. u.id = n + 1 /\ u.name = name /\ u.quantity = q.specs /\ u.optional = f.optional
  BY DEF IngredientOf
<1>3. ~q.error
  BY DEF Accepts
<1>4. ParseQuantity(d, Invariantly(q.specs)) = q
  BY <1>3, QuantityReadAgain
<1>5. to = Scan(<<>>, chunks, new, v.cookware, v.timers, v.temperatures, v.uses, n + 1)
  BY Zenon DEF TakesIngredient
<1>6. c = Chunk("ingredient", n + 1)
  BY DEF TakesIngredient
<1>7. new = Append(old, u)
  OBVIOUS
<1>8. g.k = "@" /\ g.optional = f.optional /\ g.invariant = Invariantly(q.specs)
  BY DEF At
<1>9. IngredientOf(v, g, name, d) = u
  <2>1. ParseQuantity(d, g.invariant) = q
    BY <1>4, <1>8, Zenon
  <2> HIDE DEF q, g, d
  <2> QED
    BY <1>8, <2>1, Zenon DEF IngredientOf, q
<1>10. Accepts(g, d)
  <2>1. ParseQuantity(d, g.invariant) = q
    BY <1>4, <1>8, Zenon
  <2> HIDE DEF q, g, d
  <2>2. ~ParseQuantity(d, g.invariant).error
    BY <1>3, <2>1
  <2> QED
    BY <1>8, <2>2 DEF Accepts
<1>11. IngredientToken(u) = Piece(g, name, d)
  <2>1. PrintsInvariant(u) = Invariantly(u.quantity)
    BY DEF PrintsInvariant, Invariantly
  <2>2. IngredientToken(u) = <<At(u.optional, PrintsInvariant(u))>> \o u.name \o <<Group(PrintSpecs(u.quantity))>>
    BY DEF IngredientToken
  <2>3. Piece(g, name, d) = <<g>> \o name \o <<Group(d)>>
    BY DEF Piece
  <2>4. At(u.optional, PrintsInvariant(u)) = g
    BY <1>2, <2>1, Zenon
  <2>5. PrintSpecs(u.quantity) = d
    BY <1>2, Zenon
  <2> HIDE DEF u, g, d
  <2> QED
    BY <1>2, <2>2, <2>3, <2>4, <2>5, Zenon
<1> HIDE DEF u, new, old, n, q, d, g, chunks
<1>12. /\ IsList(new) /\ Begins(old, new) /\ Len(new) = Len(old) + 1 /\ Numbered(new, n + 1)
       /\ WithId(new, n + 1) = u /\ \E i \in 1..Len(new) : new[i].id = n + 1
  <2>1. IsList(old) /\ n \in Nat /\ Numbered(old, n) /\ u.id = n + 1 /\ new = Append(old, u)
    BY <1>1, <1>2, <1>7
  <2>2. IsList(new) /\ Begins(old, new) /\ Len(new) = Len(old) + 1
    BY <2>1, Appended
  <2>3. Numbered(new, n + 1)
    BY <2>1, NumberedAppend
  <2>4. WithId(new, u.id) = u
    BY <2>1, FoundLast
  <2>5. \E i \in 1..Len(new) : new[i].id = u.id
    BY <2>1, LastIsThere
  <2> QED
    BY <2>1, <2>2, <2>3, <2>4, <2>5
<1>13. /\ to.literal = <<>> /\ to.chunks = chunks /\ to.ingredients = new
       /\ to.cookware = v.cookware /\ to.timers = v.timers /\ to.temperatures = v.temperatures
       /\ to.uses = v.uses /\ to.counter = n + 1 /\ IsScan(to)
  BY <1>5, ScanFields
<1>14. IsList(chunks)
  BY <1>1, Appended DEF chunks
<1>15. Numbered(v.cookware, n + 1) /\ n + 1 \in Nat
  BY <1>1, NumberedMore
<1>16. Tidy(to)
  BY <1>1, <1>12, <1>13, <1>14, <1>15, EmptyIsList DEF Tidy
<1>17. Grows(v, to)
  BY <1>1, <1>12, <1>13, SameList DEF Tidy, Grows, old
<1>18. c.kind = "ingredient" /\ c.ref = n + 1
  BY <1>6 DEF Chunk
<1>19. Refers(to, c)
  BY <1>12, <1>13, <1>18 DEF Refers, ChunkKinds
<1>20. PrintChunk(as, to, c) = Piece(g, name, d)
  <2>1. PrintChunk(as, to, c) = IngredientToken(WithId(to.ingredients, c.ref))
    BY <1>18, PrintsIngredient
  <2> QED
    BY <1>11, <1>12, <1>13, <1>18, <2>1, Zenon
<1>21. Len(to.ingredients) =< Len(v.ingredients) + 1
  <2>1. Len(old) \in Nat
    BY <1>1, ListFacts
  <2> QED
    BY <1>12, <1>13, <2>1 DEF old
<1>22. Timeless(v) => Timeless(to)
  BY <1>13 DEF Timeless
<1>23. TakesIngredient(v, g, name, d, c, to)
  BY <1>5, <1>6, <1>9, Zenon DEF TakesIngredient, n, old, new, chunks
<1>24. Takes(v, s, g, name, d, c, to)
  BY <1>8, <1>23 DEF Takes
<1>25. to.chunks = Append(v.chunks, c)
  BY <1>13 DEF chunks
<1>26. f.k # "@&" /\ g.k = f.k /\ to.uses = v.uses /\ to.literal = <<>>
  BY <1>8, <1>13
<1> QED
  BY <1>10, <1>16, <1>17, <1>19, <1>20, <1>21, <1>22, <1>24, <1>25, <1>26, TokenAdds, Zenon

LEMMA CookwareRewritten ==
  ASSUME NEW as, NEW v, Sound(as, v), NEW f, f.k = "#", NEW name, IsName(name), NEW b, Accepts(f, b),
         NEW c, NEW to, TakesCookware(v, name, b, c, to), NEW s
  PROVE  Rewrites(as, v, s, f, c, to)
<1> DEFINE u == CookwareOf(v, name, b)
           old == v.cookware
           new == Append(old, u)
           n == v.counter
           g == Mark("#")
           chunks == Append(v.chunks, c)
<1>1. Tidy(v) /\ IsList(old) /\ n \in Nat /\ Numbered(old, n) /\ IsList(v.chunks) /\ Numbered(v.ingredients, n)
  BY DEF Sound, Tidy
<1>2. u.id = n + 1 /\ u.name = name /\ u.quantity = b
  BY DEF CookwareOf
<1>5. to = Scan(<<>>, chunks, v.ingredients, new, v.timers, v.temperatures, v.uses, n + 1)
  BY Zenon DEF TakesCookware
<1>6. c = Chunk("cookware", n + 1)
  BY DEF TakesCookware
<1>7. new = Append(old, u)
  OBVIOUS
<1>8. g.k = "#"
  BY DEF Mark
<1>10. Accepts(g, b)
  BY <1>8 DEF Accepts
<1>11. CookwareToken(u) = Piece(g, name, b)
  <2>2. CookwareToken(u) = <<Mark("#")>> \o u.name \o <<Group(u.quantity)>>
    BY DEF CookwareToken
  <2>3. Piece(g, name, b) = <<g>> \o name \o <<Group(b)>>
    BY DEF Piece
  <2> HIDE DEF u
  <2> QED
    BY <1>2, <2>2, <2>3, Zenon
<1> HIDE DEF u, new, old, n, g, chunks
<1>12. /\ IsList(new) /\ Begins(old, new) /\ Numbered(new, n + 1)
       /\ WithId(new, n + 1) = u /\ \E i \in 1..Len(new) : new[i].id = n + 1
  <2>1. IsList(old) /\ n \in Nat /\ Numbered(old, n) /\ u.id = n + 1 /\ new = Append(old, u)
    BY <1>1, <1>2, <1>7
  <2>2. IsList(new) /\ Begins(old, new) /\ Len(new) = Len(old) + 1
    BY <2>1, Appended
  <2>3. Numbered(new, n + 1)
    BY <2>1, NumberedAppend
  <2>4. WithId(new, u.id) = u
    BY <2>1, FoundLast
  <2>5. \E i \in 1..Len(new) : new[i].id = u.id
    BY <2>1, LastIsThere
  <2> QED
    BY <2>1, <2>2, <2>3, <2>4, <2>5
<1>13. /\ to.literal = <<>> /\ to.chunks = chunks /\ to.ingredients = v.ingredients
       /\ to.cookware = new /\ to.timers = v.timers /\ to.temperatures = v.temperatures
       /\ to.uses = v.uses /\ to.counter = n + 1 /\ IsScan(to)
  BY <1>5, ScanFields
<1>14. IsList(chunks)
  BY <1>1, Appended DEF chunks
<1>15. Numbered(v.ingredients, n + 1) /\ n + 1 \in Nat
  BY <1>1, NumberedMore
<1>16. Tidy(to)
  BY <1>1, <1>12, <1>13, <1>14, <1>15, EmptyIsList DEF Tidy
<1>17. Grows(v, to)
  BY <1>1, <1>12, <1>13, SameList DEF Tidy, Grows, old
<1>18. c.kind = "cookware" /\ c.ref = n + 1
  BY <1>6 DEF Chunk
<1>19. Refers(to, c)
  BY <1>12, <1>13, <1>18 DEF Refers, ChunkKinds
<1>20. PrintChunk(as, to, c) = Piece(g, name, b)
  <2>1. PrintChunk(as, to, c) = CookwareToken(WithId(to.cookware, c.ref))
    BY <1>18, PrintsCookware
  <2> QED
    BY <1>11, <1>12, <1>13, <1>18, <2>1, Zenon
<1>21. Len(to.ingredients) =< Len(v.ingredients) + 1
  <2>1. Len(v.ingredients) \in Nat
    BY <1>1, ListFacts DEF Tidy
  <2> QED
    BY <1>13, <2>1
<1>22. Timeless(v) => Timeless(to)
  BY <1>13 DEF Timeless
<1>24. Takes(v, s, g, name, b, c, to)
  BY <1>8 DEF Takes
<1>25. to.chunks = Append(v.chunks, c)
  BY <1>13 DEF chunks
<1>26. f.k # "@&" /\ g.k = f.k /\ to.uses = v.uses /\ to.literal = <<>>
  BY <1>8, <1>13
<1> QED
  BY <1>10, <1>16, <1>17, <1>19, <1>20, <1>21, <1>22, <1>24, <1>25, <1>26, TokenAdds, Zenon

LEMMA ReferTo ==
  ASSUME NEW l, IsList(l), NEW x, NEW m, m = Append(l, x)
  PROVE  IsList(m) /\ Begins(l, m) /\ Len(l) + 1 \in 1..Len(m) /\ m[Len(l) + 1] = x
<1>1. IsList(m) /\ Len(m) = Len(l) + 1 /\ m[Len(l) + 1] = x /\ Begins(l, m)
  BY Appended
<1>2. Len(l) \in Nat
  BY ListFacts
<1> HIDE DEF IsList, Begins
<1>3. Len(l) + 1 \in 1..Len(m)
  BY <1>1, <1>2
<1> QED
  BY <1>1, <1>3

(* The time of a timer that is read from what is printed for a time.         *)
LEMMA TimeReadAgain ==
  ASSUME NEW f, f.k = "~", NEW b, Accepts(f, b)
  PROVE  LET d == PrintQuantity(TimeOf(b)) IN
         \/ Accepts(Mark("~"), d) /\ TimeOf(d) = TimeOf(b)
         \/ ~Accepts(Mark("~"), d) /\ TimeOf(b) = NoTime
<1> DEFINE q == ParseQuantity(b, FALSE)
           t == TimeOf(b)
           d == PrintQuantity(t)
           m == Mark("~")
<1>1. m.k = "~"
  BY DEF Mark
<1>2. ~q.error /\ t.kind \in {"scalar", "range"}
  BY DEF Accepts
<1>3. t = IF q.specs = <<>> THEN NoTime ELSE q.specs[1].quantity
  BY DEF TimeOf
<1>4. CASE q.specs # <<>>
  <2>1. d = PrintSpecs(q.specs)
    BY <1>3, <1>4, Zenon DEF PrintSpecs
  <2>2. ParseQuantity(PrintSpecs(q.specs), FALSE) = q
    BY <1>2, QuantityReadAgain
  <2>3. ParseQuantity(d, FALSE) = q
    BY <2>1, <2>2, Zenon
  <2> HIDE DEF d, m
  <2>4. TimeOf(d) = t
    BY <2>3, Zenon DEF TimeOf
  <2> HIDE DEF q, t
  <2>5. ~ParseQuantity(d, FALSE).error
    BY <1>2, <2>3
  <2>6. Accepts(m, d)
    BY <1>1, <1>2, <2>4, <2>5 DEF Accepts
  <2> QED
    BY <2>4, <2>6 DEF d, m, t
<1>5. CASE q.specs = <<>>
  <2>1. t = NoTime
    BY <1>3, <1>5
  <2>2. t.kind = "scalar" /\ t.low = 0 /\ t.high = 0 /\ t.unit = ""
  <3>1. NoTime.kind = "scalar" /\ NoTime.low = 0 /\ NoTime.high = 0 /\ NoTime.unit = ""
    BY DEF NoTime, Quantity
  <3> HIDE DEF q, t
  <3> QED
    BY <2>1, <3>1, Zenon
  <2> HIDE DEF q, t
  <2>3. t.kind # "approx" /\ t.kind \notin {"range", "count range"}
    BY <2>2
  <2>4. d = Body("number", t.low, t.low, t.unit, <<>>)
    BY <2>3, Zenon DEF PrintQuantity
  <2> HIDE DEF d, m
  <2>5. d.kind = "number" /\ d.unit = "" /\ d.low = 0
    BY <2>2, <2>4 DEF Body
  <2> DEFINE r == Quantity("count", d.low, d.low, "", <<>>)
             p == ParseQuantity(d, FALSE)
             policy == IF FALSE THEN "INVARIANT" ELSE "LINEAR"
  <2>6. p = Spec1(r, policy)
    BY <2>5, ParsedCases, Zenon
  <2>7. r.kind = "count"
    BY DEF Quantity
  <2> HIDE DEF r, p, policy
  <2>8. p.specs # <<>> /\ p.specs[1].quantity = r
    BY <2>6, OneSpec
  <2>9. TimeOf(d) = r
    BY <2>8, Zenon DEF TimeOf, p
  <2>10. ~Accepts(m, d)
    BY <1>1, <2>7, <2>9 DEF Accepts
  <2> QED
    BY <2>1, <2>10 DEF d, m, t
<1> QED
  BY <1>4, <1>5

LEMMA TimerRewritten ==
  ASSUME NEW as, NEW v, Sound(as, v), NEW f, f.k = "~", NEW name, IsName(name), NEW b, Accepts(f, b),
         NEW c, NEW to, TakesTimer(v, name, b, c, to), NEW s
  PROVE  Rewrites(as, v, s, f, c, to)
<1> DEFINE u == TimerOf(name, b)
           old == v.timers
           new == Append(old, u)
           n == Len(old)
           t == TimeOf(b)
           d == PrintQuantity(t)
           g == Mark("~")
           chunks == Append(v.chunks, c)
<1>1. Tidy(v) /\ IsList(old) /\ IsList(v.chunks)
  BY DEF Sound, Tidy
<1>2. u.name = name /\ u.quantity = t
  BY DEF TimerOf
<1>3. \/ Accepts(g, d) /\ TimeOf(d) = t
      \/ ~Accepts(g, d) /\ t = NoTime
  BY TimeReadAgain
<1>4. to = Scan(<<>>, chunks, v.ingredients, v.cookware, new, v.temperatures, v.uses, v.counter)
  BY Zenon DEF TakesTimer
<1>5. c = Chunk("timer", n)
  BY DEF TakesTimer
<1>6. new = Append(old, u)
  OBVIOUS
<1>7. g.k = "~"
  BY DEF Mark
<1>8. TimerToken(u) = Piece(g, name, d)
  <2>2. TimerToken(u) = <<Mark("~")>> \o u.name \o <<Group(PrintQuantity(u.quantity))>>
    BY DEF TimerToken
  <2>3. Piece(g, name, d) = <<g>> \o name \o <<Group(d)>>
    BY DEF Piece
  <2> HIDE DEF u
  <2> QED
    BY <1>2, <2>2, <2>3, Zenon
<1>9. TimeOf(d) = t => TimerOf(name, d) = u
  BY Zenon DEF TimerOf
<1> HIDE DEF u, new, old, n, t, d, g, chunks
<1>10. IsList(new) /\ Begins(old, new) /\ n + 1 \in 1..Len(new) /\ new[n + 1] = u
  <2>1. IsList(old) /\ new = Append(old, u)
    BY <1>1, <1>6
  <2>2. IsList(new) /\ Begins(old, new) /\ Len(old) + 1 \in 1..Len(new) /\ new[Len(old) + 1] = u
    BY <2>1, ReferTo
  <2> QED
    BY <2>2 DEF n
<1>11. /\ to.literal = <<>> /\ to.chunks = chunks /\ to.ingredients = v.ingredients
       /\ to.cookware = v.cookware /\ to.timers = new /\ to.temperatures = v.temperatures
       /\ to.uses = v.uses /\ to.counter = v.counter /\ IsScan(to)
  BY <1>4, ScanFields
<1>12. IsList(chunks)
  BY <1>1, Appended DEF chunks
<1>13. Tidy(to)
  BY <1>1, <1>10, <1>11, <1>12, EmptyIsList DEF Tidy
<1>14. Grows(v, to)
  BY <1>1, <1>10, <1>11, SameList DEF Tidy, Grows, old
<1>15. c.kind = "timer" /\ c.ref = n
  BY <1>5 DEF Chunk
<1>16. Refers(to, c)
  BY <1>10, <1>11, <1>15 DEF Refers, ChunkKinds
<1>17. PrintChunk(as, to, c) = Piece(g, name, d)
  <2>1. PrintChunk(as, to, c) = TimerToken(to.timers[c.ref + 1])
    BY <1>15, PrintsTimer
  <2> QED
    BY <1>8, <1>10, <1>11, <1>15, <2>1, Zenon
<1>18. Len(to.ingredients) =< Len(v.ingredients) + 1
  <2>1. Len(v.ingredients) \in Nat
    BY <1>1, ListFacts DEF Tidy
  <2> QED
    BY <1>11, <2>1
<1>19. DOMAIN old = 1..n /\ DOMAIN new = 1..Len(new) /\ n \in Nat
  BY <1>1, <1>10, ListFacts DEF n
<1>20. Timeless(v) => Timeless(to)
  <2> SUFFICES ASSUME Timeless(v) PROVE Timeless(to)
    OBVIOUS
  <2>1. PICK j \in 1..n : old[j].quantity = NoTime
    BY <1>19 DEF Timeless, old
  <2>2. j \in 1..Len(new) /\ new[j] = old[j]
    BY <1>10, <1>19 DEF Begins, n
  <2>3. \E x \in DOMAIN new : new[x].quantity = NoTime
    BY <1>19, <2>1, <2>2
  <2> QED
    BY <1>11, <2>3 DEF Timeless
<1>21. t = NoTime => Timeless(to)
  <2> SUFFICES ASSUME t = NoTime PROVE Timeless(to)
    OBVIOUS
  <2>1. n + 1 \in DOMAIN new /\ new[n + 1].quantity = NoTime
    BY <1>2, <1>10, <1>19
  <2>2. \E x \in DOMAIN new : new[x].quantity = NoTime
    BY <2>1
  <2> QED
    BY <1>11, <2>2 DEF Timeless
<1>22. TimeOf(d) = t => Takes(v, s, g, name, d, c, to)
  <2> SUFFICES ASSUME TimeOf(d) = t PROVE Takes(v, s, g, name, d, c, to)
    OBVIOUS
  <2>1. TakesTimer(v, name, d, c, to)
    BY <1>4, <1>5, <1>9, Zenon DEF TakesTimer, n, old, new, chunks
  <2> QED
    BY <1>7, <2>1 DEF Takes
<1>23. \/ Accepts(g, d) /\ Takes(v, s, g, name, d, c, to)
       \/ ~Accepts(g, d) /\ Timeless(to)
  BY <1>3, <1>21, <1>22, Zenon
<1>24. to.chunks = Append(v.chunks, c)
  BY <1>11 DEF chunks
<1>25. f.k # "@&" /\ g.k = f.k /\ to.uses = v.uses /\ to.literal = <<>>
  BY <1>7, <1>11
<1> QED
  BY <1>13, <1>14, <1>16, <1>17, <1>18, <1>20, <1>23, <1>24, <1>25, TokenAdds, Zenon

LEMMA TemperatureRewritten ==
  ASSUME NEW as, NEW v, Sound(as, v), NEW f, f.k = "^", NEW b, Accepts(f, b),
         NEW c, NEW to, TakesTemperature(v, b, c, to), NEW s
  PROVE  Rewrites(as, v, s, f, c, to)
<1> DEFINE u == HeatOf(b)
           old == v.temperatures
           new == Append(old, u)
           n == Len(old)
           d == Body("number", b.low, b.low, Degrees(b), <<>>)
           g == Mark("^")
           name == <<>>
           chunks == Append(v.chunks, c)
<1>1. Tidy(v) /\ IsList(old) /\ IsList(v.chunks)
  BY DEF Sound, Tidy
<1>2. u.value = b.low /\ u.unit = Degrees(b)
  BY DEF HeatOf
<1>3. Degrees(b) \in {"C", "F"}
  BY DEF Accepts
<1>4. to = Scan(<<>>, chunks, v.ingredients, v.cookware, v.timers, new, v.uses, v.counter)
  BY Zenon DEF TakesTemperature
<1>5. c = Chunk("temperature", n)
  BY DEF TakesTemperature
<1>6. new = Append(old, u)
  OBVIOUS
<1>7. g.k = "^"
  BY DEF Mark
<1>8. TemperatureToken(u) = Piece(g, name, d)
  <2>1. TemperatureToken(u) = <<Mark("^"), Group(Body("number", u.value, u.value, u.unit, <<>>))>>
    BY DEF TemperatureToken
  <2> DEFINE x == Body("number", u.value, u.value, u.unit, <<>>)
  <2>2. x = d
    BY <1>2, Zenon
  <2>3. TemperatureToken(u) = <<g, Group(x)>>
    BY <2>1
  <2> HIDE DEF u, g, d, x
  <2>4. <<g, Group(d)>> = Piece(g, name, d)
    BY BarePiece
  <2> QED
    BY <2>2, <2>3, <2>4, Zenon
<1>9. d.kind = "number" /\ d.unit = Degrees(b) /\ d.low = b.low
  BY DEF Body
<1>10. IsName(name)
  BY NoName
<1> HIDE DEF u, new, old, n, d, g, name, chunks
<1>11. Degrees(d) = Degrees(b)
  <2>1. d.unit # ""
    BY <1>3, <1>9
  <2> QED
    BY <1>9, <2>1 DEF Degrees
<1>12. HeatOf(d) = u
  BY <1>9, <1>11, Zenon DEF HeatOf, u
<1>13. Accepts(g, d)
  BY <1>3, <1>7, <1>9, <1>11 DEF Accepts
<1>14. IsList(new) /\ Begins(old, new) /\ n + 1 \in 1..Len(new) /\ new[n + 1] = u
  <2>1. IsList(old) /\ new = Append(old, u)
    BY <1>1, <1>6
  <2>2. IsList(new) /\ Begins(old, new) /\ Len(old) + 1 \in 1..Len(new) /\ new[Len(old) + 1] = u
    BY <2>1, ReferTo
  <2> QED
    BY <2>2 DEF n
<1>15. /\ to.literal = <<>> /\ to.chunks = chunks /\ to.ingredients = v.ingredients
       /\ to.cookware = v.cookware /\ to.timers = v.timers /\ to.temperatures = new
       /\ to.uses = v.uses /\ to.counter = v.counter /\ IsScan(to)
  BY <1>4, ScanFields
<1>16. IsList(chunks)
  BY <1>1, Appended DEF chunks
<1>17. Tidy(to)
  BY <1>1, <1>14, <1>15, <1>16, EmptyIsList DEF Tidy
<1>18. Grows(v, to)
  BY <1>1, <1>14, <1>15, SameList DEF Tidy, Grows, old
<1>19. c.kind = "temperature" /\ c.ref = n
  BY <1>5 DEF Chunk
<1>20. Refers(to, c)
  BY <1>14, <1>15, <1>19 DEF Refers, ChunkKinds
<1>21. PrintChunk(as, to, c) = Piece(g, name, d)
  <2>1. PrintChunk(as, to, c) = TemperatureToken(to.temperatures[c.ref + 1])
    BY <1>19, PrintsTemperature
  <2> QED
    BY <1>8, <1>14, <1>15, <1>19, <2>1, Zenon
<1>22. Len(to.ingredients) =< Len(v.ingredients) + 1
  <2>1. Len(v.ingredients) \in Nat
    BY <1>1, ListFacts DEF Tidy
  <2> QED
    BY <1>15, <2>1
<1>23. Timeless(v) => Timeless(to)
  BY <1>15 DEF Timeless
<1>24. TakesTemperature(v, d, c, to)
  BY <1>4, <1>5, <1>12, Zenon DEF TakesTemperature, n, old, new, chunks
<1>25. Takes(v, s, g, name, d, c, to)
  BY <1>7, <1>24 DEF Takes
<1>26. to.chunks = Append(v.chunks, c)
  BY <1>15 DEF chunks
<1>27. f.k # "@&" /\ g.k = f.k /\ to.uses = v.uses /\ to.literal = <<>>
  BY <1>7, <1>15
<1> QED
  BY <1>10, <1>13, <1>17, <1>18, <1>20, <1>21, <1>22, <1>23, <1>25, <1>26, <1>27, TokenAdds, Zenon

(* Whatever token is read.                                                  *)
LEMMA TokenRewritten ==
  ASSUME NEW as, NEW v, Sound(as, v), v.literal = <<>>, NEW f, NEW name, IsName(name), NEW b, Accepts(f, b),
         NEW s, NEW c, NEW to, Takes(v, s, f, name, b, c, to)
  PROVE  Rewrites(as, v, s, f, c, to)
<1>1. CASE f.k = "@&" /\ TakesState(v, s, c, to)
  BY <1>1, StateRewritten
<1>2. CASE f.k = "@" /\ TakesIngredient(v, f, name, b, c, to)
  BY <1>2, IngredientRewritten
<1>3. CASE f.k = "#" /\ TakesCookware(v, name, b, c, to)
  BY <1>3, CookwareRewritten
<1>4. CASE f.k = "~" /\ TakesTimer(v, name, b, c, to)
  BY <1>4, TimerRewritten
<1>5. CASE f.k = "^" /\ TakesTemperature(v, b, c, to)
  BY <1>5, TemperatureRewritten
<1> QED
  BY <1>1, <1>2, <1>3, <1>4, <1>5 DEF Takes

-----------------------------------------------------------------------------
(* The trace of a step.                                                    *)

(* The step that was the last of the first n to produce a name, and a name  *)
(* that none of them produces.                                             *)
NamedLast(as, n, w, s) == s \in 1..n /\ as[s].name = <<w>> /\ \A j \in (s + 1)..n : as[j].name # <<w>>
Unknown(as, n, w)      == \A j \in 1..n : as[j].name # <<w>>
NamesAre(known, as, n) ==
  /\ \A w \in DOMAIN known : NamedLast(as, n, w, known[w])
  /\ \A w : w \notin DOMAIN known => Unknown(as, n, w)

(* The scans of a step that follows n others, each beside what is printed   *)
(* of it so far: from one to the next a lexeme is taken as it is, or what   *)
(* is printed is a token, which reads as the step from the one scan to the  *)
(* other or is refused for the sake of an empty timer.                     *)
LiteralEvent(a, b) == \E x : b.text = a.text \o <<x>> /\ b.scan = WithLiteral(a.scan, x)
Rereads(as, n, a, b, f, name, d, s) ==
  /\ f.k \in Sigils /\ IsName(name) /\ b.text = a.text \o Piece(f, name, d)
  /\ f.k = "@&" => name = <<>> /\ NamedLast(as, n, d.words, s)
  /\ \/ Accepts(f, d) /\ \E c : Takes(EndedOf(a.scan), s, f, name, d, c, b.scan)
     \/ ~Accepts(f, d) /\ Timeless(b.scan)
TokenEvent(as, n, a, b) == \E f, name, d, s : Rereads(as, n, a, b, f, name, d, s)
Event(as, n, a, b) == LiteralEvent(a, b) \/ TokenEvent(as, n, a, b)

Final(T) == T[Len(T)]
Trace(as, n, T) ==
  /\ IsList(T) /\ 1 \in 1..Len(T) /\ T[1].scan = NotScanned /\ T[1].text = <<>>
  /\ \A k \in 1..Len(T) : /\ IsList(T[k].text) /\ Begins(T[k].text, Final(T).text)
                          /\ Timeless(T[k].scan) => Timeless(Final(T).scan)
  /\ \A k \in 2..Len(T) : Event(as, n, T[k - 1], T[k])

TraceTo(as, n, R, e) == Trace(as, n, R) /\ Final(R) = e

LEMMA BeginsOn ==
  ASSUME NEW l, IsList(l), NEW m, IsList(m), NEW n, IsList(n), Begins(l, m), Begins(m, n)
  PROVE  Begins(l, n)
<1>1. Len(l) \in Nat /\ Len(m) \in Nat /\ Len(n) \in Nat
  BY ListFacts
<1>2. \A i \in 1..Len(l) : i \in 1..Len(m)
  BY <1>1 DEF Begins
<1> QED
  BY <1>1, <1>2 DEF Begins

LEMMA BeginsJoined ==
  ASSUME NEW l, IsList(l), NEW x, IsList(x), NEW m, m = l \o x
  PROVE  IsList(m) /\ Begins(l, m) /\ Len(m) = Len(l) + Len(x) /\ Len(l) \in Nat /\ Len(x) \in Nat
<1>1. Len(l) \in Nat /\ Len(x) \in Nat
  BY ListFacts
<1>2. IsList(l \o x) /\ Len(l \o x) = Len(l) + Len(x) /\ \A i \in 1..Len(l) : (l \o x)[i] = l[i]
  BY JoinedLists
<1>3. IsList(m) /\ Len(m) = Len(l) + Len(x) /\ \A i \in 1..Len(l) : m[i] = l[i]
  BY <1>2, Zenon
<1> QED
  BY <1>1, <1>3 DEF Begins

(* m is l with x behind it, or with the one element e.                      *)
IsJoined(l, x, m) ==
  /\ IsList(m) /\ Len(l) \in Nat /\ Len(x) \in Nat /\ Len(m) = Len(l) + Len(x)
  /\ \A p \in 1..Len(l) : m[p] = l[p]
  /\ \A p \in 1..Len(x) : m[Len(l) + p] = x[p]
IsLonger(l, e, m) ==
  /\ IsList(m) /\ Len(m) = Len(l) + 1 /\ Len(l) \in Nat
  /\ m[Len(l) + 1] = e /\ \A p \in 1..Len(l) : m[p] = l[p]

LEMMA JoinedTo == ASSUME NEW l, IsList(l), NEW x, IsList(x) PROVE IsJoined(l, x, l \o x)
<1>1. /\ IsList(l \o x) /\ Len(l \o x) = Len(l) + Len(x)
      /\ \A p \in 1..Len(l) : (l \o x)[p] = l[p]
      /\ \A p \in 1..Len(x) : (l \o x)[Len(l) + p] = x[p]
  BY JoinedLists
<1>2. Len(l) \in Nat /\ Len(x) \in Nat
  BY ListFacts
<1> QED
  BY <1>1, <1>2, Zenon DEF IsJoined

LEMMA LongerBy == ASSUME NEW l, IsList(l), NEW e PROVE IsLonger(l, e, l \o <<e>>)
<1> DEFINE x == <<e>>
           m == l \o x
<1>1. IsList(x) /\ Len(x) = 1 /\ x[1] = e
  BY OneIsList
<1> HIDE DEF x
<1>2. IsJoined(l, x, m)
  BY <1>1, JoinedTo
<1> HIDE DEF m
<1>3. IsLonger(l, e, m)
  BY <1>1, <1>2 DEF IsJoined, IsLonger
<1> QED
  BY <1>3 DEF m, x

LEMMA NamedStays ==
  ASSUME NEW as, NEW bs, NEW n \in Nat, \A j \in 1..n : bs[j] = as[j], NEW w, NEW s, NamedLast(as, n, w, s)
  PROVE  NamedLast(bs, n, w, s)
<1>1. s \in 1..n
  BY DEF NamedLast
<1>2. \A j \in (s + 1)..n : j \in 1..n
  BY <1>1
<1> QED
  BY <1>1, <1>2 DEF NamedLast

LEMMA EventStays ==
  ASSUME NEW as, NEW bs, NEW n \in Nat, \A j \in 1..n : bs[j] = as[j], NEW a, NEW b, Event(as, n, a, b)
  PROVE  Event(bs, n, a, b)
<1>1. CASE LiteralEvent(a, b)
  BY <1>1 DEF Event
<1>2. CASE TokenEvent(as, n, a, b)
  <2>1. PICK f, name, d, s : Rereads(as, n, a, b, f, name, d, s)
    BY <1>2 DEF TokenEvent
  <2>2. f.k = "@&" => NamedLast(bs, n, d.words, s)
    BY <2>1, NamedStays DEF Rereads
  <2>3. Rereads(bs, n, a, b, f, name, d, s)
    BY <2>1, <2>2, Zenon DEF Rereads
  <2> QED
    BY <2>3, Zenon DEF Event, TokenEvent
<1> QED
  BY <1>1, <1>2 DEF Event

LEMMA TraceStays ==
  ASSUME NEW as, NEW bs, NEW n \in Nat, \A j \in 1..n : bs[j] = as[j], NEW T, Trace(as, n, T)
  PROVE  Trace(bs, n, T)
<1>1. \A k \in 2..Len(T) : Event(bs, n, T[k - 1], T[k])
  BY EventStays DEF Trace
<1> QED
  BY <1>1, Zenon DEF Trace

LEMMA TraceStarts ==
  ASSUME NEW as, NEW n, NEW e, e.scan = NotScanned, e.text = <<>>
  PROVE  Trace(as, n, <<e>>) /\ Final(<<e>>) = e
<1> DEFINE T == <<e>>
<1>1. IsList(T) /\ Len(T) = 1 /\ T[1] = e
  BY OneIsList
<1> HIDE DEF T
<1>2. Final(T) = e
  BY <1>1, Zenon DEF Final
<1>3. 2..Len(T) = {} /\ 1..Len(T) = {1}
  BY <1>1
<1>4. IsList(e.text) /\ Begins(e.text, e.text)
  BY EmptyIsList, SameList
<1>5. Trace(as, n, T)
  BY <1>1, <1>2, <1>3, <1>4 DEF Trace
<1> QED
  BY <1>2, <1>5 DEF T

LEMMA TraceMore ==
  ASSUME NEW as, NEW n, NEW T, Trace(as, n, T), NEW e, Event(as, n, Final(T), e),
         IsList(e.text), Begins(Final(T).text, e.text), Timeless(Final(T).scan) => Timeless(e.scan)
  PROVE  TraceTo(as, n, Append(T, e), e)
<1> DEFINE R == Append(T, e)
<1>0. R = Append(T, e)
  OBVIOUS
<1> SUFFICES TraceTo(as, n, R, e)
  OBVIOUS
<1> HIDE DEF R
<1> DEFINE m == Len(T)
           old == Final(T)
<1>1. IsList(T) /\ 1 \in 1..m /\ old = T[m]
  BY DEF Trace, Final
<1>2. IsList(R) /\ m \in Nat /\ Len(R) = m + 1 /\ R[m + 1] = e /\ \A k \in 1..m : R[k] = T[k]
  <2>1. IsList(R) /\ m \in Nat /\ Len(R) = m + 1 /\ R[m + 1] = e /\ Begins(T, R)
    BY <1>0, <1>1, Appended
  <2> QED
    BY <2>1 DEF Begins
<1>3. Final(R) = e
  BY <1>2 DEF Final
<1>4. R[1].scan = NotScanned /\ R[1].text = <<>>
  BY <1>1, <1>2 DEF Trace
<1>5. \A k \in 1..m : /\ IsList(T[k].text) /\ Begins(T[k].text, old.text)
                      /\ Timeless(T[k].scan) => Timeless(old.scan)
  BY DEF Trace
<1>6. \A k \in 2..m : Event(as, n, T[k - 1], T[k])
  BY DEF Trace
<1>7. Event(as, n, T[m], e)
  BY <1>1
<1>8. IsList(old.text)
  BY <1>1, <1>2, <1>5
<1> HIDE DEF m, old
<1>9. ASSUME NEW k \in 1..Len(R)
      PROVE  /\ IsList(R[k].text) /\ Begins(R[k].text, e.text)
             /\ Timeless(R[k].scan) => Timeless(e.scan)
  <2>1. CASE k \in 1..m
    <3>1. IsList(T[k].text) /\ Begins(T[k].text, old.text) /\ Begins(old.text, e.text)
      BY <1>5, <2>1 DEF old
    <3>2. Begins(T[k].text, e.text)
      BY <1>8, <3>1, BeginsOn
    <3>3. Timeless(T[k].scan) => Timeless(e.scan)
      BY <1>5, <2>1 DEF old
    <3> QED
      BY <1>2, <2>1, <3>1, <3>2, <3>3
  <2>2. CASE k = m + 1
    <3>1. R[k] = e /\ Begins(e.text, e.text)
      BY <1>2, <2>2, SameList
    <3> QED
      BY <3>1
  <2> QED
    BY <1>2, <2>1, <2>2
<1>10. ASSUME NEW k \in 2..Len(R)
       PROVE  Event(as, n, R[k - 1], R[k])
  <2>1. CASE k \in 2..m
    <3>1. k - 1 \in 1..m /\ k \in 1..m
      BY <1>2, <2>1
    <3>2. R[k - 1] = T[k - 1] /\ R[k] = T[k] /\ Event(as, n, T[k - 1], T[k])
      BY <1>2, <1>6, <2>1, <3>1
    <3> QED
      BY <3>2, Zenon
  <2>2. CASE k = m + 1
    <3>1. k - 1 = m /\ m \in 1..m
      BY <1>1, <1>2, <2>2
    <3>2. R[k - 1] = T[m] /\ R[k] = e
      BY <1>2, <2>2, <3>1
    <3> QED
      BY <1>7, <3>2, Zenon
  <2>3. k \in 2..m \/ k = m + 1
    BY <1>2
  <2> QED
    BY <2>1, <2>2, <2>3, Zenon
<1>11. 1 \in 1..Len(R)
  BY <1>2
<1>12. Trace(as, n, R)
  BY <1>2, <1>3, <1>4, <1>9, <1>10, <1>11, Zenon DEF Trace
<1> QED
  BY <1>3, <1>12 DEF TraceTo

-----------------------------------------------------------------------------
(* What opens no token, and the end of a text, when the text grows.        *)

NoneBehind(t, i)     == \A g \in (i + 1)..Len(t) : t[g].k # "group"
NoState(as, n, t, i) == i + 1 \in 1..Len(t) /\ t[i + 1].k = "group" /\ Unknown(as, n, t[i + 1].body.words)

(* Lexeme i of a text opens no token behind the first n steps.             *)
Plain(as, n, t, i) == t[i].k \in Sigils => NoneBehind(t, i) \/ (t[i].k = "@&" /\ NoState(as, n, t, i))

(* Lexeme p of what is printed will open none, the text is read up to i.    *)
Open(as, n, t, i, l, p) ==
  l[p].k \in Sigils =>
    \/ l[p].k = "@&" /\ NoState(as, n, l, p)
    \/ NoneBehind(l, p) /\ NoneBehind(t, i)
    \/ p = Len(l) /\ l[p].k = "@&" /\ NoState(as, n, t, i)

(* What can stand in the name behind an arrow.                              *)
IsBare(f) == f.k \in {"word", "=>"}

(* The words and "=>" the printed text ends in end what was read, too.       *)
Ends(t, i, l) ==
  /\ i # 0 => l # <<>>
  /\ \A c \in 0..(Len(l) - 1) : (\A q \in 0..c : IsBare(l[Len(l) - q])) =>
       c < i /\ \A q \in 0..c : t[i - q].k = l[Len(l) - q].k

LEMMA OpenLiteral ==
  ASSUME NEW as, NEW n, NEW t, IsList(t), NEW i \in Nat, NEW j, j = i + 1, j \in 1..Len(t), Plain(as, n, t, j),
         NEW l, IsList(l), NEW m, m = l \o <<t[j]>>
  PROVE  /\ Open(as, n, t, j, m, Len(m))
         /\ \A p \in 1..Len(l) : Open(as, n, t, i, l, p) => Open(as, n, t, j, m, p)
<1>1. /\ IsList(m) /\ Len(m) = Len(l) + 1 /\ Len(l) \in Nat /\ Len(t) \in Nat
      /\ m[Len(l) + 1] = t[j] /\ \A p \in 1..Len(l) : m[p] = l[p]
  <2>1. Len(t) \in Nat
    BY ListFacts
  <2>2. /\ IsList(m) /\ Len(m) = Len(l) + 1 /\ Len(l) \in Nat
        /\ m[Len(l) + 1] = t[j] /\ \A p \in 1..Len(l) : m[p] = l[p]
    <3>1. IsLonger(l, t[j], l \o <<t[j]>>)
      BY LongerBy
    <3>2. IsLonger(l, t[j], m)
      BY <3>1, Zenon
    <3> QED
      BY <3>2 DEF IsLonger
  <2> QED
    BY <2>1, <2>2
<1> HIDE DEF Sigils
<1>2. Open(as, n, t, j, m, Len(m))
  <2>1. m[Len(m)] = t[j] /\ NoneBehind(m, Len(m))
    BY <1>1 DEF NoneBehind
  <2> QED
    BY <2>1, Zenon DEF Open, Plain
<1>3. ASSUME NEW p \in 1..Len(l), Open(as, n, t, i, l, p)
      PROVE  Open(as, n, t, j, m, p)
  <2>1. m[p] = l[p] /\ p \in Nat
    BY <1>1
  <2>2. ASSUME NoState(as, n, l, p) PROVE NoState(as, n, m, p)
    <3>1. p + 1 \in 1..Len(l)
      BY <2>2 DEF NoState
    <3>2. p + 1 \in 1..Len(m) /\ m[p + 1] = l[p + 1]
      BY <1>1, <3>1
    <3> QED
      BY <2>2, <3>2, Zenon DEF NoState
  <2>3. ASSUME NoneBehind(l, p), NoneBehind(t, i) PROVE NoneBehind(m, p) /\ NoneBehind(t, j)
    <3>1. t[j].k # "group"
      BY <1>1, <2>3 DEF NoneBehind
    <3>2. NoneBehind(t, j)
      BY <1>1, <2>3 DEF NoneBehind
    <3>3. ASSUME NEW g \in (p + 1)..Len(m) PROVE m[g].k # "group"
      <4>1. CASE g = Len(l) + 1
        BY <1>1, <3>1, <4>1
      <4>2. CASE g # Len(l) + 1
        <5>1. g \in (p + 1)..Len(l) /\ g \in 1..Len(l)
          BY <1>1, <2>1, <4>2
        <5> QED
          BY <1>1, <2>3, <5>1 DEF NoneBehind
      <4> QED
        BY <4>1, <4>2
    <3> QED
      BY <3>2, <3>3 DEF NoneBehind
  <2>4. ASSUME p = Len(l), NoState(as, n, t, i) PROVE NoState(as, n, m, p)
    <3>1. t[j].k = "group" /\ Unknown(as, n, t[j].body.words)
      BY <2>4 DEF NoState
    <3>2. p + 1 \in 1..Len(m) /\ m[p + 1] = t[j]
      BY <1>1, <2>4
    <3> QED
      BY <3>1, <3>2, Zenon DEF NoState
  <2> QED
    BY <1>3, <2>1, <2>2, <2>3, <2>4, Zenon DEF Open
<1> QED
  BY <1>2, <1>3

LEMMA OpenToken ==
  ASSUME NEW as, NEW n, NEW t, IsList(t), NEW i \in Nat, NEW j, j = i + 1, j \in 1..Len(t), t[j].k # "group",
         NEW g \in (j + 1)..Len(t), t[g].k = "group", NEW l, IsList(l), NEW m, IsList(m), Begins(l, m),
         NEW p \in 1..Len(l), Open(as, n, t, i, l, p)
  PROVE  Open(as, n, t, g, m, p)
<1>1. Len(m) \in Nat /\ Len(l) \in Nat /\ Len(t) \in Nat /\ m[p] = l[p]
  BY ListFacts DEF Begins
<1>2. ~NoneBehind(t, i)
  BY <1>1 DEF NoneBehind
<1>3. ~NoState(as, n, t, i)
  BY DEF NoState
<1>4. ASSUME NoState(as, n, l, p) PROVE NoState(as, n, m, p)
  <2>1. p + 1 \in 1..Len(l)
    BY <1>4 DEF NoState
  <2>2. p + 1 \in 1..Len(m) /\ m[p + 1] = l[p + 1]
    BY <1>1, <2>1 DEF Begins
  <2> QED
    BY <1>4, <2>2, Zenon DEF NoState
<1> QED
  BY <1>1, <1>2, <1>3, <1>4, Zenon DEF Open

LEMMA EndsLiteral ==
  ASSUME NEW t, IsList(t), NEW i \in Nat, NEW j, j = i + 1, j \in 1..Len(t),
         NEW l, IsList(l), Ends(t, i, l), NEW m, m = l \o <<t[j]>>
  PROVE  Ends(t, j, m)
<1>1. /\ IsList(m) /\ Len(m) = Len(l) + 1 /\ Len(l) \in Nat /\ Len(t) \in Nat
      /\ m[Len(l) + 1] = t[j] /\ \A p \in 1..Len(l) : m[p] = l[p]
  <2>1. Len(t) \in Nat
    BY ListFacts
  <2>2. /\ IsList(m) /\ Len(m) = Len(l) + 1 /\ Len(l) \in Nat
        /\ m[Len(l) + 1] = t[j] /\ \A p \in 1..Len(l) : m[p] = l[p]
    <3>1. IsLonger(l, t[j], l \o <<t[j]>>)
      BY LongerBy
    <3>2. IsLonger(l, t[j], m)
      BY <3>1, Zenon
    <3> QED
      BY <3>2 DEF IsLonger
  <2> QED
    BY <2>1, <2>2
<1>2. m # <<>> /\ m[Len(m)] = t[j]
  BY <1>1, EmptyList
<1>3. ASSUME NEW c \in 0..(Len(m) - 1), \A q \in 0..c : IsBare(m[Len(m) - q])
      PROVE  c < j /\ \A q \in 0..c : t[j - q].k = m[Len(m) - q].k
  <2> DEFINE k == Len(l)
  <2>1. k \in Nat /\ Len(m) = k + 1 /\ c \in 0..k /\ m[k + 1] = t[j] /\ \A p \in 1..k : m[p] = l[p]
    BY <1>1
  <2>2. \A q \in 0..c : IsBare(m[k + 1 - q])
    BY <1>3, <2>1
  <2>3. CASE c = 0
    <3>1. \A q \in 0..c : q = 0
      BY <2>3
    <3>2. k + 1 - 0 = k + 1 /\ j - 0 = j /\ 0 < j
      BY <2>1
    <3> HIDE DEF k
    <3> QED
      BY <2>1, <2>3, <3>1, <3>2
  <2>4. CASE c # 0
    <3> DEFINE b == c - 1
    <3>1. b \in 0..(k - 1) /\ c = b + 1
      BY <2>1, <2>4
    <3>2. ASSUME NEW q \in 0..b
          PROVE  q + 1 \in 0..c /\ k + 1 - (q + 1) = k - q /\ k - q \in 1..k /\ i - q = j - (q + 1)
      <4> HIDE DEF b
      <4> QED
        BY <2>1, <3>1, <3>2
    <3> HIDE DEF b
    <3>3. ASSUME NEW q \in 0..b PROVE m[k + 1 - (q + 1)] = l[k - q]
      BY <2>1, <3>2, <3>3, Zenon
    <3>4. ASSUME NEW q \in 0..b PROVE IsBare(l[k - q])
      <4>1. IsBare(m[k + 1 - (q + 1)])
        BY <2>2, <3>2, <3>4, Zenon
      <4> QED
        BY <3>3, <3>4, <4>1, Zenon
    <3>5. b < i /\ \A q \in 0..b : t[i - q].k = l[k - q].k
      <4>1. \A q \in 0..b : IsBare(l[Len(l) - q])
        BY <3>4 DEF k
      <4>2. b \in 0..(Len(l) - 1)
        BY <3>1 DEF k
      <4> QED
        BY <4>1, <4>2, Zenon DEF Ends, k
    <3>6. c < j
      BY <3>1, <3>5
    <3>7. ASSUME NEW q \in 0..c PROVE t[j - q].k = m[k + 1 - q].k
      <4>1. CASE q = 0
        BY <2>1, <4>1
      <4>2. CASE q # 0
        <5> DEFINE r == q - 1
        <5>1. r \in 0..b /\ q = r + 1
          BY <3>1, <3>7, <4>2
        <5> HIDE DEF r
        <5>2. t[i - r].k = l[k - r].k
          BY <3>5, <5>1
        <5>3. m[k + 1 - (r + 1)] = l[k - r] /\ i - r = j - (r + 1)
          BY <3>2, <3>3, <5>1
        <5> QED
          BY <5>1, <5>2, <5>3, Zenon
      <4> QED
        BY <4>1, <4>2
    <3>8. Len(m) = k + 1
      BY <2>1
    <3> QED
      BY <3>6, <3>7, <3>8
  <2> QED
    BY <2>3, <2>4
<1> QED
  BY <1>2, <1>3 DEF Ends

LEMMA EndsToken ==
  ASSUME NEW t, NEW i \in Nat, i # 0, NEW l, IsList(l), NEW f, NEW name, IsName(name), NEW b,
         NEW x, x = Piece(f, name, b), NEW m, m = l \o x
  PROVE  Ends(t, i, m)
<1>1. IsList(x) /\ Len(x) = Len(name) + 2 /\ x[Len(name) + 2] = Group(b) /\ Len(name) \in Nat
  BY PieceFacts, ListFacts DEF IsName
<1>3. /\ IsList(m) /\ Len(l) \in Nat /\ Len(m) = Len(l) + Len(x)
      /\ \A p \in 1..Len(x) : m[Len(l) + p] = x[p]
  <2>1. IsJoined(l, x, l \o x)
    BY <1>1, JoinedTo
  <2>2. IsJoined(l, x, m)
    BY <2>1, Zenon
  <2> QED
    BY <2>2 DEF IsJoined
<1>4. m[Len(l) + Len(x)] = x[Len(x)]
  BY <1>1, <1>3
<1>5. m # <<>> /\ m[Len(m)] = Group(b)
  BY <1>1, <1>3, <1>4, EmptyList
<1>6. ~IsBare(m[Len(m)])
  BY <1>5 DEF Group, IsBare
<1>7. ASSUME NEW c \in 0..(Len(m) - 1), \A q \in 0..c : IsBare(m[Len(m) - q]) PROVE FALSE
  <2>1. Len(m) \in Nat
    BY <1>3, ListFacts
  <2>2. 0 \in 0..c /\ Len(m) - 0 = Len(m)
    BY <1>7, <2>1
  <2>3. IsBare(m[Len(m) - 0])
    BY <1>7, <2>2
  <2> QED
    BY <1>6, <2>2, <2>3
<1> QED
  BY <1>5, <1>7 DEF Ends

IsLiteralAt(T, k) == Len(T[k].text) = Len(T[k - 1].text) + 1
AllOpen(as, n, t, i, T) ==
  \A k \in 2..Len(T) : IsLiteralAt(T, k) => Open(as, n, t, i, Final(T).text, Len(T[k].text))

(* Of a step of the document i lexemes are read, and the scan is v.         *)
Follows(as, n, t, i, T, v) ==
  /\ Trace(as, n, T) /\ Final(T).scan = v /\ Final(T).text = Printed(as, v) /\ Sound(as, v)
  /\ AllOpen(as, n, t, i, T) /\ Ends(t, i, Final(T).text)

LEMMA TextsOfTrace ==
  ASSUME NEW as, NEW n, NEW T, Trace(as, n, T), NEW k \in 1..Len(T)
  PROVE  /\ IsList(T[k].text) /\ Len(T[k].text) \in Nat /\ Len(T[k].text) =< Len(Final(T).text)
         /\ Len(T) \in Nat /\ IsList(Final(T).text) /\ Len(Final(T).text) \in Nat
<1>1. IsList(T) /\ 1 \in 1..Len(T)
  BY DEF Trace
<1>2. Len(T) \in Nat
  BY <1>1, ListFacts
<1>3. IsList(T[k].text) /\ Begins(T[k].text, Final(T).text)
  BY DEF Trace
<1>4. IsList(T[Len(T)].text)
  <2>1. Len(T) \in 1..Len(T)
    BY <1>1, <1>2
  <2> QED
    BY <2>1 DEF Trace
<1>5. IsList(Final(T).text)
  BY <1>4 DEF Final
<1>6. Len(T[k].text) \in Nat /\ Len(Final(T).text) \in Nat
  BY <1>3, <1>5, ListFacts
<1> QED
  BY <1>2, <1>3, <1>5, <1>6 DEF Begins

LEMMA OpenMore ==
  ASSUME NEW as, NEW n, NEW T, Trace(as, n, T), NEW t, NEW i, AllOpen(as, n, t, i, T),
         NEW e, NEW R, R = Append(T, e), NEW j, NEW l, l = Final(T).text, NEW m, m = e.text,
         \A p \in 1..Len(l) : Open(as, n, t, i, l, p) => Open(as, n, t, j, m, p),
         Len(m) = Len(l) + 1 => Open(as, n, t, j, m, Len(m))
  PROVE  AllOpen(as, n, t, j, R)
<1> DEFINE c == Len(T)
<1>1. IsList(T) /\ 1 \in 1..c
  BY DEF Trace
<1>2. c \in Nat /\ Len(R) = c + 1 /\ R[c + 1] = e /\ \A k \in 1..c : R[k] = T[k]
  <2>1. IsList(R) /\ c \in Nat /\ Len(R) = c + 1 /\ R[c + 1] = e /\ Begins(T, R)
    BY <1>1, Appended
  <2> QED
    BY <2>1 DEF Begins
<1>3. Final(R) = e /\ Final(T) = T[c]
  BY <1>2 DEF Final
<1> HIDE DEF c
<1>4. ASSUME NEW k \in 2..Len(R), IsLiteralAt(R, k)
      PROVE  Open(as, n, t, j, m, Len(R[k].text))
  <2>1. CASE k \in 2..c
    <3>1. k - 1 \in 1..c /\ k \in 1..c
      BY <1>2, <2>1
    <3>2. R[k - 1] = T[k - 1] /\ R[k] = T[k]
      BY <1>2, <3>1
    <3>3. IsLiteralAt(T, k)
      BY <1>4, <3>2, Zenon DEF IsLiteralAt
    <3> DEFINE p == Len(T[k].text)
    <3>4. Open(as, n, t, i, l, p)
      BY <2>1, <3>3 DEF AllOpen, c
    <3>5. Len(T[k - 1].text) \in Nat /\ p \in Nat /\ p =< Len(l)
      BY <3>1, TextsOfTrace DEF c
    <3>6. p = Len(T[k - 1].text) + 1
      BY <3>3 DEF IsLiteralAt
    <3>7. Len(l) \in Nat
      BY <3>1, TextsOfTrace DEF c
    <3> HIDE DEF p
    <3>8. p \in 1..Len(l)
      BY <3>5, <3>6, <3>7
    <3>9. Open(as, n, t, j, m, p)
      BY <3>4, <3>8
    <3> QED
      BY <3>2, <3>9, Zenon DEF p
  <2>2. CASE k = c + 1
    <3>1. k - 1 = c /\ c \in 1..c
      BY <1>1, <1>2, <2>2
    <3>2. R[k - 1] = T[c] /\ R[k] = e
      BY <1>2, <2>2, <3>1
    <3>3. Len(m) = Len(l) + 1
      BY <1>3, <1>4, <3>2, Zenon DEF IsLiteralAt
    <3> QED
      BY <3>2, <3>3, Zenon
  <2>3. k \in 2..c \/ k = c + 1
    BY <1>2
  <2> QED
    BY <2>1, <2>2, <2>3, Zenon
<1> QED
  BY <1>3, <1>4, Zenon DEF AllOpen

LEMMA FollowsLiteral ==
  ASSUME NEW as, NEW n, NEW t, IsList(t), NEW i \in Nat, NEW T, NEW v, Follows(as, n, t, i, T, v),
         NEW j, j = i + 1, j \in 1..Len(t), Plain(as, n, t, j), NEW w, w = WithLiteral(v, t[j])
  PROVE  \E R : Follows(as, n, t, j, R, w)
<1> DEFINE x == t[j]
           l == Final(T).text
           m == Printed(as, w)
           e == [scan |-> w, text |-> m]
           R == Append(T, e)
<1>1. Trace(as, n, T) /\ Final(T).scan = v /\ l = Printed(as, v) /\ Sound(as, v)
  BY DEF Follows
<1>2. AllOpen(as, n, t, i, T) /\ Ends(t, i, l)
  BY DEF Follows
<1>3. Sound(as, w) /\ m = Printed(as, v) \o <<x>> /\ w.timers = v.timers
  <2>1. w = WithLiteral(v, x)
    OBVIOUS
  <2> HIDE DEF x
  <2>2. AddsLiteral(as, v, x, WithLiteral(v, x))
    BY <1>1, LiteralMore
  <2>3. AddsLiteral(as, v, x, w)
    BY <2>1, <2>2, Zenon
  <2> QED
    BY <2>3, Zenon DEF AddsLiteral, m
<1>4. m = l \o <<x>>
  BY <1>1, <1>3, Zenon
<1>5. e.scan = w /\ e.text = m
  OBVIOUS
<1>6. R = Append(T, e)
  OBVIOUS
<1>7. IsList(l)
  BY <1>1, PrintedIsList, Zenon
<1> HIDE DEF e, R, m, l
<1>8. IsLonger(l, x, m)
  <2>1. IsLonger(l, x, l \o <<x>>)
    BY <1>7, LongerBy
  <2> QED
    BY <1>4, <2>1, Zenon
<1>9. IsList(m) /\ Begins(l, m)
  BY <1>8 DEF IsLonger, Begins
<1>10. Event(as, n, Final(T), e)
  <2>1. LiteralEvent(Final(T), e)
    BY <1>1, <1>4, <1>5, Zenon DEF LiteralEvent, l
  <2> QED
    BY <2>1 DEF Event
<1>11. Timeless(Final(T).scan) => Timeless(e.scan)
  BY <1>1, <1>3, <1>5, Zenon DEF Timeless
<1>12. Trace(as, n, R) /\ Final(R) = e
  <2>1. IsList(e.text) /\ Begins(Final(T).text, e.text)
    BY <1>5, <1>9, Zenon DEF l
  <2>2. TraceTo(as, n, Append(T, e), e)
    BY <1>1, <1>10, <1>11, <2>1, TraceMore
  <2> QED
    BY <1>6, <2>2, Zenon DEF TraceTo
<1>13. /\ Open(as, n, t, j, m, Len(m))
       /\ \A p \in 1..Len(l) : Open(as, n, t, i, l, p) => Open(as, n, t, j, m, p)
  BY <1>4, <1>7, OpenLiteral DEF x
<1>14. AllOpen(as, n, t, j, R)
  <2>1. l = Final(T).text
    BY DEF l
  <2> QED
    BY <1>1, <1>2, <1>5, <1>6, <1>13, <2>1, OpenMore, Zenon
<1>15. Ends(t, j, m)
  BY <1>2, <1>4, <1>7, EndsLiteral DEF x
<1> QED
  BY <1>3, <1>5, <1>12, <1>14, <1>15, Zenon DEF Follows, m

LEMMA NamedIs ==
  ASSUME NEW as, NEW n, NEW w, NEW s, NamedLast(as, n, w, s)
  PROVE  NameOf(as, s) = w
<1>1. as[s].name = <<w>>
  BY DEF NamedLast
<1>2. <<w>> # <<>> /\ <<w>>[1] = w
  OBVIOUS
<1> QED
  BY <1>1, <1>2 DEF NameOf

(* What is printed of a scan without a literal.                             *)
LEMMA PrintedPieces ==
  ASSUME NEW as, NEW v, Sound(as, v), v.literal = <<>>
  PROVE  Printed(as, v) = Concat(Pieces(as, v))
<1> DEFINE p == Concat(Pieces(as, v))
<1>1. IsList(p)
  BY PrintedIsList
<1>2. Printed(as, v) = p \o <<>>
  BY DEF Printed
<1> HIDE DEF p
<1>3. p \o <<>> = p
  BY <1>1, JoinedOne
<1> QED
  BY <1>2, <1>3, Zenon DEF p

(* What reading a token comes to: more is printed, which is a token again.  *)
AddsToken(as, v, s, f, c, w, g, name, d) ==
  /\ Sound(as, w) /\ (Timeless(v) => Timeless(w))
  /\ Printed(as, w) = Printed(as, v) \o Piece(g, name, d)
  /\ Rewritten(as, EndedOf(v), s, f, c, w, g, name, d)

LEMMA TokenMore ==
  ASSUME NEW as, NEW v, Sound(as, v), NEW f, NEW name, IsName(name), NEW b, Accepts(f, b),
         NEW s, NEW c, NEW w, Takes(EndedOf(v), s, f, name, b, c, w)
  PROVE  \E g, x, d : AddsToken(as, v, s, f, c, w, g, x, d)
<1> DEFINE u == EndedOf(v)
<1>1. KeepsPrint(as, v, u)
  BY EndingKeeps
<1>2. Takes(u, s, f, name, b, c, w)
  OBVIOUS
<1>3. u = EndedOf(v)
  OBVIOUS
<1> HIDE DEF u
<1>4. Sound(as, u) /\ u.literal = <<>> /\ Printed(as, u) = Printed(as, v) /\ u.timers = v.timers
  BY <1>1, Zenon DEF KeepsPrint
<1>5. Rewrites(as, u, s, f, c, w)
  BY <1>2, <1>4, TokenRewritten
<1>6. /\ Sound(as, w) /\ w.literal = <<>> /\ (Timeless(u) => Timeless(w))
      /\ Concat(Pieces(as, w)) = Concat(Pieces(as, u)) \o PrintChunk(as, w, c)
  BY <1>5, Zenon DEF Rewrites
<1>7. PICK g, x, d : Rewritten(as, u, s, f, c, w, g, x, d)
  BY <1>5, Zenon DEF Rewrites
<1>8. PrintChunk(as, w, c) = Piece(g, x, d)
  BY <1>7, Zenon DEF Rewritten
<1>9. Printed(as, w) = Concat(Pieces(as, w)) /\ Printed(as, u) = Concat(Pieces(as, u))
  BY <1>4, <1>6, PrintedPieces
<1>10. Printed(as, w) = Printed(as, v) \o Piece(g, x, d)
  BY <1>4, <1>6, <1>8, <1>9, Zenon
<1>11. Timeless(v) => Timeless(w)
  BY <1>4, <1>6, Zenon DEF Timeless
<1>12. Rewritten(as, EndedOf(v), s, f, c, w, g, x, d)
  BY <1>3, <1>7, Zenon
<1>13. AddsToken(as, v, s, f, c, w, g, x, d)
  BY <1>6, <1>10, <1>11, <1>12, Zenon DEF AddsToken
<1> QED
  BY <1>13, Zenon

LEMMA RereadsIs ==
  ASSUME NEW as, NEW n, NEW a, NEW e, NEW v, a.scan = v, NEW w, e.scan = w,
         NEW f, f.k \in Sigils, NEW b, NEW s, f.k = "@&" => NamedLast(as, n, b.words, s),
         NEW c, NEW g, NEW x, NEW d, Rewritten(as, EndedOf(v), s, f, c, w, g, x, d),
         e.text = a.text \o Piece(g, x, d)
  PROVE  Rereads(as, n, a, e, g, x, d, s)
<1>1. g.k = f.k /\ IsName(x)
  BY DEF Rewritten
<1>2. g.k \in Sigils
  BY <1>1, Zenon
<1>3. ASSUME g.k = "@&" PROVE x = <<>> /\ NamedLast(as, n, d.words, s)
  <2>1. f.k = "@&"
    BY <1>1, <1>3
  <2>2. x = <<>> /\ d.words = NameOf(as, s)
    BY <2>1 DEF Rewritten
  <2>3. NamedLast(as, n, b.words, s)
    BY <2>1
  <2>4. NameOf(as, s) = b.words
    BY <2>3, NamedIs
  <2> QED
    BY <2>2, <2>3, <2>4, Zenon
<1>4. \/ Accepts(g, d) /\ Takes(EndedOf(v), s, g, x, d, c, w)
      \/ ~Accepts(g, d) /\ Timeless(w)
  BY DEF Rewritten
<1>5. \/ Accepts(g, d) /\ \E y : Takes(EndedOf(a.scan), s, g, x, d, y, e.scan)
      \/ ~Accepts(g, d) /\ Timeless(e.scan)
  BY <1>4, Zenon
<1> QED
  BY <1>1, <1>2, <1>3, <1>5, Zenon DEF Rereads

LEMMA FollowsToken ==
  ASSUME NEW as, NEW n, NEW t, IsList(t), NEW i \in Nat, NEW T, NEW v, Follows(as, n, t, i, T, v),
         NEW j, j = i + 1, j \in 1..Len(t), NEW f, f = t[j], f.k \in Sigils,
         NEW g \in (j + 1)..Len(t), t[g].k = "group",
         NEW name, IsName(name), NEW b, Accepts(f, b), NEW s, f.k = "@&" => NamedLast(as, n, b.words, s),
         NEW c, NEW w, Takes(EndedOf(v), s, f, name, b, c, w)
  PROVE  \E R : Follows(as, n, t, g, R, w)
<1> DEFINE l == Final(T).text
           m == Printed(as, w)
           e == [scan |-> w, text |-> m]
           R == Append(T, e)
<1>1. Trace(as, n, T) /\ Final(T).scan = v /\ l = Printed(as, v) /\ Sound(as, v)
  BY DEF Follows
<1>2. AllOpen(as, n, t, i, T) /\ Ends(t, i, l)
  BY DEF Follows
<1>3. PICK h, x, d : AddsToken(as, v, s, f, c, w, h, x, d)
  BY <1>1, TokenMore
<1> DEFINE y == Piece(h, x, d)
<1>4. /\ Sound(as, w) /\ (Timeless(v) => Timeless(w)) /\ m = l \o y
      /\ Rewritten(as, EndedOf(v), s, f, c, w, h, x, d)
  BY <1>1, <1>3, Zenon DEF AddsToken
<1>5. e.scan = w /\ e.text = m
  OBVIOUS
<1>6. R = Append(T, e)
  OBVIOUS
<1>7. IsList(l)
  BY <1>1, PrintedIsList, Zenon
<1>8. IsName(x)
  BY <1>4 DEF Rewritten
<1>9. IsList(y) /\ Len(y) = Len(x) + 2 /\ Len(x) \in Nat
  BY <1>8, PieceFacts, ListFacts DEF IsName
<1>10. y = Piece(h, x, d)
  OBVIOUS
<1> HIDE DEF e, R, m, l, y
<1>11. IsJoined(l, y, m)
  <2>1. IsJoined(l, y, l \o y)
    BY <1>7, <1>9, JoinedTo
  <2> QED
    BY <1>4, <2>1, Zenon
<1>12. IsList(m) /\ Begins(l, m) /\ Len(m) # Len(l) + 1
  BY <1>9, <1>11 DEF IsJoined, Begins
<1>13. Event(as, n, Final(T), e)
  <2>1. e.text = Final(T).text \o Piece(h, x, d)
    BY <1>4, <1>5, <1>10, Zenon DEF l
  <2>2. Rereads(as, n, Final(T), e, h, x, d, s)
    BY <1>1, <1>4, <1>5, <2>1, RereadsIs
  <2> QED
    BY <2>2, Zenon DEF Event, TokenEvent
<1>14. Timeless(Final(T).scan) => Timeless(e.scan)
  BY <1>1, <1>4, <1>5, Zenon
<1>15. Trace(as, n, R) /\ Final(R) = e
  <2>1. IsList(e.text) /\ Begins(Final(T).text, e.text)
    BY <1>5, <1>12, Zenon DEF l
  <2>2. TraceTo(as, n, Append(T, e), e)
    BY <1>1, <1>13, <1>14, <2>1, TraceMore
  <2> QED
    BY <1>6, <2>2, Zenon DEF TraceTo
<1>16. t[j].k # "group"
  BY DEF Sigils
<1>17. \A p \in 1..Len(l) : Open(as, n, t, i, l, p) => Open(as, n, t, g, m, p)
  BY <1>7, <1>12, <1>16, OpenToken
<1>18. AllOpen(as, n, t, g, R)
  <2>1. l = Final(T).text
    BY DEF l
  <2> QED
    BY <1>1, <1>2, <1>5, <1>6, <1>12, <1>17, <2>1, OpenMore, Zenon
<1>19. Ends(t, g, m)
  <2>1. g \in Nat /\ g # 0
    OBVIOUS
  <2> QED
    BY <1>4, <1>7, <1>8, <1>10, <2>1, EndsToken
<1> QED
  BY <1>4, <1>5, <1>15, <1>18, <1>19, Zenon DEF Follows, m

-----------------------------------------------------------------------------
(* A step that is read, and what is printed for it.                        *)

ActionOf(v, name) ==
  [name |-> name, uses |-> v.uses, ingredients |-> v.ingredients, cookware |-> v.cookware,
   timers |-> v.timers, temperatures |-> v.temperatures, chunks |-> EndedOf(v).chunks]
StepTail(name) == IF name = <<>> THEN <<>> ELSE <<Mark("=>")>> \o name[1]

LEMMA ActionFields ==
  ASSUME NEW v, NEW name, NEW a, a = ActionOf(v, name)
  PROVE  LET u == EndedOf(v) IN
         /\ a.name = name /\ a.uses = u.uses /\ a.ingredients = u.ingredients /\ a.cookware = u.cookware
         /\ a.timers = u.timers /\ a.temperatures = u.temperatures /\ a.chunks = u.chunks
         /\ u.timers = v.timers
<1> DEFINE u == EndedOf(v)
           chunks == u.chunks
<1>1. /\ u.uses = v.uses /\ u.ingredients = v.ingredients /\ u.cookware = v.cookware
      /\ u.timers = v.timers /\ u.temperatures = v.temperatures
  <2> DEFINE c == IF v.literal = <<>> THEN v.chunks ELSE Append(v.chunks, Literal(v.literal))
  <2>1. u = Scan(<<>>, c, v.ingredients, v.cookware, v.timers, v.temperatures, v.uses, v.counter)
    BY DEF EndedOf
  <2> HIDE DEF c, u
  <2> QED
    BY <2>1, ScanFields
<1>2. a = [name |-> name, uses |-> v.uses, ingredients |-> v.ingredients, cookware |-> v.cookware,
           timers |-> v.timers, temperatures |-> v.temperatures, chunks |-> chunks]
  BY Zenon DEF ActionOf
<1> HIDE DEF chunks, u
<1>3. /\ a.name = name /\ a.uses = v.uses /\ a.ingredients = v.ingredients /\ a.cookware = v.cookware
      /\ a.timers = v.timers /\ a.temperatures = v.temperatures /\ a.chunks = chunks
  BY <1>2
<1> QED
  BY <1>1, <1>3, Zenon DEF chunks, u

(* A use that stands in the prose is not printed before it.                 *)
LEMMA NoLeadingUses ==
  ASSUME NEW as, NEW u, Sound(as, u), NEW a, a.uses = u.uses, a.chunks = u.chunks
  PROVE  LeadingUses(as, a) = <<>>
<1> DEFINE n == Len(u.uses)
           F(i) == IF IsLeading(a, u.uses[i]) THEN Reference(as, u.uses[i]) ELSE <<>>
           l == [i \in 1..n |-> F(i)]
<1>1. IsList(u.uses) /\ IsList(u.chunks)
  BY DEF Sound, Tidy
<1>2. n \in Nat /\ DOMAIN u.uses = 1..n /\ DOMAIN u.chunks = 1..Len(u.chunks)
  BY <1>1, ListFacts
<1>3. LeadingUses(as, a) = Concat(l)
  BY <1>2, Zenon DEF LeadingUses
<1>4. ASSUME NEW i \in 1..n PROVE F(i) = <<>>
  <2>1. PICK j \in 1..Len(u.chunks) : u.chunks[j] = Chunk("state", u.uses[i])
    BY DEF Sound
  <2>2. j \in DOMAIN a.chunks /\ a.chunks[j] = Chunk("state", u.uses[i])
    BY <1>2, <2>1
  <2>3. ~IsLeading(a, u.uses[i])
    BY <2>2, Zenon DEF IsLeading
  <2> QED
    BY <2>3, Zenon
<1> HIDE DEF n, F
<1>5. Len(l) = n /\ \A i \in 1..n : l[i] = F(i)
  BY <1>2
<1> HIDE DEF l
<1>6. \A i \in 1..Len(l) : l[i] = <<>>
  BY <1>4, <1>5
<1> QED
  BY <1>2, <1>3, <1>5, <1>6, ConcatNone

LEMMA BodyPrinted ==
  ASSUME NEW as, NEW u, Sound(as, u), NEW a, a.chunks = u.chunks, a.ingredients = u.ingredients,
         a.cookware = u.cookware, a.timers = u.timers, a.temperatures = u.temperatures
  PROVE  PrintBody(as, a) = Concat(Pieces(as, u))
<1>1. IsList(u.chunks) /\ IsList(u.ingredients)
  BY DEF Sound, Tidy
<1>2. CASE a.chunks # <<>>
  <2> DEFINE l == [i \in DOMAIN a.chunks |-> PrintChunk(as, a, a.chunks[i])]
  <2>1. PrintBody(as, a) = Concat(l)
    BY <1>2 DEF PrintBody
  <2>2. \A c : PrintChunk(as, a, c) = PrintChunk(as, u, c)
    BY Zenon DEF PrintChunk
  <2>3. l = [i \in DOMAIN u.chunks |-> PrintChunk(as, u, u.chunks[i])]
    BY <2>2
  <2>4. l = Pieces(as, u)
    BY <2>3, Zenon DEF Pieces
  <2> HIDE DEF l
  <2> QED
    BY <2>1, <2>4, Zenon
<1>3. CASE a.chunks = <<>>
  <2> DEFINE F(i) == (IF i = 1 THEN <<>> ELSE <<Word(" ")>>) \o IngredientToken(a.ingredients[i])
             l == [i \in DOMAIN a.ingredients |-> F(i)]
             p == Pieces(as, u)
  <2>1. PrintBody(as, a) = Concat(l)
    BY <1>3, Zenon DEF PrintBody
  <2>2. Len(u.chunks) = 0
    BY <1>1, <1>3, EmptyList
  <2>3. Len(u.ingredients) \in Nat /\ DOMAIN u.ingredients = 1..Len(u.ingredients)
    BY <1>1, ListFacts
  <2>4. Len(u.ingredients) = 0
    BY <2>2, <2>3 DEF Sound
  <2>5. DOMAIN a.ingredients = 1..0
    BY <2>3, <2>4
  <2> HIDE DEF F
  <2>6. Len(l) = 0
    BY <2>5
  <2> HIDE DEF l
  <2>7. Concat(l) = <<>>
    BY <2>6, ConcatNone
  <2>8. Len(p) = 0
    BY <1>1, <2>2, PiecesAre
  <2> HIDE DEF p
  <2>9. Concat(p) = <<>>
    BY <2>8, ConcatNone
  <2> QED
    BY <2>1, <2>7, <2>9 DEF p
<1> QED
  BY <1>2, <1>3

LEMMA StepPrinted ==
  ASSUME NEW as, NEW v, Sound(as, v), NEW name
  PROVE  PrintStep(as, ActionOf(v, name)) = Printed(as, v) \o StepTail(name)
<1> DEFINE a == ActionOf(v, name)
           u == EndedOf(v)
           p == Printed(as, v)
           tail == StepTail(name)
<1>1. /\ a.name = name /\ a.uses = u.uses /\ a.ingredients = u.ingredients /\ a.cookware = u.cookware
      /\ a.timers = u.timers /\ a.temperatures = u.temperatures /\ a.chunks = u.chunks
  BY ActionFields
<1>2. KeepsPrint(as, v, u)
  BY EndingKeeps
<1> HIDE DEF a, u
<1>3. Sound(as, u) /\ u.literal = <<>> /\ Printed(as, u) = p
  BY <1>2, Zenon DEF KeepsPrint
<1>4. IsList(p)
  BY PrintedIsList
<1> HIDE DEF p
<1>5. PrintBody(as, a) = p
  <2>1. PrintBody(as, a) = Concat(Pieces(as, u))
    BY <1>1, <1>3, BodyPrinted
  <2>2. Printed(as, u) = Concat(Pieces(as, u))
    BY <1>3, PrintedPieces
  <2> QED
    BY <1>3, <2>1, <2>2, Zenon
<1>6. LeadingUses(as, a) = <<>>
  BY <1>1, <1>3, NoLeadingUses
<1>7. PrintStep(as, a) = LeadingUses(as, a) \o PrintBody(as, a) \o tail
  BY <1>1, Zenon DEF PrintStep, StepTail
<1> HIDE DEF tail
<1>8. <<>> \o p = p
  BY <1>4, JoinedOne
<1>9. PrintStep(as, a) = p \o tail
  BY <1>5, <1>6, <1>7, <1>8, Zenon
<1> QED
  BY <1>9 DEF a, p, tail

(* A step that uses the first n, and has only chunks of the known kinds.     *)
Placed(a, n) == IsSound(a, n) /\ \A j \in DOMAIN a.chunks : a.chunks[j].kind \in ChunkKinds

LEMMA ReferenceStays ==
  ASSUME NEW as, NEW bs, NEW s, bs[s] = as[s]
  PROVE  Reference(bs, s) = Reference(as, s)
<1>1. NameOf(bs, s) = NameOf(as, s)
  BY Zenon DEF NameOf
<1> QED
  BY <1>1, Zenon DEF Reference

SameState(as, bs, c) == c.kind = "state" => bs[c.ref] = as[c.ref]
SameChunk(as, bs, a, c) == PrintChunk(bs, a, c) = PrintChunk(as, a, c)
SamePrint(as, bs, a)    == PrintStep(bs, a) = PrintStep(as, a)

LEMMA ChunkPrintStays ==
  ASSUME NEW as, NEW bs, NEW a, NEW c, c.kind \in ChunkKinds, SameState(as, bs, c)
  PROVE  SameChunk(as, bs, a, c)
<1> SUFFICES PrintChunk(bs, a, c) = PrintChunk(as, a, c)
  BY DEF SameChunk
<1>1. CASE c.kind = "state"
  <2>1. Reference(bs, c.ref) = Reference(as, c.ref)
    BY <1>1, ReferenceStays DEF SameState
  <2> QED
    BY <1>1, <2>1, PrintsState
<1>2. CASE c.kind = "text"
  BY <1>2, PrintsText
<1>3. CASE c.kind = "ingredient"
  <2>1. PrintChunk(as, a, c) = IngredientToken(WithId(a.ingredients, c.ref))
    BY <1>3, PrintsIngredient
  <2>2. PrintChunk(bs, a, c) = IngredientToken(WithId(a.ingredients, c.ref))
    BY <1>3, PrintsIngredient
  <2> QED
    BY <2>1, <2>2, Zenon
<1>4. CASE c.kind = "cookware"
  <2>1. PrintChunk(as, a, c) = CookwareToken(WithId(a.cookware, c.ref))
    BY <1>4, PrintsCookware
  <2>2. PrintChunk(bs, a, c) = CookwareToken(WithId(a.cookware, c.ref))
    BY <1>4, PrintsCookware
  <2> QED
    BY <2>1, <2>2, Zenon
<1>5. CASE c.kind = "timer"
  <2>1. PrintChunk(as, a, c) = TimerToken(a.timers[c.ref + 1])
    BY <1>5, PrintsTimer
  <2>2. PrintChunk(bs, a, c) = TimerToken(a.timers[c.ref + 1])
    BY <1>5, PrintsTimer
  <2> QED
    BY <2>1, <2>2, Zenon
<1>6. CASE c.kind = "temperature"
  <2>1. PrintChunk(as, a, c) = TemperatureToken(a.temperatures[c.ref + 1])
    BY <1>6, PrintsTemperature
  <2>2. PrintChunk(bs, a, c) = TemperatureToken(a.temperatures[c.ref + 1])
    BY <1>6, PrintsTemperature
  <2> QED
    BY <2>1, <2>2, Zenon
<1> QED
  BY <1>1, <1>2, <1>3, <1>4, <1>5, <1>6 DEF ChunkKinds

(* A step is printed as before when steps are added.                        *)
LEMMA PrintStepStays ==
  ASSUME NEW as, NEW n, NEW a, Placed(a, n), NEW bs, \A j \in 1..n : bs[j] = as[j]
  PROVE  SamePrint(as, bs, a)
<1> SUFFICES PrintStep(bs, a) = PrintStep(as, a)
  BY DEF SamePrint
<1> DEFINE F(s) == [i \in DOMAIN a.uses |-> IF IsLeading(a, a.uses[i]) THEN Reference(s, a.uses[i]) ELSE <<>>]
           P(s) == [i \in DOMAIN a.chunks |-> PrintChunk(s, a, a.chunks[i])]
<1>1. \A i \in DOMAIN a.uses : Reference(bs, a.uses[i]) = Reference(as, a.uses[i])
  <2> TAKE i \in DOMAIN a.uses
  <2>1. a.uses[i] \in 1..n
    BY DEF Placed, IsSound
  <2>2. bs[a.uses[i]] = as[a.uses[i]]
    BY <2>1
  <2> QED
    BY <2>2, ReferenceStays
<1>2. \A i \in DOMAIN a.chunks : PrintChunk(bs, a, a.chunks[i]) = PrintChunk(as, a, a.chunks[i])
  <2> TAKE i \in DOMAIN a.chunks
  <2> DEFINE c == a.chunks[i]
  <2>1. c.kind \in ChunkKinds /\ ChunkIsSound(c, a)
    BY DEF Placed, IsSound
  <2>2. c.kind = "state" => bs[c.ref] = as[c.ref]
    <3> SUFFICES ASSUME c.kind = "state" PROVE bs[c.ref] = as[c.ref]
      OBVIOUS
    <3>1. PICK k \in DOMAIN a.uses : a.uses[k] = c.ref
      BY <2>1 DEF ChunkIsSound
    <3>2. c.ref \in 1..n
      BY <3>1 DEF Placed, IsSound
    <3> QED
      BY <3>2
  <2> HIDE DEF c
  <2>3. PrintChunk(bs, a, c) = PrintChunk(as, a, c)
    <3>1. c.kind \in ChunkKinds /\ SameState(as, bs, c)
      BY <2>1, <2>2, Zenon DEF SameState
    <3>2. SameChunk(as, bs, a, c)
      BY <3>1, ChunkPrintStays
    <3> QED
      BY <3>2 DEF SameChunk
  <2> QED
    BY <2>3 DEF c
<1>3. F(bs) = F(as)
  BY <1>1
<1>4. P(bs) = P(as)
  BY <1>2
<1>5. LeadingUses(bs, a) = LeadingUses(as, a)
  <2>1. LeadingUses(bs, a) = Concat(F(bs)) /\ LeadingUses(as, a) = Concat(F(as))
    BY Zenon DEF LeadingUses
  <2> HIDE DEF F
  <2> QED
    BY <1>3, <2>1, Zenon
<1>6. PrintBody(bs, a) = PrintBody(as, a)
  <2>1. CASE a.chunks # <<>>
    <3>1. PrintBody(bs, a) = Concat(P(bs)) /\ PrintBody(as, a) = Concat(P(as))
      BY <2>1, Zenon DEF PrintBody
    <3> HIDE DEF P
    <3> QED
      BY <1>4, <3>1, Zenon
  <2>2. CASE a.chunks = <<>>
    BY <2>2, Zenon DEF PrintBody
  <2> QED
    BY <2>1, <2>2
<1>7. PrintStep(bs, a) = LeadingUses(bs, a) \o PrintBody(bs, a) \o StepTail(a.name)
  BY Zenon DEF PrintStep, StepTail
<1>8. PrintStep(as, a) = LeadingUses(as, a) \o PrintBody(as, a) \o StepTail(a.name)
  BY Zenon DEF PrintStep, StepTail
<1> DEFINE p == LeadingUses(bs, a) \o PrintBody(bs, a)
           q == LeadingUses(as, a) \o PrintBody(as, a)
<1>9. p = q
  BY <1>5, <1>6, Zenon
<1>10. PrintStep(bs, a) = p \o StepTail(a.name)
  BY <1>7
<1>11. PrintStep(as, a) = q \o StepTail(a.name)
  BY <1>8
<1> DEFINE tail == StepTail(a.name)
<1> HIDE DEF p, q, tail
<1>12. PrintStep(bs, a) = p \o tail /\ PrintStep(as, a) = q \o tail
  BY <1>10, <1>11 DEF tail
<1> QED
  BY <1>9, <1>12, Zenon

(* The step a behind n others, traced by T.                                 *)
IsPhrase(w) == IsList(w) /\ w # <<>> /\ \A i \in 1..Len(w) : IsBare(w[i])
IsProduced(name) == name = <<>> \/ \E w : name = <<w>> /\ IsPhrase(w)

(* No "=>" behind which the text only goes on with words and "=>": followed  *)
(* by "=> name", it is read as what it was.                                 *)
Trails(t) == \E p \in 1..Len(t) : t[p].k = "=>" /\ \A j \in (p + 1)..Len(t) : IsBare(t[j])
FitsName(t, name) ==
  /\ name = <<>> => t # <<>> /\ ~Produces(t)
  /\ name # <<>> => ~Trails(t)

Settled(as, n, T) ==
  \A k \in 2..Len(T) : IsLiteralAt(T, k) => Plain(as, n, Final(T).text, Len(T[k].text))
IsStep(as, n, a, T) ==
  /\ Trace(as, n, T) /\ Settled(as, n, T) /\ Placed(a, n)
  /\ a = ActionOf(Final(T).scan, a.name)
  /\ IsProduced(a.name) /\ FitsName(Final(T).text, a.name)
  /\ PrintStep(as, a) = Final(T).text \o StepTail(a.name)

LEMMA StepStays ==
  ASSUME NEW as, NEW n \in Nat, NEW a, NEW T, IsStep(as, n, a, T), NEW bs, \A j \in 1..n : bs[j] = as[j]
  PROVE  IsStep(bs, n, a, T)
<1>1. Trace(bs, n, T)
  BY TraceStays DEF IsStep
<1>2. \A w : Unknown(as, n, w) => Unknown(bs, n, w)
  BY DEF Unknown
<1>3. \A t, i : Plain(as, n, t, i) => Plain(bs, n, t, i)
  BY <1>2, Zenon DEF Plain, NoState
<1>4. Settled(bs, n, T)
  BY <1>3, Zenon DEF IsStep, Settled
<1>5. PrintStep(bs, a) = PrintStep(as, a)
  <2>1. Placed(a, n)
    BY DEF IsStep
  <2>2. SamePrint(as, bs, a)
    BY <2>1, PrintStepStays
  <2> QED
    BY <2>2 DEF SamePrint
<1> QED
  BY <1>1, <1>4, <1>5, Zenon DEF IsStep

(* The run of words and "=>" a text ends in, seen from its end.             *)
LEMMA RunOfTheEnd ==
  ASSUME NEW t, NEW i \in Nat, i = Len(t), NEW l, IsList(l), Ends(t, i, l),
         NEW p \in 1..Len(l), l[p].k = "=>", \A j \in (p + 1)..Len(l) : IsBare(l[j])
  PROVE  \E x \in 1..i : (p < Len(l) => x < i) /\ t[x].k = "=>" /\ \A j \in (x + 1)..i : IsBare(t[j])
<1> DEFINE k == Len(l)
           c == k - p
<1>1. k \in Nat /\ p \in 1..k
  BY ListFacts
<1>2. c \in 0..(k - 1) /\ k - c = p
  BY <1>1
<1>3. ASSUME NEW q \in 0..c PROVE IsBare(l[k - q])
  <2>1. CASE q = c
    BY <1>2, <2>1 DEF IsBare
  <2>2. CASE q # c
    <3>1. k - q \in (p + 1)..k
      BY <1>1, <1>2, <1>3, <2>2
    <3> HIDE DEF c
    <3> QED
      BY <3>1
  <2> QED
    BY <2>1, <2>2
<1>4. c < i /\ \A q \in 0..c : t[i - q].k = l[k - q].k
  <2> HIDE DEF c
  <2>1. c \in 0..(Len(l) - 1) /\ \A q \in 0..c : IsBare(l[Len(l) - q])
    BY <1>2, <1>3
  <2> QED
    BY <2>1, Zenon DEF Ends
<1> HIDE DEF c, k
<1>5. c \in 0..(i - 1) /\ c \in 0..c
  BY <1>2, <1>4
<1>6. t[i - c].k = "=>"
  BY <1>2, <1>4, <1>5
<1>7. ASSUME NEW j \in (i - c + 1)..i PROVE IsBare(t[j])
  <2> DEFINE q == i - j
  <2>1. q \in 0..c /\ i - q = j
    BY <1>5, <1>7
  <2> HIDE DEF q
  <2>2. t[j].k = l[k - q].k
    BY <1>4, <2>1
  <2>3. IsBare(l[k - q])
    BY <1>3, <2>1
  <2> QED
    BY <2>2, <2>3 DEF IsBare
<1> DEFINE x == i - c
<1>8. x \in 1..i /\ (p < Len(l) => x < i)
  BY <1>1, <1>2, <1>5 DEF k
<1>9. t[x].k = "=>" /\ \A j \in (x + 1)..i : IsBare(t[j])
  BY <1>6, <1>7
<1> HIDE DEF x
<1> QED
  BY <1>8, <1>9

LEMMA EndsFits ==
  ASSUME NEW t, IsList(t), NEW i \in Nat, i = Len(t), NEW l, IsList(l), Ends(t, i, l),
         NEW name, FitsName(t, name)
  PROVE  FitsName(l, name)
<1>1. DOMAIN l = 1..Len(l) /\ Len(l) \in Nat /\ DOMAIN t = 1..Len(t)
  BY ListFacts
<1>2. ASSUME name = <<>> PROVE l # <<>> /\ ~Produces(l)
  <2>1. t # <<>> /\ ~Produces(t)
    BY <1>2 DEF FitsName
  <2>2. i # 0
    BY <2>1, EmptyList
  <2>3. l # <<>>
    BY <2>2 DEF Ends
  <2>4. ASSUME Produces(l) PROVE FALSE
    <3>1. PICK p \in 1..Len(l) : IsArrow(l, p)
      BY <1>1, <2>4 DEF Produces
    <3>2. l[p].k = "=>" /\ p < Len(l) /\ \A j \in (p + 1)..Len(l) : IsBare(l[j])
      BY <3>1 DEF IsArrow, IsBare
    <3>3. PICK x \in 1..i : (p < Len(l) => x < i) /\ t[x].k = "=>" /\ \A j \in (x + 1)..i : IsBare(t[j])
      <4>1. l[p].k = "=>" /\ \A j \in (p + 1)..Len(l) : IsBare(l[j])
        BY <3>2
      <4> QED
        BY <4>1, RunOfTheEnd, Zenon
    <3>4. x < i
      BY <3>2, <3>3
    <3>5. x \in 1..i /\ x < i /\ t[x].k = "=>" /\ \A j \in (x + 1)..i : IsBare(t[j])
      BY <3>3, <3>4
    <3>6. IsArrow(t, x)
      BY <3>5 DEF IsArrow, IsBare
    <3>7. x \in DOMAIN t
      BY <1>1, <3>5
    <3> QED
      BY <2>1, <3>6, <3>7 DEF Produces
  <2> QED
    BY <2>3, <2>4
<1>3. ASSUME name # <<>>, Trails(l) PROVE FALSE
  <2>1. ~Trails(t)
    BY <1>3 DEF FitsName
  <2>2. PICK p \in 1..Len(l) : l[p].k = "=>" /\ \A j \in (p + 1)..Len(l) : IsBare(l[j])
    BY <1>3 DEF Trails
  <2>3. PICK x \in 1..i : t[x].k = "=>" /\ \A j \in (x + 1)..i : IsBare(t[j])
    BY <2>2, RunOfTheEnd
  <2> QED
    BY <2>1, <2>3 DEF Trails
<1> QED
  BY <1>2, <1>3 DEF FitsName

LEMMA StepEnds ==
  ASSUME NEW as, NEW n, NEW t, IsList(t), NEW i, i = Len(t), NEW T, NEW v, Follows(as, n, t, i, T, v),
         NEW name, IsProduced(name), FitsName(t, name),
         NEW a, a = ActionOf(v, name), Placed(a, n)
  PROVE  IsStep(as, n, a, T)
<1> DEFINE l == Final(T).text
<1>1. Trace(as, n, T) /\ Final(T).scan = v /\ l = Printed(as, v) /\ Sound(as, v)
  BY DEF Follows
<1>2. AllOpen(as, n, t, i, T) /\ Ends(t, i, l)
  BY DEF Follows
<1>3. Len(t) \in Nat
  BY ListFacts
<1>4. Settled(as, n, T)
  <2>1. ~NoState(as, n, t, i)
    <3>1. ~(i + 1 \in 1..Len(t))
      BY <1>3
    <3> QED
      BY <3>1, Zenon DEF NoState
  <2>2. \A p : Open(as, n, t, i, l, p) => Plain(as, n, l, p)
    BY <2>1, Zenon DEF Open, Plain
  <2> QED
    BY <1>2, <2>2, Zenon DEF AllOpen, Settled
<1>5. a.name = name
  BY ActionFields
<1>6. a = ActionOf(Final(T).scan, a.name)
  BY <1>1, <1>5, Zenon
<1>7. PrintStep(as, a) = l \o StepTail(a.name)
  <2>1. PrintStep(as, ActionOf(v, name)) = Printed(as, v) \o StepTail(name)
    BY <1>1, StepPrinted
  <2> QED
    BY <1>1, <1>5, <2>1, Zenon
<1>8. FitsName(l, name)
  <2>1. 1 \in 1..Len(T)
    BY <1>1 DEF Trace
  <2>2. IsList(l)
    BY <1>1, <2>1, TextsOfTrace
  <2> HIDE DEF l
  <2> QED
    BY <1>2, <1>3, <2>2, EndsFits
<1>9. IsProduced(a.name) /\ FitsName(l, a.name)
  BY <1>5, <1>8, Zenon
<1> QED
  BY <1>1, <1>4, <1>6, <1>7, <1>9, Zenon DEF IsStep

(* The arrow, when there is one, is the leftmost.                           *)
LEMMA ArrowIs ==
  ASSUME NEW t, IsList(t), NEW i \in 1..Len(t), IsArrow(t, i), \A j \in 1..(i - 1) : ~IsArrow(t, j)
  PROVE  Produces(t) /\ Arrow(t) = i
<1> DEFINE Q(x) == x \in DOMAIN t /\ IsArrow(t, x) /\ \A j \in 1..(x - 1) : ~IsArrow(t, j)
<1>1. DOMAIN t = 1..Len(t) /\ Len(t) \in Nat
  BY ListFacts
<1>2. Arrow(t) = CHOOSE x : Q(x)
  BY DEF Arrow
<1>3. Q(i)
  BY <1>1
<1>4. ASSUME NEW x, Q(x) PROVE x = i
  <2>1. x \in 1..Len(t) /\ IsArrow(t, x) /\ \A j \in 1..(x - 1) : ~IsArrow(t, j)
    BY <1>1, <1>4
  <2>2. ~(x < i)
    BY <2>1
  <2>3. ~(i < x)
    BY <2>1
  <2> QED
    BY <2>1, <2>2, <2>3
<1> HIDE DEF Q
<1>5. Arrow(t) = i
  BY <1>2, <1>3, <1>4, Zenon
<1>6. Produces(t)
  BY <1>1 DEF Produces
<1> QED
  BY <1>5, <1>6

LEMMA ArrowFound ==
  ASSUME NEW t, IsList(t), Produces(t)
  PROVE  /\ Arrow(t) \in 1..Len(t) /\ t[Arrow(t)].k = "=>" /\ Arrow(t) < Len(t)
         /\ \A j \in (Arrow(t) + 1)..Len(t) : IsBare(t[j])
         /\ \A j \in 1..(Arrow(t) - 1) : ~IsArrow(t, j)
<1> DEFINE arrows == {i \in Nat : i \in 1..Len(t) /\ IsArrow(t, i)}
<1>1. DOMAIN t = 1..Len(t) /\ Len(t) \in Nat
  BY ListFacts
<1>2. arrows # {}
  BY <1>1 DEF Produces
<1>3. PICK i \in arrows : \A y \in arrows : i =< y
  BY <1>2, LeastOf
<1>4. i \in 1..Len(t) /\ IsArrow(t, i)
  BY <1>3
<1>5. \A j \in 1..(i - 1) : ~IsArrow(t, j)
  BY <1>1, <1>3, <1>4
<1>6. Arrow(t) = i
  BY <1>4, <1>5, ArrowIs
<1>7. t[i].k = "=>" /\ i < Len(t) /\ \A j \in (i + 1)..Len(t) : IsBare(t[j])
  BY <1>4 DEF IsArrow, IsBare
<1> QED
  BY <1>4, <1>5, <1>6, <1>7

(* d is l, an arrow and w.                                                  *)
IsArrowed(l, w, d) ==
  /\ IsList(d) /\ Len(d) = Len(l) + 1 + Len(w) /\ d[Len(l) + 1].k = "=>"
  /\ \A p \in 1..Len(l) : d[p] = l[p]
  /\ \A p \in 1..Len(w) : d[Len(l) + 1 + p] = w[p]

LEMMA ReadsArrow ==
  ASSUME NEW l, IsList(l), ~Trails(l), NEW w, IsPhrase(w), NEW d, IsArrowed(l, w, d)
  PROVE  d # <<>> /\ Prose(d) = l /\ Produced(d) = <<w>>
<1> DEFINE k == Len(l)
           z == Len(w)
<1>2. IsList(w) /\ z \in Nat \ {0} /\ \A i \in 1..Len(w) : IsBare(w[i])
  BY EmptyList, ListFacts DEF IsPhrase
<1>7. /\ k = Len(l) /\ z = Len(w) /\ k \in Nat /\ z \in Nat \ {0} /\ IsList(d) /\ Len(d) = k + 1 + z
      /\ d[k + 1].k = "=>" /\ (\A p \in 1..k : d[p] = l[p]) /\ \A p \in 1..z : d[k + 1 + p] = w[p]
  BY <1>2, ListFacts DEF IsArrowed
<1> HIDE DEF k, z
<1> DEFINE b == k + 1
<1>8. b \in 1..Len(d) /\ b < Len(d) /\ d[b].k = "=>"
  BY <1>7
<1>9. ASSUME NEW j \in (b + 1)..Len(d) PROVE IsBare(d[j])
  <2> DEFINE p == j - b
  <2>1. p \in 1..z /\ k + 1 + p = j
    BY <1>7, <1>9
  <2> HIDE DEF p
  <2> QED
    BY <1>2, <1>7, <2>1
<1>10. IsArrow(d, b)
  <2> HIDE DEF b
  <2> QED
    BY <1>8, <1>9 DEF IsArrow, IsBare
<1>11. ASSUME NEW p \in 1..(b - 1), IsArrow(d, p) PROVE FALSE
  <2>0. p \in 1..k
    BY <1>7
  <2>1. p \in 1..k /\ d[p].k = "=>" /\ d[p] = l[p]
    BY <1>7, <1>11, <2>0 DEF IsArrow
  <2>2. ASSUME NEW j \in (p + 1)..k PROVE IsBare(l[j])
    <3>1. j \in 1..k /\ j \in (p + 1)..Len(d)
      BY <1>7, <2>1, <2>2
    <3>2. IsBare(d[j])
      BY <1>11, <3>1 DEF IsArrow, IsBare
    <3> QED
      BY <1>7, <3>1, <3>2
  <2>3. Trails(l)
    BY <1>7, <2>1, <2>2 DEF Trails
  <2> QED
    BY <2>3
<1>12. Produces(d) /\ Arrow(d) = b
  <2> HIDE DEF b
  <2> QED
    BY <1>7, <1>8, <1>10, <1>11, ArrowIs
<1> DEFINE s == SubSeq(d, 1, k)
           v == SubSeq(d, b + 1, Len(d))
<1>13. Prose(d) = s
  <2>1. b - 1 = k
    BY <1>7
  <2> HIDE DEF b
  <2> QED
    BY <1>12, <2>1, Zenon DEF Prose
<1>14. Produced(d) = <<v>>
  <2> HIDE DEF b
  <2> QED
    BY <1>12, Zenon DEF Produced
<1>15. s = l
  <2>1. k =< Len(d)
    BY <1>7
  <2>2. IsList(s) /\ Len(s) = k /\ \A p \in 1..k : s[p] = d[p]
    BY <1>7, <2>1, FrontOf, Zenon
  <2> HIDE DEF s, b
  <2>3. Len(s) = Len(l) /\ \A p \in 1..Len(s) : s[p] = l[p]
    BY <1>7, <2>2
  <2> QED
    BY <1>2, <2>2, <2>3, EqualLists
<1>16. v = w
  <2>1. b \in Nat /\ b =< Len(d) /\ Len(d) - b = z /\ \A p \in 1..z : k + 1 + p = b + p
    BY <1>7
  <2> HIDE DEF b
  <2>2. IsList(v) /\ Len(v) = Len(d) - b /\ \A p \in 1..(Len(d) - b) : v[p] = d[b + p]
    BY <1>7, <2>1, BackOf, Zenon
  <2> HIDE DEF v
  <2>3. Len(v) = Len(w) /\ \A p \in 1..Len(v) : v[p] = w[p]
    BY <1>7, <2>1, <2>2
  <2> QED
    BY <1>2, <2>2, <2>3, EqualLists
<1>17. d # <<>>
  <2>1. IsList(d) /\ Len(d) # 0
    BY <1>7
  <2> QED
    BY <2>1, EmptyList, Zenon
<1> HIDE DEF s, v, b
<1> QED
  BY <1>13, <1>14, <1>15, <1>16, <1>17, Zenon

(* What is printed for a step says again what it produces.                  *)
SaysStep(d, a, T) == IsList(d) /\ d # <<>> /\ Prose(d) = Final(T).text /\ Produced(d) = a.name

LEMMA TextOfStep ==
  ASSUME NEW as, NEW n, NEW a, NEW T, IsStep(as, n, a, T), NEW d, d = PrintStep(as, a)
  PROVE  SaysStep(d, a, T)
<1> DEFINE l == Final(T).text
<1>1. Trace(as, n, T) /\ IsProduced(a.name) /\ FitsName(l, a.name)
  BY DEF IsStep
<1>2. IsList(l)
  <2>1. 1 \in 1..Len(T)
    BY <1>1 DEF Trace
  <2> QED
    BY <1>1, <2>1, TextsOfTrace
<1>3. d = l \o StepTail(a.name)
  BY Zenon DEF IsStep
<1> HIDE DEF l
<1>4. CASE a.name = <<>>
  <2>1. StepTail(a.name) = <<>>
    BY <1>4 DEF StepTail
  <2>2. l \o <<>> = l
    BY <1>2, JoinedOne
  <2>3. d = l
    BY <1>3, <2>1, <2>2, Zenon
  <2>4. l # <<>> /\ ~Produces(l)
    BY <1>1, <1>4 DEF FitsName
  <2>5. Prose(l) = l /\ Produced(l) = <<>>
    BY <2>4, Zenon DEF Prose, Produced
  <2> QED
    BY <1>2, <1>4, <2>3, <2>4, <2>5, Zenon DEF l, SaysStep
<1>5. ASSUME a.name # <<>> PROVE SaysStep(d, a, T)
  <2>1. PICK w : a.name = <<w>> /\ IsPhrase(w)
    BY <1>1, <1>5 DEF IsProduced
  <2> DEFINE e == Mark("=>")
             tail == <<e>> \o w
  <2>2. IsList(w) /\ Len(w) \in Nat \ {0} /\ \A i \in 1..Len(w) : IsBare(w[i])
    BY <2>1, EmptyList, ListFacts DEF IsPhrase
  <2>3. d = l \o tail
    <3>1. a.name[1] = w
      BY <2>1
    <3> QED
      BY <1>3, <1>5, <3>1, Zenon DEF StepTail
  <2>4. e.k = "=>"
    BY DEF Mark
  <2> HIDE DEF e
  <2>5. IsList(tail) /\ Len(tail) = Len(w) + 1 /\ tail[1] = e /\ \A p \in 1..Len(w) : tail[1 + p] = w[p]
    <3> DEFINE o == <<e>>
    <3>1. IsList(o) /\ Len(o) = 1 /\ o[1] = e
      BY OneIsList
    <3> HIDE DEF o
    <3>2. IsJoined(o, w, o \o w)
      BY <2>2, <3>1, JoinedTo
    <3>3. 1 \in 1..Len(o)
      BY <3>1
    <3>4. tail = o \o w
      BY DEF o
    <3> HIDE DEF tail
    <3> QED
      BY <2>2, <3>1, <3>2, <3>3, <3>4 DEF IsJoined
  <2> HIDE DEF tail
  <2>6. IsJoined(l, tail, d)
    <3>1. IsJoined(l, tail, l \o tail)
      BY <1>2, <2>5, JoinedTo
    <3> QED
      BY <2>3, <3>1, Zenon
  <2> DEFINE k == Len(l)
             z == Len(w)
  <2>7. /\ k = Len(l) /\ z = Len(w)
        /\ IsList(d) /\ k \in Nat /\ z \in Nat \ {0} /\ Len(d) = k + 1 + z /\ d[k + 1] = e
        /\ \A p \in 1..k : d[p] = l[p]
        /\ \A p \in 1..z : d[k + 1 + p] = w[p]
    <3>0. k = Len(l) /\ z = Len(w)
      OBVIOUS
    <3>1. IsList(d) /\ k \in Nat /\ z \in Nat \ {0} /\ Len(d) = k + 1 + z
      BY <2>2, <2>5, <2>6 DEF IsJoined
    <3>2. \A p \in 1..k : d[p] = l[p]
      BY <2>6 DEF IsJoined
    <3>3. \A p \in 1..(z + 1) : d[k + p] = tail[p]
      BY <2>5, <2>6 DEF IsJoined
    <3> HIDE DEF k, z
    <3>4. d[k + 1] = e
      <4>1. 1 \in 1..(z + 1)
        BY <3>1
      <4> QED
        BY <2>5, <3>3, <4>1
    <3>5. ASSUME NEW p \in 1..z PROVE d[k + 1 + p] = w[p]
      <4>1. 1 + p \in 1..(z + 1) /\ k + (1 + p) = k + 1 + p
        BY <3>1
      <4>2. d[k + (1 + p)] = tail[1 + p]
        BY <3>3, <4>1
      <4> QED
        BY <2>5, <3>0, <4>1, <4>2
    <3> QED
      BY <3>0, <3>1, <3>2, <3>4, <3>5
  <2> HIDE DEF k, z
  <2>8. d[k + 1].k = "=>"
    BY <2>4, <2>7
  <2>9. d # <<>> /\ Prose(d) = l /\ Produced(d) = <<w>>
    <3>1. ~Trails(l)
      BY <1>1, <1>5 DEF FitsName
    <3>2. IsArrowed(l, w, d)
      BY <2>7, <2>8 DEF IsArrowed, k, z
    <3> QED
      BY <1>2, <2>1, <3>1, <3>2, ReadsArrow, Zenon
  <2> QED
    BY <2>1, <2>7, <2>9, Zenon DEF l, SaysStep
<1> QED
  BY <1>4, <1>5

-----------------------------------------------------------------------------
(* What is known of the names, and whether a token is opened.              *)

LEMMA FollowsStarts ==
  ASSUME NEW as, NEW n, NEW t
  PROVE  \E T : Follows(as, n, t, 0, T, NotScanned)
<1> DEFINE e == [scan |-> NotScanned, text |-> <<>>]
           T == <<e>>
<1>1. e.scan = NotScanned /\ e.text = <<>>
  OBVIOUS
<1> HIDE DEF e
<1>2. Trace(as, n, T) /\ Final(T) = e
  BY <1>1, TraceStarts
<1>3. Len(T) = 1
  BY OneIsList
<1> HIDE DEF T
<1>4. AllOpen(as, n, t, 0, T)
  BY <1>3 DEF AllOpen
<1>5. Ends(t, 0, <<>>)
  BY DEF Ends
<1>6. Sound(as, NotScanned) /\ Printed(as, NotScanned) = <<>>
  BY NothingPrinted
<1>7. Follows(as, n, t, 0, T, NotScanned)
  BY <1>1, <1>2, <1>4, <1>5, <1>6, Zenon DEF Follows
<1> QED
  BY <1>7, Zenon

LEMMA NamesStay ==
  ASSUME NEW known, NEW as, NEW n \in Nat, NamesAre(known, as, n), NEW bs, \A j \in 1..n : bs[j] = as[j]
  PROVE  NamesAre(known, bs, n)
<1>1. \A w \in DOMAIN known : NamedLast(bs, n, w, known[w])
  BY NamedStays DEF NamesAre
<1>2. \A w : Unknown(as, n, w) => Unknown(bs, n, w)
  BY DEF Unknown
<1> QED
  BY <1>1, <1>2, Zenon DEF NamesAre

(* name_to_state after a step.                                             *)
NextNames(known, name, here) ==
  [w \in DOMAIN known \cup {name[i] : i \in DOMAIN name} |->
     IF name # <<>> /\ w = name[1] THEN here ELSE known[w]]

LEMMA NamesNext ==
  ASSUME NEW known, NEW as, NEW n \in Nat, NamesAre(known, as, n), NEW m, m = n + 1,
         NEW name, name = <<>> \/ (\E x : name = <<x>>), as[m].name = name
  PROVE  NamesAre(NextNames(known, name, m), as, m)
<1> DEFINE next == NextNames(known, name, m)
<1>1. CASE name = <<>>
  <2>1. {name[i] : i \in DOMAIN name} = {}
    BY <1>1
  <2>2. DOMAIN next = DOMAIN known /\ \A w \in DOMAIN known : next[w] = known[w]
    BY <1>1, <2>1 DEF NextNames
  <2> HIDE DEF next
  <2>3. \A w : as[m].name # <<w>>
    BY <1>1
  <2>4. ASSUME NEW w \in DOMAIN known PROVE NamedLast(as, m, w, next[w])
    <3>1. NamedLast(as, n, w, known[w])
      BY DEF NamesAre
    <3> DEFINE s == known[w]
    <3> HIDE DEF s
    <3>2. s \in 1..n /\ as[s].name = <<w>> /\ \A j \in (s + 1)..n : as[j].name # <<w>>
      BY <3>1 DEF NamedLast, s
    <3>3. s \in 1..m /\ \A j \in (s + 1)..m : j = m \/ j \in (s + 1)..n
      BY <3>2
    <3>4. NamedLast(as, m, w, s)
      BY <2>3, <3>2, <3>3 DEF NamedLast
    <3> QED
      BY <2>2, <3>4 DEF s
  <2>5. ASSUME NEW w, w \notin DOMAIN known PROVE Unknown(as, m, w)
    <3>1. Unknown(as, n, w)
      BY <2>5 DEF NamesAre
    <3>2. \A j \in 1..m : j = m \/ j \in 1..n
      OBVIOUS
    <3> QED
      BY <2>3, <3>1, <3>2 DEF Unknown
  <2>6. NamesAre(next, as, m)
    BY <2>2, <2>4, <2>5, Zenon DEF NamesAre
  <2> QED
    BY <2>6 DEF next
<1>2. CASE \E x : name = <<x>>
  <2>1. PICK x : name = <<x>>
    BY <1>2
  <2>2. name # <<>> /\ name[1] = x /\ {name[i] : i \in DOMAIN name} = {x}
    BY <2>1
  <2>3. DOMAIN next = DOMAIN known \cup {x}
    BY <2>2 DEF NextNames
  <2>4. next[x] = m /\ \A w \in DOMAIN known : w # x => next[w] = known[w]
    BY <2>2 DEF NextNames
  <2> HIDE DEF next
  <2>5. ASSUME NEW w, w # x PROVE as[m].name # <<w>>
    BY <2>1, <2>5
  <2>6. ASSUME NEW w \in DOMAIN next PROVE NamedLast(as, m, w, next[w])
    <3>1. CASE w = x
      <4>1. m \in 1..m /\ (m + 1)..m = {}
        OBVIOUS
      <4>2. NamedLast(as, m, x, m)
        BY <2>1, <4>1 DEF NamedLast
      <4> QED
        BY <2>4, <3>1, <4>2
    <3>2. CASE w # x
      <4>1. w \in DOMAIN known
        BY <2>3, <3>2
      <4>2. NamedLast(as, n, w, known[w])
        BY <4>1 DEF NamesAre
      <4> DEFINE s == known[w]
      <4> HIDE DEF s
      <4>3. s \in 1..n /\ as[s].name = <<w>> /\ \A j \in (s + 1)..n : as[j].name # <<w>>
        BY <4>2 DEF NamedLast, s
      <4>4. s \in 1..m /\ \A j \in (s + 1)..m : j = m \/ j \in (s + 1)..n
        BY <4>3
      <4>5. as[m].name # <<w>>
        BY <2>5, <3>2
      <4>6. NamedLast(as, m, w, s)
        BY <4>3, <4>4, <4>5 DEF NamedLast
      <4> QED
        BY <2>4, <3>2, <4>1, <4>6 DEF s
    <3> QED
      BY <3>1, <3>2
  <2>7. ASSUME NEW w, w \notin DOMAIN next PROVE Unknown(as, m, w)
    <3>1. w \notin DOMAIN known /\ w # x
      BY <2>3, <2>7
    <3>2. Unknown(as, n, w)
      BY <3>1 DEF NamesAre
    <3>3. as[m].name # <<w>>
      BY <2>5, <3>1
    <3>4. \A j \in 1..m : j = m \/ j \in 1..n
      OBVIOUS
    <3> QED
      BY <3>2, <3>3, <3>4 DEF Unknown
  <2>8. NamesAre(next, as, m)
    BY <2>6, <2>7, Zenon DEF NamesAre
  <2> QED
    BY <2>8 DEF next
<1> QED
  BY <1>1, <1>2

(* A lexeme opens a token exactly when it is not plain.                     *)
LEMMA PlainIsNoToken ==
  ASSUME NEW as, NEW n, NamesAre(names, as, n), IsList(Text), at \in Nat \ {0}, at =< Len(Text),
         Plain(as, n, Text, at)
  PROVE  ~IsToken
<1> SUFFICES ASSUME IsToken PROVE FALSE
  OBVIOUS
<1>1. Len(Text) \in Nat
  BY ListFacts
<1>2. Text[at].k \in Sigils /\ Brace(at) # 0 /\ (Text[at].k = "@&" => BodyAt.words \in DOMAIN names)
  BY DEF IsToken, Sigils, Sigil
<1>3. Brace(at) \in (at + 1)..Len(Text) /\ Text[Brace(at)].k = "group"
  BY <1>1, <1>2, BraceFound
<1>4. ~NoneBehind(Text, at)
  BY <1>3 DEF NoneBehind
<1>5. Text[at].k = "@&" /\ NoState(as, n, Text, at)
  BY <1>2, <1>4, Zenon DEF Plain
<1> DEFINE g == at + 1
<1>6. g \in (at + 1)..Len(Text) /\ Text[g].k = "group" /\ Unknown(as, n, Text[g].body.words)
  BY <1>1, <1>5 DEF NoState
<1>7. (at + 1)..(g - 1) = {}
  OBVIOUS
<1>8. Brace(at) = g
  BY <1>1, <1>6, <1>7, BraceIs
<1> HIDE DEF g
<1>9. Text[g].body.words \in DOMAIN names
  BY <1>2, <1>5, <1>8, Zenon DEF BodyAt
<1>10. NamedLast(as, n, Text[g].body.words, names[Text[g].body.words])
  BY <1>9 DEF NamesAre
<1> QED
  BY <1>6, <1>10 DEF NamedLast, Unknown

LEMMA NoTokenIsPlain ==
  ASSUME NEW as, NEW n, NamesAre(names, as, n), IsList(Text), at \in Nat \ {0}, at =< Len(Text),
         Text[at].k = "@&" => at < Len(Text) /\ Text[at + 1].k = "group", ~IsToken
  PROVE  Plain(as, n, Text, at)
<1> SUFFICES ASSUME Text[at].k \in Sigils, ~NoneBehind(Text, at)
             PROVE  Text[at].k = "@&" /\ NoState(as, n, Text, at)
  BY DEF Plain
<1>1. Len(Text) \in Nat
  BY ListFacts
<1>2. Brace(at) # 0
  BY <1>1, BraceFound DEF NoneBehind
<1>3. Text[at].k = "@&" /\ BodyAt.words \notin DOMAIN names
  BY <1>2 DEF IsToken, Sigils, Sigil
<1> DEFINE g == at + 1
<1>4. g \in (at + 1)..Len(Text) /\ Text[g].k = "group"
  BY <1>1, <1>3
<1>5. (at + 1)..(g - 1) = {}
  OBVIOUS
<1>6. Brace(at) = g
  BY <1>1, <1>4, <1>5, BraceIs
<1>7. at + 1 \in 1..Len(Text)
  BY <1>4
<1> HIDE DEF g
<1>8. Text[g].body.words \notin DOMAIN names
  BY <1>3, <1>6, Zenon DEF BodyAt
<1>9. Unknown(as, n, Text[g].body.words)
  BY <1>8, Zenon DEF NamesAre
<1> QED
  BY <1>3, <1>4, <1>7, <1>9 DEF NoState, g

-----------------------------------------------------------------------------
(* The first round: every step that is read has a trace.                   *)

WrittenStep(t) ==
  IsList(t) /\ t # <<>> /\ \A j \in DOMAIN t : t[j].k = "@&" => j < Len(t) /\ t[j + 1].k = "group"

LEMMA ProseOfStep ==
  ASSUME NEW t, WrittenStep(t)
  PROVE  /\ IsList(Prose(t))
         /\ \A j \in 1..Len(Prose(t)) : Prose(t)[j].k = "@&" => j < Len(Prose(t)) /\ Prose(t)[j + 1].k = "group"
<1>1. Len(t) \in Nat /\ DOMAIN t = 1..Len(t) /\ IsList(t)
  BY ListFacts DEF WrittenStep
<1>2. CASE ~Produces(t)
  <2>1. Prose(t) = t
    BY <1>2 DEF Prose
  <2> QED
    BY <1>1, <2>1 DEF WrittenStep
<1>3. CASE Produces(t)
  <2> DEFINE k == Arrow(t) - 1
             s == SubSeq(t, 1, k)
  <2>1. Arrow(t) \in 1..Len(t) /\ t[Arrow(t)].k = "=>"
    BY <1>1, <1>3, ArrowFound
  <2>2. Prose(t) = s
    BY <1>3, Zenon DEF Prose
  <2>3. k \in Nat /\ k + 1 = Arrow(t) /\ k < Len(t)
    BY <1>1, <2>1
  <2>4. t[k + 1].k = "=>"
    BY <2>1, <2>3
  <2> HIDE DEF k
  <2>5. IsList(s) /\ Len(s) = k /\ \A p \in 1..k : s[p] = t[p]
    <3>1. k =< Len(t)
      BY <1>1, <2>3
    <3> QED
      BY <1>1, <2>3, <3>1, FrontOf
  <2> HIDE DEF s
  <2>6. ASSUME NEW j \in 1..k, s[j].k = "@&" PROVE j < k /\ s[j + 1].k = "group"
    <3>1. j \in DOMAIN t /\ t[j].k = "@&"
      BY <1>1, <2>3, <2>5, <2>6
    <3>2. t[j + 1].k = "group"
      BY <3>1 DEF WrittenStep
    <3>3. j # k
      BY <2>4, <3>2
    <3>4. j < k /\ j + 1 \in 1..k
      BY <2>3, <3>3
    <3> QED
      BY <2>5, <3>2, <3>4
  <2> QED
    BY <2>2, <2>5, <2>6
<1> QED
  BY <1>2, <1>3

LEMMA StepFitsName ==
  ASSUME NEW t, WrittenStep(t)
  PROVE  IsProduced(Produced(t)) /\ FitsName(Prose(t), Produced(t))
<1> DEFINE k == Arrow(t)
<1>1. Len(t) \in Nat /\ IsList(t) /\ t # <<>>
  BY ListFacts DEF WrittenStep
<1>2. ASSUME ~Produces(t) PROVE IsProduced(Produced(t)) /\ FitsName(Prose(t), Produced(t))
  <2>1. Prose(t) = t /\ Produced(t) = <<>>
    BY <1>2, Zenon DEF Prose, Produced
  <2> QED
    BY <1>1, <1>2, <2>1, Zenon DEF IsProduced, FitsName
<1>3. ASSUME Produces(t) PROVE IsProduced(Produced(t)) /\ FitsName(Prose(t), Produced(t))
  <2>1. /\ k \in 1..Len(t) /\ t[k].k = "=>" /\ k < Len(t)
        /\ \A j \in (k + 1)..Len(t) : IsBare(t[j])
        /\ \A j \in 1..(k - 1) : ~IsArrow(t, j)
    BY <1>1, <1>3, ArrowFound
  <2> DEFINE w == SubSeq(t, k + 1, Len(t))
             s == SubSeq(t, 1, k - 1)
  <2>2. Produced(t) = <<w>> /\ Prose(t) = s
    BY <1>3, Zenon DEF Prose, Produced
  <2> HIDE DEF k
  <2>3. IsPhrase(w)
    <3>1. k \in Nat /\ k =< Len(t) /\ Len(t) - k > 0 /\ Len(t) - k \in Nat
      BY <1>1, <2>1
    <3>2. IsList(w) /\ Len(w) = Len(t) - k /\ \A p \in 1..(Len(t) - k) : w[p] = t[k + p]
      BY <1>1, <3>1, BackOf
    <3>3. \A p \in 1..(Len(t) - k) : k + p \in (k + 1)..Len(t)
      BY <1>1, <3>1
    <3> HIDE DEF w
    <3>4. \A p \in 1..Len(w) : IsBare(w[p])
      BY <2>1, <3>2, <3>3
    <3>5. w # <<>>
      BY <3>1, <3>2, EmptyList
    <3> QED
      BY <3>2, <3>4, <3>5 DEF IsPhrase
  <2>4. IsList(s) /\ Len(s) = k - 1 /\ \A p \in 1..(k - 1) : s[p] = t[p]
    <3> DEFINE m == k - 1
    <3>1. m \in Nat /\ m =< Len(t)
      BY <1>1, <2>1
    <3>2. s = SubSeq(t, 1, m)
      OBVIOUS
    <3> HIDE DEF m, s
    <3> QED
      BY <1>1, <3>1, <3>2, FrontOf DEF m
  <2> HIDE DEF w, s
  <2>5. ASSUME Trails(s) PROVE FALSE
    <3>1. PICK p \in 1..Len(s) : s[p].k = "=>" /\ \A j \in (p + 1)..Len(s) : IsBare(s[j])
      BY <2>5 DEF Trails
    <3>2. p \in 1..(k - 1) /\ t[p].k = "=>" /\ p < Len(t)
      BY <2>1, <2>4, <3>1
    <3>3. ASSUME NEW j \in (p + 1)..Len(t) PROVE IsBare(t[j])
      <4>1. CASE j < k
        <5>1. j \in 1..(k - 1) /\ j \in (p + 1)..Len(s)
          BY <2>1, <2>4, <3>2, <3>3, <4>1
        <5> QED
          BY <2>4, <3>1, <5>1
      <4>2. CASE j = k
        BY <2>1, <4>2 DEF IsBare
      <4>3. CASE j > k
        <5>1. j \in (k + 1)..Len(t)
          BY <2>1, <3>3, <4>3
        <5> QED
          BY <2>1, <5>1
      <4> QED
        BY <2>1, <3>3, <4>1, <4>2, <4>3
    <3>4. IsArrow(t, p)
      BY <3>2, <3>3 DEF IsArrow, IsBare
    <3> QED
      BY <2>1, <3>2, <3>4
  <2>6. <<w>> # <<>>
    OBVIOUS
  <2> QED
    BY <2>2, <2>3, <2>5, <2>6, Zenon DEF IsProduced, FitsName
<1> QED
  BY <1>2, <1>3

AllSteps(as) == IsList(as) /\ \A i \in 1..Len(as) : \E T : IsStep(as, i - 1, as[i], T)

(* The parts of the invariant while a written document is read: of the      *)
(* document, of the steps that are read, of the one that is being read.      *)
DocumentIsWritten == IsList(document) /\ \A i \in 1..Len(document) : WrittenStep(document[i])
StepsAreRead == AllSteps(actions) /\ NamesAre(names, actions, Len(actions)) /\ Len(actions) =< Len(document)
ScanFollows ==
  Len(actions) < Len(document) =>
    at - 1 =< Len(Text) /\ \E T : Follows(actions, Len(actions), Text, at - 1, T, scan)
ReadOne == DocumentIsWritten /\ StepsAreRead /\ at \in Nat \ {0} /\ ScanFollows

LEMMA TextIs ==
  ASSUME DocumentIsWritten, StepsAreRead, Len(actions) < Len(document)
  PROVE  /\ Len(actions) \in Nat /\ WrittenStep(document[Len(actions) + 1]) /\ IsList(Text)
         /\ \A j \in 1..Len(Text) : Text[j].k = "@&" => j < Len(Text) /\ Text[j + 1].k = "group"
<1>1. Len(actions) \in Nat /\ Len(document) \in Nat
  BY ListFacts DEF DocumentIsWritten, StepsAreRead, AllSteps
<1>2. Len(actions) + 1 \in 1..Len(document)
  BY <1>1
<1> DEFINE t == document[Len(actions) + 1]
<1>3. WrittenStep(t)
  BY <1>2 DEF DocumentIsWritten
<1>4. Text = Prose(t)
  BY DEF Text
<1> HIDE DEF t
<1>5. /\ IsList(Prose(t))
      /\ \A j \in 1..Len(Prose(t)) : Prose(t)[j].k = "@&" => j < Len(Prose(t)) /\ Prose(t)[j + 1].k = "group"
  BY <1>3, ProseOfStep
<1> QED
  BY <1>1, <1>3, <1>4, <1>5 DEF t

LEMMA EndedIs == Ended = EndedOf(scan)
  BY Zenon DEF Ended, EndedOf, Flushed

LEMMA ReadOneToken ==
  ASSUME ReadOne, phase = "read", ReadToken
  PROVE  /\ phase' = "read" => ReadOne'
         /\ phase' \in {"read", "raised"} /\ UNCHANGED <<front, round>>
<1> DEFINE n == Len(actions)
           g == Brace(at)
           f == Text[at]
           s == names[BodyAt.words]
           i == at - 1
<1>1. DocumentIsWritten /\ StepsAreRead /\ at \in Nat \ {0} /\ ScanFollows
  BY DEF ReadOne
<1>2. Reading
  BY DEF ReadToken, ReadState, ReadIngredient, ReadCookware, ReadTimer, ReadTemperature, Token
<1>3. n < Len(document)
  BY <1>2 DEF Reading
<1>4. PICK T : Follows(actions, n, Text, i, T, scan)
  BY <1>1, <1>3 DEF ScanFollows
<1>5. IsScan(scan)
  BY <1>4 DEF Follows, Sound, Tidy
<1>6. /\ at =< Len(Text) /\ IsToken
      /\ UNCHANGED <<front, document, round, meta, actions, names, source>>
      /\ \/ /\ Accepts(f, BodyAt)
            /\ \E c : Takes(Ended, s, f, Between(at), BodyAt, c, scan')
            /\ at' = g + 1 /\ phase' = phase
         \/ ~Accepts(f, BodyAt) /\ phase' = "raised"
  BY <1>2, <1>5, TokenIsTaken
<1>7. n \in Nat /\ IsList(Text)
  BY <1>1, <1>3, TextIs
<1>8. Len(Text) \in Nat
  BY <1>7, ListFacts
<1>9. f.k \in Sigils /\ g # 0 /\ (f.k = "@&" => BodyAt.words \in DOMAIN names)
  BY <1>6 DEF IsToken, Sigils, Sigil
<1>10. IsName(Between(at)) /\ g \in (at + 1)..Len(Text) /\ Text[g].k = "group"
  BY <1>1, <1>7, <1>9, BetweenIsName
<1>11. f.k = "@&" => NamedLast(actions, n, BodyAt.words, s)
  BY <1>1, <1>9 DEF StepsAreRead, NamesAre
<1>12. ASSUME Accepts(f, BodyAt), NEW c, Takes(Ended, s, f, Between(at), BodyAt, c, scan'), at' = g + 1
       PROVE  ReadOne'
  <2> DEFINE b == BodyAt
             name == Between(at)
             t == Text
             w == scan'
  <2>1. Takes(EndedOf(scan), s, f, name, b, c, w)
    BY <1>12, EndedIs, Zenon
  <2>2. i \in Nat /\ at = i + 1 /\ at \in 1..Len(t)
    BY <1>1, <1>6, <1>8
  <2>3. Accepts(f, b) /\ f = t[at]
    BY <1>12
  <2> HIDE DEF i, b, name, t, w, s, f, g, n
  <2>4. \E R : Follows(actions, n, t, g, R, w)
    BY <1>4, <1>7, <1>9, <1>10, <1>11, <2>1, <2>2, <2>3, FollowsToken DEF b, name, t
  <2>5. at' \in Nat \ {0} /\ at' - 1 = g /\ g =< Len(t)
    BY <1>8, <1>10, <1>12, <2>2 DEF t
  <2>6. Text' = t /\ actions' = actions /\ document' = document /\ names' = names
    BY <1>6 DEF Text, t
  <2>7. DocumentIsWritten' /\ StepsAreRead'
    BY <1>1, <2>6 DEF DocumentIsWritten, StepsAreRead
  <2>8. ScanFollows'
    BY <2>4, <2>5, <2>6 DEF ScanFollows, n, w
  <2> QED
    BY <2>5, <2>7, <2>8 DEF ReadOne
<1> QED
  BY <1>6, <1>12

LEMMA LiteralIs == ASSUME IsScan(scan), ReadLiteral PROVE scan' = WithLiteral(scan, Text[at])
<1> DEFINE lit == Append(scan.literal, Text[at])
<1>1. scan' = [scan EXCEPT !.literal = lit]
  BY DEF ReadLiteral
<1> HIDE DEF lit
<1>2. scan' = Scan(lit, scan.chunks, scan.ingredients, scan.cookware, scan.timers, scan.temperatures, scan.uses,
                   scan.counter)
  BY <1>1, ScanExcept
<1> QED
  BY <1>2, Zenon DEF WithLiteral, lit

LEMMA ReadOneLiteral ==
  ASSUME ReadOne, ReadLiteral
  PROVE  ReadOne' /\ phase' = phase /\ UNCHANGED <<front, round>>
<1> DEFINE n == Len(actions)
           i == at - 1
           t == Text
<1>1. DocumentIsWritten /\ StepsAreRead /\ at \in Nat \ {0} /\ ScanFollows
  BY DEF ReadOne
<1>2. Reading /\ at =< Len(Text) /\ ~IsToken /\ at' = at + 1
  BY DEF ReadLiteral, IsLiteral
<1>3. UNCHANGED <<front, document, phase, round, meta, actions, names, source>>
  BY DEF ReadLiteral
<1>4. n < Len(document)
  BY <1>2 DEF Reading
<1>5. PICK T : Follows(actions, n, t, i, T, scan)
  BY <1>1, <1>4 DEF ScanFollows
<1>6. IsScan(scan)
  BY <1>5 DEF Follows, Sound, Tidy
<1>7. scan' = WithLiteral(scan, t[at])
  BY <1>6, LiteralIs
<1>8. n \in Nat /\ IsList(t) /\ \A j \in 1..Len(t) : t[j].k = "@&" => j < Len(t) /\ t[j + 1].k = "group"
  BY <1>1, <1>4, TextIs
<1>9. Len(t) \in Nat
  BY <1>8, ListFacts
<1>10. i \in Nat /\ at = i + 1 /\ at \in 1..Len(t) /\ at' - 1 = at /\ at' \in Nat \ {0}
  BY <1>1, <1>2, <1>9
<1>11. NamesAre(names, actions, n)
  BY <1>1 DEF StepsAreRead
<1>12. Plain(actions, n, t, at)
  <2>1. Text[at].k = "@&" => at < Len(Text) /\ Text[at + 1].k = "group"
    BY <1>8, <1>10
  <2> QED
    BY <1>1, <1>2, <1>8, <1>11, <2>1, NoTokenIsPlain
<1>13. Text' = t /\ actions' = actions /\ document' = document /\ names' = names
  BY <1>3 DEF Text
<1> DEFINE w == scan'
<1> HIDE DEF i, t, w, n
<1>14. \E R : Follows(actions, n, t, at, R, w)
  BY <1>5, <1>7, <1>8, <1>10, <1>12, FollowsLiteral DEF w
<1>15. DocumentIsWritten' /\ StepsAreRead'
  BY <1>1, <1>13 DEF DocumentIsWritten, StepsAreRead
<1>16. ScanFollows'
  <2>1. at =< Len(t)
    BY <1>9, <1>10
  <2> QED
    BY <1>10, <1>13, <1>14, <2>1 DEF ScanFollows, n, w
<1> QED
  BY <1>3, <1>10, <1>15, <1>16 DEF ReadOne

(* Where a step ends the next one begins, whatever was read before it.       *)
LEMMA NextFollows ==
  ASSUME DocumentIsWritten', Len(actions)' \in Nat, Len(document)' \in Nat, at' = 1, scan' = NotScanned
  PROVE  ScanFollows'
<1> SUFFICES ASSUME Len(actions') < Len(document')
             PROVE  at' - 1 =< Len(Text') /\ \E T : Follows(actions', Len(actions'), Text', at' - 1, T, scan')
  BY DEF ScanFollows
<1> DEFINE m == Len(actions')
           t == document'[m + 1]
           s == Text'
           as == actions'
<1>1. m + 1 \in 1..Len(document')
  OBVIOUS
<1>2. WrittenStep(t)
  BY <1>1 DEF DocumentIsWritten
<1>3. s = Prose(t)
  BY DEF Text
<1> HIDE DEF t, s, as, m
<1>4. IsList(s)
  BY <1>2, <1>3, ProseOfStep
<1>5. Len(s) \in Nat
  BY <1>4, ListFacts
<1>6. \E T : Follows(as, m, s, 0, T, NotScanned)
  BY FollowsStarts
<1>7. at' - 1 = 0
  OBVIOUS
<1>8. at' - 1 =< Len(s)
  BY <1>5, <1>7
<1>9. \E T : Follows(as, m, s, at' - 1, T, scan')
  BY <1>6, <1>7, Zenon
<1> QED
  BY <1>8, <1>9 DEF s, as, m

(* The end of a step, and what it produces.                                 *)
LEMMA EndStepIs ==
  ASSUME EndStep, NEW m, m = Len(actions) + 1, NEW name, name = Produced(document[m])
  PROVE  /\ Reading /\ at > Len(Text) /\ actions' = Append(actions, ActionOf(scan, name))
         /\ names' = NextNames(names, name, m) /\ scan' = NotScanned /\ at' = 1
         /\ UNCHANGED <<front, document, phase, round, meta, source>>
<1> DEFINE r(c) == [name |-> name, uses |-> scan.uses, ingredients |-> scan.ingredients,
                    cookware |-> scan.cookware, timers |-> scan.timers,
                    temperatures |-> scan.temperatures, chunks |-> c]
           a == ActionOf(scan, name)
<1>1. Reading /\ at > Len(Text) /\ scan' = NotScanned /\ at' = 1
      /\ UNCHANGED <<front, document, phase, round, meta, source>>
  BY DEF EndStep
<1>2. names' = NextNames(names, name, m)
  BY Zenon DEF EndStep, NextNames, Produced
<1>3. EndedOf(scan).chunks = Flushed
  <2>1. Ended.chunks = Flushed
    BY ScanFields DEF Ended
  <2> QED
    BY <2>1, EndedIs, Zenon
<1>4. actions' = Append(actions, r(Flushed))
  BY Zenon DEF EndStep, Produced
<1>5. a = r(EndedOf(scan).chunks)
  BY Zenon DEF ActionOf
<1> HIDE DEF r, a
<1>6. actions' = Append(actions, a)
  BY <1>3, <1>4, <1>5, Zenon
<1> QED
  BY <1>1, <1>2, <1>6 DEF a

LEMMA ReadOneEnd ==
  ASSUME ReadOne, EndStep, CInv'
  PROVE  ReadOne' /\ phase' = phase /\ UNCHANGED <<front, round>>
<1> DEFINE n == Len(actions)
           m == n + 1
           i == at - 1
           t == document[m]
           s == Text
           name == Produced(t)
           a == ActionOf(scan, name)
           as == actions
           bs == actions'
<1>1. DocumentIsWritten /\ StepsAreRead /\ at \in Nat \ {0} /\ ScanFollows
  BY DEF ReadOne
<1>2. Reading /\ at > Len(s) /\ bs = Append(as, a) /\ names' = NextNames(names, name, m)
      /\ scan' = NotScanned /\ at' = 1
      /\ UNCHANGED <<front, document, phase, round, meta, source>>
  <2>1. m = Len(actions) + 1 /\ name = Produced(document[m]) /\ s = Text
    OBVIOUS
  <2> HIDE DEF m, name, s, t, a
  <2>2. /\ Reading /\ at > Len(Text) /\ actions' = Append(actions, ActionOf(scan, name))
        /\ names' = NextNames(names, name, m) /\ scan' = NotScanned /\ at' = 1
        /\ UNCHANGED <<front, document, phase, round, meta, source>>
    BY <2>1, EndStepIs
  <2> QED
    BY <2>1, <2>2, Zenon DEF a
<1>3. n < Len(document)
  BY <1>2 DEF Reading
<1>4. PICK T : Follows(as, n, s, i, T, scan)
  BY <1>1, <1>3 DEF ScanFollows
<1>5. n \in Nat /\ WrittenStep(t) /\ IsList(s) /\ i =< Len(s)
  BY <1>1, <1>3, TextIs DEF ScanFollows
<1>6. i = Len(s)
  <2>1. Len(s) \in Nat
    BY <1>5, ListFacts
  <2> QED
    BY <1>1, <1>2, <1>5, <2>1
<1>7. IsProduced(name) /\ FitsName(s, name)
  <2>1. s = Prose(t)
    BY DEF Text
  <2> HIDE DEF s, t
  <2> QED
    BY <1>5, <2>1, StepFitsName
<1>9. IsList(as) /\ AllSteps(as) /\ NamesAre(names, as, n)
  BY <1>1 DEF StepsAreRead, AllSteps
<1>10. a = ActionOf(scan, name) /\ m = n + 1
  OBVIOUS
<1> HIDE DEF a, name, s, t, i, m
<1>11. IsList(bs) /\ Len(bs) = m /\ bs[m] = a /\ \A j \in 1..n : bs[j] = as[j]
  <2>1. IsList(bs) /\ Len(bs) = Len(as) + 1 /\ Begins(as, bs) /\ bs[Len(as) + 1] = a
    BY <1>2, <1>9, Appended
  <2> QED
    BY <1>10, <2>1 DEF Begins
<1>12. m \in Nat /\ m - 1 = n /\ m \in 1..Len(bs)
  BY <1>5, <1>10, <1>11
<1>13. Placed(a, n)
  <2>1. IsSound(a, n)
    <3>1. AllSound(bs)
      BY DEF CInv
    <3>2. m \in DOMAIN bs
      BY <1>11, <1>12, ListFacts
    <3>3. IsSound(bs[m], m - 1)
      BY <3>1, <3>2, Zenon DEF AllSound
    <3> QED
      BY <1>11, <1>12, <3>3
  <2>2. Sound(as, scan)
    BY <1>4 DEF Follows
  <2> DEFINE u == EndedOf(scan)
  <2>3. KeepsPrint(as, scan, u)
    BY <2>2, EndingKeeps
  <2>4. a.chunks = u.chunks
    BY <1>10, ActionFields
  <2> HIDE DEF u
  <2>5. Sound(as, u)
    BY <2>3, Zenon DEF KeepsPrint
  <2>6. IsList(u.chunks)
    BY <2>5 DEF Sound, Tidy
  <2>7. DOMAIN u.chunks = 1..Len(u.chunks)
    BY <2>6, ListFacts
  <2>8. \A j \in 1..Len(u.chunks) : u.chunks[j].kind \in ChunkKinds
    BY <2>5 DEF Sound, Refers
  <2> QED
    BY <2>1, <2>4, <2>7, <2>8, Zenon DEF Placed
<1>14. IsStep(as, n, a, T)
  <2> HIDE DEF n, as
  <2> QED
    BY <1>4, <1>5, <1>6, <1>7, <1>10, <1>13, StepEnds
<1>15. IsStep(bs, n, a, T)
  <2> HIDE DEF n, as, bs
  <2> QED
    BY <1>5, <1>11, <1>14, StepStays
<1>16. ASSUME NEW j \in 1..Len(bs) PROVE \E R : IsStep(bs, j - 1, bs[j], R)
  <2>1. CASE j = m
    BY <1>11, <1>12, <1>15, <2>1
  <2>2. CASE j # m
    <3>1. j \in 1..n /\ j - 1 \in Nat
      BY <1>5, <1>10, <1>11, <2>2
    <3> DEFINE k == j - 1
    <3>2. PICK R : IsStep(as, k, as[j], R)
      BY <1>9, <3>1 DEF AllSteps
    <3>3. \A x \in 1..k : bs[x] = as[x]
      BY <1>5, <1>11, <3>1
    <3> HIDE DEF k, as, bs, n
    <3>4. IsStep(bs, k, as[j], R)
      BY <3>1, <3>2, <3>3, StepStays DEF k
    <3>5. bs[j] = as[j]
      BY <1>11, <3>1
    <3> QED
      BY <3>4, <3>5, Zenon DEF k
  <2> QED
    BY <2>1, <2>2
<1>17. AllSteps(bs)
  BY <1>11, <1>16 DEF AllSteps
<1>18. NamesAre(names', bs, m)
  <2>1. NamesAre(names, bs, n)
    <3> HIDE DEF n, as, bs
    <3> QED
      BY <1>5, <1>9, <1>11, NamesStay
  <2>2. bs[m].name = name
    BY <1>10, <1>11, ActionFields
  <2> DEFINE known == names
  <2> HIDE DEF n, bs, known
  <2>3. NamesAre(NextNames(known, name, m), bs, m)
    <3>1. name = <<>> \/ \E w : name = <<w>>
      BY <1>7, Zenon DEF IsProduced
    <3> QED
      BY <1>5, <1>10, <2>1, <2>2, <3>1, NamesNext DEF known
  <2> QED
    BY <1>2, <2>3, Zenon DEF known
<1>19. DocumentIsWritten'
  BY <1>1, <1>2 DEF DocumentIsWritten
<1>20. Len(document) \in Nat
  BY <1>1, ListFacts DEF DocumentIsWritten
<1>21. StepsAreRead'
  <2>1. m =< Len(document)
    BY <1>3, <1>5, <1>10, <1>20
  <2>2. document' = document
    BY <1>2
  <2>3. AllSteps(actions') /\ Len(actions') = m
    BY <1>11, <1>17
  <2> HIDE DEF bs
  <2> QED
    BY <1>18, <2>1, <2>2, <2>3 DEF StepsAreRead, bs
<1>22. ScanFollows'
  BY <1>2, <1>11, <1>12, <1>19, <1>20, NextFollows
<1> QED
  BY <1>2, <1>19, <1>21, <1>22 DEF ReadOne

-----------------------------------------------------------------------------
(* The front matter and the whole document.                                *)

MetaIs(m) == m = [k \in FrontKeys |-> m[k]]

LEMMA MetaOfFront == ASSUME NEW f PROVE MetaIs(ReadFront(f))
<1> DEFINE m == ReadFront(f)
<1>1. m = [k \in FrontKeys |-> m[k]]
  BY DEF ReadFront
<1> HIDE DEF m
<1>2. MetaIs(m)
  BY <1>1 DEF MetaIs
<1> QED
  BY <1>2 DEF m

(* A field that is not printed is empty, and empty by default.              *)
LEMMA FrontReadAgain == ASSUME NEW m, MetaIs(m) PROVE ReadFront(PrintFront(m)) = m
<1> DEFINE f == PrintFront(m)
           r == ReadFront(f)
           D == {x \in FrontKeys : m[x] # "" \/ Default(x) # ""}
<1>1. DOMAIN f = D /\ \A k \in D : f[k] = m[k]
  BY DEF PrintFront
<1>2. r = [k \in FrontKeys |-> IF k \in DOMAIN f THEN f[k] ELSE Default(k)]
  BY DEF ReadFront
<1> HIDE DEF f, r
<1>3. ASSUME NEW k \in FrontKeys PROVE (IF k \in DOMAIN f THEN f[k] ELSE Default(k)) = m[k]
  <2>1. CASE k \in D
    <3> HIDE DEF D
    <3> QED
      BY <1>1, <2>1
  <2>2. CASE k \notin D
    <3>1. m[k] = "" /\ Default(k) = ""
      BY <2>2
    <3> HIDE DEF D
    <3> QED
      BY <1>1, <2>2, <3>1
  <2> QED
    BY <2>1, <2>2
<1>4. r = [k \in FrontKeys |-> m[k]]
  BY <1>2, <1>3
<1>5. r = m
  BY <1>4 DEF MetaIs
<1> QED
  BY <1>5 DEF r, f

(* No step is printed as a blank line, and each is a block of its own.      *)
LEMMA BlocksAre ==
  ASSUME NEW s, IsList(s), \A i \in 1..Len(s) : s[i] # <<>>
  PROVE  Blocks(s) = s
<1> DEFINE l == [i \in DOMAIN s |-> IF s[i] = <<>> THEN <<>> ELSE <<s[i]>>]
           n == Len(s)
<1>1. n \in Nat /\ DOMAIN s = 1..n
  BY ListFacts
<1>2. Blocks(s) = Concat(l)
  BY DEF Blocks
<1>3. l = [i \in 1..n |-> <<s[i]>>]
  BY <1>1
<1> DEFINE F(i) == <<s[i]>>
           m == [i \in 1..n |-> F(i)]
<1>4. l = m
  BY <1>3
<1> HIDE DEF l, F
<1>5. Len(m) = n /\ \A i \in 1..n : m[i] = F(i)
  BY <1>1
<1> HIDE DEF m
<1>6. \A i \in 1..n : m[i] = <<s[i]>>
  BY <1>5 DEF F
<1>7. Concat(m) = s
  <2>1. Len(m) = Len(s) /\ \A i \in 1..Len(s) : m[i] = <<s[i]>>
    BY <1>5, <1>6
  <2> QED
    BY <2>1, ConcatOnes
<1> QED
  BY <1>2, <1>4, <1>7, Zenon

PrintsSource(as) ==
  AllSteps(as) /\ as # <<>> /\ IsList(document) /\ Len(document) = Len(as)
  /\ \A i \in 1..Len(as) : document[i] = PrintStep(as, as[i])

LEMMA PrintedSource ==
  ASSUME NEW as, AllSteps(as), as # <<>>,
         document' = Blocks([i \in DOMAIN as |-> PrintStep(as, as[i])])
  PROVE  PrintsSource(as)'
<1> DEFINE n == Len(as)
           F(i) == PrintStep(as, as[i])
           s == [i \in 1..n |-> F(i)]
<1>1. n \in Nat /\ DOMAIN as = 1..n
  BY ListFacts DEF AllSteps
<1>2. document' = Blocks(s)
  BY <1>1
<1>3. \A i \in 1..n : F(i) # <<>>
  <2> TAKE i \in 1..n
  <2> DEFINE d == F(i)
             k == i - 1
             a == as[i]
  <2>1. PICK T : IsStep(as, k, a, T)
    BY DEF AllSteps
  <2>2. d = PrintStep(as, a)
    OBVIOUS
  <2> HIDE DEF d, k, a
  <2>3. d # <<>>
    <3>1. SaysStep(d, a, T)
      BY <2>1, <2>2, TextOfStep
    <3> QED
      BY <3>1 DEF SaysStep
  <2> QED
    BY <2>3 DEF d
<1> HIDE DEF F, n
<1>4. DOMAIN s = 1..n /\ \A i \in 1..n : s[i] = F(i)
  OBVIOUS
<1>5. s = [i \in 1..n |-> s[i]]
  BY <1>4
<1> HIDE DEF s
<1>6. IsList(s) /\ Len(s) = n
  BY <1>1, <1>5, IsAList
<1>7. \A i \in 1..Len(s) : s[i] # <<>>
  BY <1>3, <1>4, <1>6
<1>8. document' = s
  BY <1>2, <1>6, <1>7, BlocksAre
<1>9. \A i \in 1..n : document'[i] = PrintStep(as, as[i])
  BY <1>4, <1>8 DEF F
<1> QED
  BY <1>6, <1>8, <1>9 DEF PrintsSource, n

-----------------------------------------------------------------------------
(* The second round: a trace is followed.                                  *)

(* Places in a list that grows.                                            *)
LEMMA PlaceAfter == ASSUME NEW a \in Nat, NEW b \in Nat, a < b PROVE a + 1 \in 1..b
  OBVIOUS
InPiece(u, z, w, p) ==
  /\ w = p + z + 1 /\ p \in Nat \ {0}
  /\ \A y \in 1..(z + 2) : u + y \in 1..w /\ u + y = p - 1 + y
LEMMA PlaceInPiece ==
  ASSUME NEW u, u \in Nat, NEW z, z \in Nat, NEW w, w = u + z + 2, NEW p, p = u + 1
  PROVE  InPiece(u, z, w, p)
  BY DEF InPiece

(* At p in what is printed in the end there is the lexeme, or the token, that *)
(* entry m of the trace adds.                                              *)
LiteralAt(T, m, x, p) ==
  /\ p \in 1..Len(Final(T).text) /\ Final(T).text[p] = x
  /\ IsLiteralAt(T, m) /\ Len(T[m].text) = p /\ p \in Nat
TokenAt(T, m, f, name, d, p) ==
  /\ p \in Nat \ {0} /\ p + Len(name) + 1 =< Len(Final(T).text)
  /\ Len(T[m].text) = p + Len(name) + 1 /\ Len(name) \in Nat
  /\ \A y \in 1..(Len(name) + 2) : Final(T).text[p - 1 + y] = Piece(f, name, d)[y]

LEMMA LiteralEntry ==
  ASSUME NEW as, NEW n, NEW T, Trace(as, n, T), NEW k \in 1..Len(T), NEW m \in 2..Len(T), m = k + 1,
         NEW x, T[m].text = T[k].text \o <<x>>, NEW p, p = Len(T[k].text) + 1
  PROVE  LiteralAt(T, m, x, p)
<1> DEFINE l == T[k].text
           r == T[m].text
           e == Final(T).text
<1>1. IsList(l) /\ Len(l) \in Nat
  BY TextsOfTrace
<1>2. m \in 1..Len(T) /\ m - 1 = k
  BY TextsOfTrace
<1>3. IsList(e) /\ Len(e) \in Nat /\ Begins(r, e)
  BY <1>2, TextsOfTrace DEF Trace
<1>4. r = l \o <<x>> /\ p = Len(l) + 1
  OBVIOUS
<1> HIDE DEF l, r, e
<1>5. IsLonger(l, x, r)
  <2>1. IsLonger(l, x, l \o <<x>>)
    BY <1>1, LongerBy
  <2> QED
    BY <1>4, <2>1, Zenon
<1>6. Len(r) = p /\ r[p] = x
  BY <1>4, <1>5 DEF IsLonger
<1>7. p \in 1..Len(e) /\ e[p] = r[p] /\ p \in Nat
  BY <1>1, <1>3, <1>4, <1>6 DEF Begins
<1>8. IsLiteralAt(T, m)
  BY <1>2, <1>4, <1>6 DEF IsLiteralAt, l, r
<1> QED
  BY <1>6, <1>7, <1>8, Zenon DEF LiteralAt, e, r

LEMMA TokenEntry ==
  ASSUME NEW as, NEW n, NEW T, Trace(as, n, T), NEW k \in 1..Len(T), NEW m \in 2..Len(T), m = k + 1,
         NEW f, NEW name, NEW d, IsName(name), T[m].text = T[k].text \o Piece(f, name, d),
         NEW p, p = Len(T[k].text) + 1
  PROVE  TokenAt(T, m, f, name, d, p)
<1> DEFINE l == T[k].text
           r == T[m].text
           e == Final(T).text
           x == Piece(f, name, d)
           c == Len(name) + 2
<1>1. IsList(l) /\ Len(l) \in Nat
  BY TextsOfTrace
<1>2. m \in 1..Len(T)
  BY TextsOfTrace
<1>3. IsList(e) /\ Len(e) \in Nat /\ Begins(r, e)
  BY <1>2, TextsOfTrace DEF Trace
<1>4. r = l \o x /\ p = Len(l) + 1
  OBVIOUS
<1>5. IsList(x) /\ Len(x) = c /\ Len(name) \in Nat
  BY PieceFacts, ListFacts DEF IsName
<1>6. c = Len(name) + 2
  OBVIOUS
<1> HIDE DEF l, r, e, x, c
<1>7. IsJoined(l, x, r)
  <2>1. IsJoined(l, x, l \o x)
    BY <1>1, <1>5, JoinedTo
  <2> QED
    BY <1>4, <2>1, Zenon
<1>8. Len(r) = p + Len(name) + 1 /\ Len(r) =< Len(e) /\ p \in Nat \ {0}
  <2>1. Len(r) = Len(l) + Len(x)
    BY <1>7 DEF IsJoined
  <2>2. Len(r) =< Len(e)
    BY <1>3 DEF Begins
  <2>3. Len(r) = Len(l) + Len(name) + 2
    BY <1>1, <1>5, <1>6, <2>1
  <2>5. InPiece(Len(l), Len(name), Len(r), p)
    <3>1. Len(l) \in Nat /\ Len(name) \in Nat /\ p = Len(l) + 1
      BY <1>1, <1>4, <1>5
    <3> QED
      BY <2>3, <3>1, PlaceInPiece, Zenon
  <2>4. Len(r) = p + Len(name) + 1 /\ p \in Nat \ {0}
    BY <2>5, Zenon DEF InPiece
  <2> QED
    BY <1>1, <2>2, <2>4
<1>9. ASSUME NEW y \in 1..c PROVE e[p - 1 + y] = x[y]
  <2>1. r[Len(l) + y] = x[y]
    BY <1>5, <1>7 DEF IsJoined
  <2>2. Len(l) + y \in 1..Len(r) /\ Len(l) + y = p - 1 + y
    <3>1. Len(r) = Len(l) + c
      BY <1>5, <1>7 DEF IsJoined
    <3>2. Len(r) = Len(l) + Len(name) + 2
      BY <1>1, <1>5, <1>6, <3>1
    <3>3. Len(l) \in Nat /\ Len(name) \in Nat /\ p = Len(l) + 1
      BY <1>1, <1>4, <1>5
    <3>4. InPiece(Len(l), Len(name), Len(r), p)
      BY <3>2, <3>3, PlaceInPiece, Zenon
    <3>5. y \in 1..(Len(name) + 2)
      BY <1>6, Zenon
    <3> QED
      BY <3>4, <3>5, Zenon DEF InPiece
  <2>3. e[Len(l) + y] = r[Len(l) + y]
    BY <1>3, <2>2 DEF Begins
  <2> QED
    BY <2>1, <2>2, <2>3
<1> QED
  BY <1>5, <1>8, <1>9, Zenon DEF TokenAt, e, r, x, c

(* Every entry of a trace adds to the text.                                *)
LEMMA TextAdvances ==
  ASSUME NEW as, NEW n, NEW T, Trace(as, n, T), NEW k \in 1..Len(T), NEW m \in 2..Len(T), m = k + 1
  PROVE  Len(T[k].text) + 1 =< Len(Final(T).text)
<1>1. m - 1 = k
  BY TextsOfTrace
<1>2. Event(as, n, T[k], T[m])
  <2>1. Event(as, n, T[m - 1], T[m])
    BY DEF Trace
  <2> QED
    BY <1>1, <2>1, Zenon
<1> DEFINE p == Len(T[k].text) + 1
<1>3. CASE LiteralEvent(T[k], T[m])
  <2>1. PICK x : T[m].text = T[k].text \o <<x>>
    BY <1>3 DEF LiteralEvent
  <2>2. p = Len(T[k].text) + 1
    OBVIOUS
  <2> HIDE DEF p
  <2>3. LiteralAt(T, m, x, p)
    BY <2>1, <2>2, LiteralEntry
  <2>4. p \in 1..Len(Final(T).text)
    BY <2>3 DEF LiteralAt
  <2> QED
    BY <2>4 DEF p
<1>4. CASE TokenEvent(as, n, T[k], T[m])
  <2>1. PICK f, name, d, s : Rereads(as, n, T[k], T[m], f, name, d, s)
    BY <1>4 DEF TokenEvent
  <2>2. IsName(name) /\ T[m].text = T[k].text \o Piece(f, name, d)
    BY <2>1 DEF Rereads
  <2>3. p = Len(T[k].text) + 1
    OBVIOUS
  <2> HIDE DEF p
  <2>7. TokenAt(T, m, f, name, d, p)
    BY <2>2, <2>3, TokenEntry
  <2>4. p \in Nat \ {0} /\ p + Len(name) + 1 =< Len(Final(T).text) /\ Len(name) \in Nat
    BY <2>7 DEF TokenAt
  <2>5. Len(Final(T).text) \in Nat
    BY TextsOfTrace
  <2>6. p =< Len(Final(T).text)
    BY <2>4, <2>5
  <2> QED
    BY <2>6 DEF p
<1> QED
  BY <1>2, <1>3, <1>4 DEF Event

(* The step that is being read again has a trace, of which k entries are     *)
(* read.                                                                   *)
Reread(as, n, a, T, k) == IsStep(as, n, a, T) /\ k \in 1..Len(T) /\ scan = T[k].scan /\ at = Len(T[k].text) + 1
ScanRereads(as) ==
  Len(actions) < Len(as) => \E T, k : Reread(as, Len(actions), as[Len(actions) + 1], T, k)
SourceIsRead(as) == PrintsSource(as) /\ IsList(actions) /\ Begins(actions, as)
ReadTwo(as) == SourceIsRead(as) /\ NamesAre(names, as, Len(actions)) /\ IsScan(scan) /\ ScanRereads(as)

LEMMA SourceText ==
  ASSUME NEW as, SourceIsRead(as), Reading, NEW n, n = Len(actions)
  PROVE  /\ n \in Nat /\ n < Len(as) /\ Len(as) \in Nat /\ n + 1 \in 1..Len(as)
         /\ \A T : IsStep(as, n, as[n + 1], T) => IsList(Text) /\ Text = Final(T).text
<1>1. Len(document) = Len(as) /\ IsList(as) /\ IsList(actions)
  BY DEF SourceIsRead, PrintsSource, AllSteps
<1>2. n \in Nat /\ Len(as) \in Nat /\ n < Len(as)
  BY <1>1, ListFacts DEF Reading
<1>3. n + 1 \in 1..Len(as)
  BY <1>2, PlaceAfter
<1> DEFINE a == as[n + 1]
           d == document[n + 1]
<1>4. d = PrintStep(as, a)
  BY <1>3 DEF SourceIsRead, PrintsSource
<1>5. Text = Prose(d)
  BY DEF Text
<1> HIDE DEF a, d
<1>6. ASSUME NEW T, IsStep(as, n, a, T) PROVE IsList(Text) /\ Text = Final(T).text
  <2>1. Prose(d) = Final(T).text
    <3>1. SaysStep(d, a, T)
      BY <1>4, <1>6, TextOfStep
    <3> QED
      BY <3>1 DEF SaysStep
  <2>2. Trace(as, n, T) /\ 1 \in 1..Len(T)
    BY <1>6 DEF IsStep, Trace
  <2>3. IsList(Final(T).text)
    BY <2>2, TextsOfTrace
  <2> QED
    BY <1>5, <2>1, <2>3, Zenon
<1> QED
  BY <1>2, <1>3, <1>6 DEF a

(* As long as a lexeme is left there is another entry.                      *)
LEMMA EntryIsLeft ==
  ASSUME NEW as, NEW n, NEW a, NEW T, NEW k, Reread(as, n, a, T, k), Text = Final(T).text
  PROVE  /\ at =< Len(Text) => k + 1 \in 2..Len(T) /\ Event(as, n, T[k], T[k + 1])
         /\ at > Len(Text) => k = Len(T)
         /\ at \in Nat \ {0} /\ k \in Nat /\ Trace(as, n, T) /\ k \in 1..Len(T)
<1>1. Trace(as, n, T) /\ k \in 1..Len(T) /\ at = Len(T[k].text) + 1
  BY DEF Reread, IsStep
<1>2. Len(T) \in Nat /\ Len(T[k].text) \in Nat /\ Len(Final(T).text) \in Nat
  BY <1>1, TextsOfTrace
<1>3. ASSUME at =< Len(Text) PROVE k + 1 \in 2..Len(T)
  <2>1. k # Len(T)
    BY <1>1, <1>2, <1>3 DEF Final
  <2> QED
    BY <1>1, <1>2, <2>1
<1>4. ASSUME k + 1 \in 2..Len(T) PROVE Event(as, n, T[k], T[k + 1])
  <2> DEFINE m == k + 1
  <2>1. m \in 2..Len(T) /\ m - 1 = k
    BY <1>1, <1>2, <1>4
  <2> HIDE DEF m
  <2>2. Event(as, n, T[m - 1], T[m])
    BY <1>1, <2>1 DEF Trace
  <2>3. Event(as, n, T[k], T[m])
    BY <2>1, <2>2, Zenon
  <2> QED
    BY <2>3 DEF m
<1>5. ASSUME at > Len(Text), k # Len(T) PROVE FALSE
  <2> DEFINE m == k + 1
  <2>1. m \in 2..Len(T) /\ m = k + 1
    BY <1>1, <1>2, <1>5
  <2> HIDE DEF m
  <2>2. Len(T[k].text) + 1 =< Len(Final(T).text)
    BY <1>1, <2>1, TextAdvances
  <2> QED
    BY <1>1, <1>2, <1>5, <2>2
<1>6. at \in Nat \ {0} /\ k \in Nat
  BY <1>1, <1>2
<1> QED
  BY <1>1, <1>3, <1>4, <1>5, <1>6, Zenon

(* What is read next of a printed step is what its trace adds next.          *)
NextIsLiteral(T, m, x) ==
  /\ Text[at] = x /\ ~IsToken /\ T[m].scan = WithLiteral(scan, x) /\ Len(T[m].text) = at
NextIsToken(T, m, f, name, d, s) ==
  /\ IsToken /\ Text[at] = f /\ f.k \in Sigils /\ Between(at) = name /\ BodyAt = d
  /\ Len(T[m].text) = Brace(at)
  /\ f.k = "@&" => names[d.words] = s
  /\ \/ Accepts(f, d) /\ \E c : Takes(EndedOf(scan), s, f, name, d, c, T[m].scan)
     \/ ~Accepts(f, d) /\ Timeless(T[m].scan)

LEMMA NextLiteral ==
  ASSUME NEW as, NEW n, NEW a, NEW T, NEW k, Reread(as, n, a, T, k), NamesAre(names, as, n),
         Text = Final(T).text, IsList(Text), NEW m \in 2..Len(T), m = k + 1, LiteralEvent(T[k], T[m])
  PROVE  \E x : NextIsLiteral(T, m, x)
<1>1. Trace(as, n, T) /\ k \in 1..Len(T) /\ Settled(as, n, T) /\ scan = T[k].scan /\ at = Len(T[k].text) + 1
  BY DEF Reread, IsStep
<1>2. PICK x : T[m].text = T[k].text \o <<x>> /\ T[m].scan = WithLiteral(T[k].scan, x)
  BY DEF LiteralEvent
<1> DEFINE p == at
<1>3. p = Len(T[k].text) + 1
  BY <1>1
<1> HIDE DEF p
<1>4. LiteralAt(T, m, x, p)
  BY <1>1, <1>2, <1>3, LiteralEntry
<1>5. p \in 1..Len(Text) /\ Text[p] = x /\ IsLiteralAt(T, m) /\ Len(T[m].text) = p /\ p \in Nat
  BY <1>4 DEF LiteralAt
<1>6. Plain(as, n, Text, p)
  <2>1. Plain(as, n, Final(T).text, Len(T[m].text))
    BY <1>1, <1>5 DEF Settled
  <2> QED
    BY <1>5, <2>1, Zenon
<1>7. Len(Text) \in Nat
  BY ListFacts
<1>8. at \in Nat \ {0} /\ at =< Len(Text)
  BY <1>5, <1>7 DEF p
<1>9. ~IsToken
  BY <1>6, <1>8, PlainIsNoToken DEF p
<1>10. T[m].scan = WithLiteral(scan, x)
  BY <1>1, <1>2, Zenon
<1> QED
  BY <1>5, <1>9, <1>10, Zenon DEF NextIsLiteral, p

LEMMA NamedOnce ==
  ASSUME NEW as, NEW n \in Nat, NEW known, NamesAre(known, as, n), NEW w, NEW s, NamedLast(as, n, w, s)
  PROVE  w \in DOMAIN known /\ known[w] = s
<1>1. s \in 1..n /\ as[s].name = <<w>>
  BY DEF NamedLast
<1>2. w \in DOMAIN known
  <2> SUFFICES ASSUME w \notin DOMAIN known PROVE FALSE
    OBVIOUS
  <2>1. Unknown(as, n, w)
    BY DEF NamesAre
  <2> QED
    BY <1>1, <2>1 DEF Unknown
<1> DEFINE r == known[w]
<1>3. NamedLast(as, n, w, r)
  BY <1>2 DEF NamesAre
<1> HIDE DEF r
<1>4. r \in 1..n /\ as[r].name = <<w>> /\ (\A j \in (r + 1)..n : as[j].name # <<w>>)
      /\ \A j \in (s + 1)..n : as[j].name # <<w>>
  BY <1>3 DEF NamedLast
<1>5. ~(s \in (r + 1)..n) /\ ~(r \in (s + 1)..n)
  BY <1>1, <1>4
<1>6. r = s
  BY <1>1, <1>4, <1>5
<1> QED
  BY <1>2, <1>6 DEF r

LEMMA NextToken ==
  ASSUME NEW as, NEW n \in Nat, NEW a, NEW T, NEW k, Reread(as, n, a, T, k), NamesAre(names, as, n),
         Text = Final(T).text, IsList(Text), NEW m \in 2..Len(T), m = k + 1, TokenEvent(as, n, T[k], T[m])
  PROVE  \E f, name, d, s : NextIsToken(T, m, f, name, d, s)
<1>1. Trace(as, n, T) /\ k \in 1..Len(T) /\ scan = T[k].scan /\ at = Len(T[k].text) + 1
  BY DEF Reread, IsStep
<1>2. PICK f, name, d, s : Rereads(as, n, T[k], T[m], f, name, d, s)
  BY DEF TokenEvent
<1>3. /\ f.k \in Sigils /\ IsName(name) /\ T[m].text = T[k].text \o Piece(f, name, d)
      /\ f.k = "@&" => name = <<>> /\ NamedLast(as, n, d.words, s)
      /\ \/ Accepts(f, d) /\ \E c : Takes(EndedOf(T[k].scan), s, f, name, d, c, T[m].scan)
         \/ ~Accepts(f, d) /\ Timeless(T[m].scan)
  BY <1>2, Zenon DEF Rereads
<1> DEFINE p == at
<1>4. p = Len(T[k].text) + 1
  BY <1>1
<1> HIDE DEF p
<1>5. TokenAt(T, m, f, name, d, p)
  <2>1. IsName(name) /\ T[m].text = T[k].text \o Piece(f, name, d)
    BY <1>3
  <2> QED
    BY <1>1, <1>4, <2>1, TokenEntry
<1>6. /\ at \in Nat \ {0} /\ at + Len(name) + 1 =< Len(Text) /\ Len(name) \in Nat
      /\ Len(T[m].text) = at + Len(name) + 1
      /\ \A y \in 1..(Len(name) + 2) : Text[at - 1 + y] = Piece(f, name, d)[y]
  BY <1>5, Zenon DEF TokenAt, p
<1>7. /\ Brace(at) = at + Len(name) + 1 /\ Between(at) = name /\ BodyAt = d /\ Text[at] = f
      /\ at =< Len(Text)
  <2>1. /\ IsList(Text) /\ IsName(name) /\ at \in Nat \ {0} /\ at + Len(name) + 1 =< Len(Text)
        /\ \A y \in 1..(Len(name) + 2) : Text[at - 1 + y] = Piece(f, name, d)[y]
    BY <1>3, <1>6
  <2>2. TokenStands(f, name, d)
    BY <2>1, TokenInText, Zenon
  <2> QED
    BY <2>2, Zenon DEF TokenStands
<1>8. Brace(at) # 0
  <2> DEFINE z == Len(name)
             q == Brace(at)
  <2>1. z \in Nat /\ at \in Nat /\ q = at + z + 1
    BY <1>6, <1>7
  <2> HIDE DEF z, q
  <2>2. q # 0
    BY <2>1
  <2> QED
    BY <2>2 DEF q
<1>9. f.k = "@&" => d.words \in DOMAIN names /\ names[d.words] = s
  BY <1>3, NamedOnce
<1>10. IsToken
  BY <1>3, <1>7, <1>8, <1>9 DEF IsToken, Sigils, Sigil
<1>11. Len(T[m].text) = Brace(at)
  BY <1>6, <1>7, Zenon
<1>12. \/ Accepts(f, d) /\ \E c : Takes(EndedOf(scan), s, f, name, d, c, T[m].scan)
       \/ ~Accepts(f, d) /\ Timeless(T[m].scan)
  BY <1>1, <1>3, Zenon
<1>13. NextIsToken(T, m, f, name, d, s)
  BY <1>3, <1>7, <1>9, <1>10, <1>11, <1>12, Zenon DEF NextIsToken
<1> QED
  BY <1>13

LEMMA ScansAre ==
  ASSUME NEW to, NEW l, NEW c, NEW i, NEW k, NEW t, NEW x, NEW u, NEW n, to = Scan(l, c, i, k, t, x, u, n)
  PROVE  IsScan(to)
<1> DEFINE r == Scan(l, c, i, k, t, x, u, n)
<1>1. IsScan(r)
  BY ScanFields
<1> HIDE DEF r
<1>2. to = r
  BY DEF r
<1> QED
  BY <1>1, <1>2, Zenon

(* Taking a token has one outcome.                                          *)
LEMMA TakesOnce ==
  ASSUME NEW v, NEW s, NEW f, NEW name, NEW b, NEW c, NEW to, Takes(v, s, f, name, b, c, to),
         NEW e, NEW other, Takes(v, s, f, name, b, e, other)
  PROVE  to = other /\ IsScan(to)
<1>1. f.k \in Sigils
  BY DEF Takes, Sigils
<1>2. CASE f.k = "@&"
  <2>1. TakesState(v, s, c, to) /\ TakesState(v, s, e, other)
    BY <1>2 DEF Takes
  <2>2. c = e
    BY <2>1, Zenon DEF TakesState
  <2>3. to = other
    BY <2>1, <2>2, Zenon DEF TakesState
  <2>4. IsScan(to)
    BY <2>1, ScansAre, Zenon DEF TakesState
  <2> QED
    BY <2>3, <2>4
<1>3. CASE f.k = "@"
  <2>1. TakesIngredient(v, f, name, b, c, to) /\ TakesIngredient(v, f, name, b, e, other)
    BY <1>3 DEF Takes
  <2>2. c = e
    BY <2>1, Zenon DEF TakesIngredient
  <2>3. to = other
    BY <2>1, <2>2, Zenon DEF TakesIngredient
  <2>4. IsScan(to)
    BY <2>1, ScansAre, Zenon DEF TakesIngredient
  <2> QED
    BY <2>3, <2>4
<1>4. CASE f.k = "#"
  <2>1. TakesCookware(v, name, b, c, to) /\ TakesCookware(v, name, b, e, other)
    BY <1>4 DEF Takes
  <2>2. c = e
    BY <2>1, Zenon DEF TakesCookware
  <2>3. to = other
    BY <2>1, <2>2, Zenon DEF TakesCookware
  <2>4. IsScan(to)
    BY <2>1, ScansAre, Zenon DEF TakesCookware
  <2> QED
    BY <2>3, <2>4
<1>5. CASE f.k = "~"
  <2>1. TakesTimer(v, name, b, c, to) /\ TakesTimer(v, name, b, e, other)
    BY <1>5 DEF Takes
  <2>2. c = e
    BY <2>1, Zenon DEF TakesTimer
  <2>3. to = other
    BY <2>1, <2>2, Zenon DEF TakesTimer
  <2>4. IsScan(to)
    BY <2>1, ScansAre, Zenon DEF TakesTimer
  <2> QED
    BY <2>3, <2>4
<1>6. CASE f.k = "^"
  <2>1. TakesTemperature(v, b, c, to) /\ TakesTemperature(v, b, e, other)
    BY <1>6 DEF Takes
  <2>2. c = e
    BY <2>1, Zenon DEF TakesTemperature
  <2>3. to = other
    BY <2>1, <2>2, Zenon DEF TakesTemperature
  <2>4. IsScan(to)
    BY <2>1, ScansAre, Zenon DEF TakesTemperature
  <2> QED
    BY <2>3, <2>4
<1> QED
  BY <1>1, <1>2, <1>3, <1>4, <1>5, <1>6 DEF Sigils

LEMMA RereadMore ==
  ASSUME NEW as, ReadTwo(as), NEW n, n = Len(actions), NEW T, NEW k, Reread(as, n, as[n + 1], T, k),
         NEW m \in 1..Len(T), scan' = T[m].scan, at' = Len(T[m].text) + 1, IsScan(scan'),
         UNCHANGED <<document, actions, names>>
  PROVE  ReadTwo(as)'
<1>1. SourceIsRead(as) /\ NamesAre(names, as, n)
  BY DEF ReadTwo
<1>2. SourceIsRead(as)'
  BY <1>1 DEF SourceIsRead, PrintsSource
<1>3. NamesAre(names', as, Len(actions'))
  BY <1>1
<1> DEFINE a == as[n + 1]
<1>4. IsStep(as, n, a, T)
  BY DEF Reread
<1> HIDE DEF a
<1> DEFINE z == Len(actions')
<1>5. z = n
  OBVIOUS
<1>6. IsStep(as, n, a, T) /\ m \in 1..Len(T) /\ scan' = T[m].scan /\ at' = Len(T[m].text) + 1
  BY <1>4
<1> HIDE DEF z
<1>8. IsStep(as, z, as[z + 1], T)
  BY <1>4, <1>5, Zenon DEF a
<1>7. ScanRereads(as)'
  <2>1. z < Len(as) => \E R, y : IsStep(as, z, as[z + 1], R) /\ y \in 1..Len(R) /\ scan' = R[y].scan
                                /\ at' = Len(R[y].text) + 1
    BY <1>6, <1>8, Zenon
  <2> QED
    BY <2>1 DEF ScanRereads, Reread, z
<1> QED
  BY <1>2, <1>3, <1>7 DEF ReadTwo

(* Where round two stands: k entries of the trace are read.                  *)
Stands(as, n, T, k) ==
  /\ n = Len(actions) /\ n \in Nat /\ n + 1 \in 1..Len(as) /\ n < Len(as)
  /\ Reread(as, n, as[n + 1], T, k) /\ NamesAre(names, as, n)
  /\ IsList(Text) /\ Len(Text) \in Nat /\ Text = Final(T).text

LEMMA WhereItStands ==
  ASSUME NEW as, ReadTwo(as), Reading
  PROVE  \E n, T, k : Stands(as, n, T, k)
<1>1. SourceIsRead(as) /\ ScanRereads(as)
  BY DEF ReadTwo
<1>2. PICK n : n = Len(actions)
  OBVIOUS
<1>3. NamesAre(names, as, n)
  BY <1>2 DEF ReadTwo
<1>4. /\ n \in Nat /\ n < Len(as) /\ Len(as) \in Nat /\ n + 1 \in 1..Len(as)
      /\ \A T : IsStep(as, n, as[n + 1], T) => IsList(Text) /\ Text = Final(T).text
  BY <1>1, <1>2, SourceText
<1>5. PICK T, k : Reread(as, n, as[n + 1], T, k)
  BY <1>1, <1>2, <1>4 DEF ScanRereads
<1>6. IsStep(as, n, as[n + 1], T)
  BY <1>5 DEF Reread
<1>7. IsList(Text) /\ Text = Final(T).text
  BY <1>4, <1>6
<1>8. Len(Text) \in Nat
  BY <1>7, ListFacts
<1>9. Stands(as, n, T, k)
  BY <1>2, <1>3, <1>4, <1>5, <1>7, <1>8, Zenon DEF Stands
<1> QED
  BY <1>9

(* The entry that is read next.                                             *)
NextIs(as, n, T, k, m) ==
  /\ m \in 2..Len(T) /\ m \in 1..Len(T) /\ m = k + 1
  /\ \/ \E x : NextIsLiteral(T, m, x)
     \/ \E f, name, d, s : NextIsToken(T, m, f, name, d, s)

LEMMA WhatIsNext ==
  ASSUME NEW as, NEW n, NEW T, NEW k, Stands(as, n, T, k), at =< Len(Text)
  PROVE  \E m : NextIs(as, n, T, k, m)
<1> DEFINE a == as[n + 1]
<1>1. /\ Reread(as, n, a, T, k) /\ NamesAre(names, as, n) /\ IsList(Text) /\ Text = Final(T).text /\ n \in Nat
  BY DEF Stands
<1> HIDE DEF a
<1>2. PICK m : m = k + 1
  OBVIOUS
<1>3. k + 1 \in 2..Len(T) /\ Event(as, n, T[k], T[k + 1]) /\ k \in Nat
  BY <1>1, EntryIsLeft
<1>4. m \in 2..Len(T) /\ Event(as, n, T[k], T[m])
  BY <1>2, <1>3, Zenon
<1>5. m \in 1..Len(T)
  BY <1>4
<1>6. CASE LiteralEvent(T[k], T[m])
  <2>1. \E x : NextIsLiteral(T, m, x)
    BY <1>1, <1>2, <1>4, <1>6, NextLiteral
  <2> QED
    BY <1>2, <1>4, <1>5, <2>1, Zenon DEF NextIs
<1>7. CASE TokenEvent(as, n, T[k], T[m])
  <2>1. \E f, name, d, s : NextIsToken(T, m, f, name, d, s)
    BY <1>1, <1>2, <1>4, <1>7, NextToken
  <2> QED
    BY <1>2, <1>4, <1>5, <2>1, Zenon DEF NextIs
<1> QED
  BY <1>4, <1>6, <1>7 DEF Event

LEMMA ReadTwoLiteral ==
  ASSUME NEW as, ReadTwo(as), ReadLiteral
  PROVE  ReadTwo(as)' /\ UNCHANGED <<front, phase, round, source, meta>>
<1>1. Reading /\ at =< Len(Text) /\ ~IsToken /\ at' = at + 1
  BY DEF ReadLiteral, IsLiteral
<1>2. UNCHANGED <<front, document, phase, round, meta, actions, names, source>>
  BY DEF ReadLiteral
<1>3. PICK n, T, k : Stands(as, n, T, k)
  BY <1>1, WhereItStands
<1>4. PICK m : NextIs(as, n, T, k, m)
  BY <1>1, <1>3, WhatIsNext
<1>5. \A f, name, d, s : ~NextIsToken(T, m, f, name, d, s)
  BY <1>1 DEF NextIsToken
<1>6. PICK x : NextIsLiteral(T, m, x)
  BY <1>4, <1>5, Zenon DEF NextIs
<1>7. Text[at] = x /\ T[m].scan = WithLiteral(scan, x) /\ Len(T[m].text) = at
  BY <1>6 DEF NextIsLiteral
<1>8. IsScan(scan)
  BY DEF ReadTwo
<1>9. scan' = WithLiteral(scan, Text[at])
  BY <1>8, LiteralIs
<1>10. scan' = T[m].scan /\ at' = Len(T[m].text) + 1
  BY <1>1, <1>7, <1>9, Zenon
<1>11. IsScan(scan')
  BY <1>9, ScansAre, Zenon DEF WithLiteral
<1>12. n = Len(actions) /\ Reread(as, n, as[n + 1], T, k) /\ m \in 1..Len(T)
  BY <1>3, <1>4 DEF Stands, NextIs
<1>13. ReadTwo(as)'
  BY <1>2, <1>10, <1>11, <1>12, RereadMore
<1> QED
  BY <1>2, <1>13

LEMMA ReadTwoToken ==
  ASSUME NEW as, ReadTwo(as), phase = "read", ReadToken
  PROVE  /\ phase' = "read" => ReadTwo(as)'
         /\ phase' = "raised" => HasEmptyTimer(as) /\ SourceIsRead(as)'
         /\ phase' \in {"read", "raised"} /\ UNCHANGED <<front, round, source, meta>>
<1>1. IsScan(scan)
  BY DEF ReadTwo
<1>2. /\ Reading /\ at =< Len(Text) /\ IsToken
      /\ UNCHANGED <<front, document, round, meta, actions, names, source>>
      /\ \/ /\ Accepts(Text[at], BodyAt)
            /\ \E c : Takes(Ended, names[BodyAt.words], Text[at], Between(at), BodyAt, c, scan')
            /\ at' = Brace(at) + 1 /\ phase' = phase
         \/ ~Accepts(Text[at], BodyAt) /\ phase' = "raised"
  BY <1>1, TokenIsTaken
<1>3. PICK n, T, k : Stands(as, n, T, k)
  BY <1>2, WhereItStands
<1>4. PICK m : NextIs(as, n, T, k, m)
  BY <1>2, <1>3, WhatIsNext
<1>5. \A x : ~NextIsLiteral(T, m, x)
  BY <1>2 DEF NextIsLiteral
<1>6. PICK f, name, d, s : NextIsToken(T, m, f, name, d, s)
  BY <1>4, <1>5, Zenon DEF NextIs
<1>7. /\ Text[at] = f /\ f.k \in Sigils /\ Between(at) = name /\ BodyAt = d
      /\ Len(T[m].text) = Brace(at)
      /\ f.k = "@&" => names[d.words] = s
      /\ \/ Accepts(f, d) /\ \E c : Takes(EndedOf(scan), s, f, name, d, c, T[m].scan)
         \/ ~Accepts(f, d) /\ Timeless(T[m].scan)
  BY <1>6, Zenon DEF NextIsToken
<1>8. n = Len(actions) /\ Reread(as, n, as[n + 1], T, k) /\ m \in 1..Len(T)
  BY <1>3, <1>4 DEF Stands, NextIs
<1>9. CASE Accepts(f, d)
  <2>1. PICK c : Takes(Ended, names[d.words], f, name, d, c, scan')
    BY <1>2, <1>7, <1>9, Zenon
  <2>2. at' = Brace(at) + 1 /\ phase' = phase
    BY <1>2, <1>7, <1>9, Zenon
  <2>3. PICK e : Takes(EndedOf(scan), s, f, name, d, e, T[m].scan)
    BY <1>7, <1>9
  <2>4. Takes(EndedOf(scan), s, f, name, d, c, scan')
    <3>1. CASE f.k = "@&"
      BY <1>7, <2>1, <3>1, EndedIs, Zenon
    <3>2. CASE f.k # "@&"
      <4>1. Takes(EndedOf(scan), names[d.words], f, name, d, c, scan')
        BY <2>1, EndedIs, Zenon
      <4> QED
        BY <3>2, <4>1, Zenon DEF Takes
    <3> QED
      BY <3>1, <3>2
  <2>5. scan' = T[m].scan /\ IsScan(scan')
    BY <2>3, <2>4, TakesOnce
  <2>6. at' = Len(T[m].text) + 1
    BY <1>7, <2>2, Zenon
  <2>7. UNCHANGED <<document, actions, names>>
    BY <1>2
  <2>8. ReadTwo(as)'
    BY <1>8, <2>5, <2>6, <2>7, RereadMore
  <2> QED
    BY <1>2, <2>2, <2>8
<1>10. CASE ~Accepts(f, d)
  <2>1. phase' = "raised"
    BY <1>2, <1>7, <1>10, Zenon
  <2>2. Timeless(T[m].scan)
    BY <1>7, <1>10
  <2> DEFINE a == as[n + 1]
  <2>3. Trace(as, n, T) /\ a = ActionOf(Final(T).scan, a.name)
    BY <1>8 DEF Reread, IsStep
  <2>4. Timeless(Final(T).scan)
    BY <1>8, <2>2, <2>3 DEF Trace
  <2>5. a.timers = Final(T).scan.timers
    <3> HIDE DEF a
    <3>1. PICK v : v = Final(T).scan
      OBVIOUS
    <3>2. PICK w : w = a.name
      OBVIOUS
    <3>3. a = ActionOf(v, w)
      BY <2>3, <3>1, <3>2, Zenon
    <3>4. a.timers = v.timers
      BY <3>3, ActionFields
    <3> QED
      BY <3>1, <3>4
  <2>6. \E j \in DOMAIN a.timers : a.timers[j].quantity = NoTime
    BY <2>4, <2>5, Zenon DEF Timeless
  <2>7. n + 1 \in DOMAIN as
    <3>1. n + 1 \in 1..Len(as)
      BY <1>3 DEF Stands
    <3>2. IsList(as)
      BY DEF ReadTwo, SourceIsRead, PrintsSource, AllSteps
    <3> QED
      BY <3>1, <3>2, ListFacts
  <2>8. HasEmptyTimer(as)
    BY <2>6, <2>7 DEF HasEmptyTimer
  <2>9. SourceIsRead(as)'
    BY <1>2 DEF ReadTwo, SourceIsRead, PrintsSource
  <2> QED
    BY <1>2, <2>1, <2>8, <2>9
<1> QED
  BY <1>9, <1>10

LEMMA NextPlace ==
  ASSUME NEW m \in Nat, NEW l \in Nat, m < l, NEW j, j = m + 1
  PROVE  j \in 1..l /\ j - 1 = m /\ j \in Nat /\ j =< l
  OBVIOUS

LEMMA NotScannedIsScan == IsScan(NotScanned)
  BY ScansAre, Zenon DEF NotScanned, Scan

(* A step is read from the beginning of its trace.                          *)
LEMMA RereadStarts ==
  ASSUME NEW as, AllSteps(as), NEW m, m \in Nat, Len(actions') = m, at' = 1, scan' = NotScanned
  PROVE  ScanRereads(as)'
<1> SUFFICES ASSUME m < Len(as)
             PROVE  \E R, y : Reread(as, m, as[m + 1], R, y)'
  BY DEF ScanRereads, Reread
<1> DEFINE j == m + 1
           b == as[j]
<1>1. j \in 1..Len(as) /\ j - 1 = m
  <2>1. Len(as) \in Nat
    BY ListFacts DEF AllSteps
  <2>2. j = m + 1 /\ m \in Nat /\ m < Len(as)
    OBVIOUS
  <2> QED
    BY <2>1, <2>2, NextPlace, Zenon
<1>2. PICK R : IsStep(as, j - 1, as[j], R)
  BY <1>1 DEF AllSteps
<1>3. IsStep(as, m, b, R)
  BY <1>1, <1>2, Zenon
<1>4. 1 \in 1..Len(R) /\ R[1].scan = NotScanned /\ R[1].text = <<>>
  BY <1>3 DEF IsStep, Trace
<1>5. at' = Len(R[1].text) + 1 /\ scan' = R[1].scan
  BY <1>4
<1> HIDE DEF b
<1>6. Reread(as, m, b, R, 1)'
  BY <1>3, <1>4, <1>5 DEF Reread
<1> QED
  BY <1>6, Zenon DEF b

(* What is read of a printed step is the step.                              *)
LEMMA ReadTwoEnd ==
  ASSUME NEW as, ReadTwo(as), EndStep
  PROVE  ReadTwo(as)' /\ UNCHANGED <<front, phase, round, source, meta>>
<1>1. Reading /\ at > Len(Text)
  BY DEF EndStep
<1>2. PICK n, T, k : Stands(as, n, T, k)
  BY <1>1, WhereItStands
<1> DEFINE a == as[n + 1]
           t == document[n + 1]
<1>3. /\ n = Len(actions) /\ n \in Nat /\ n + 1 \in 1..Len(as) /\ n < Len(as)
      /\ Reread(as, n, a, T, k) /\ NamesAre(names, as, n) /\ Text = Final(T).text
  BY <1>2 DEF Stands
<1>4. SourceIsRead(as)
  BY DEF ReadTwo
<1>5. AllSteps(as) /\ t = PrintStep(as, a)
  BY <1>3, <1>4 DEF SourceIsRead, PrintsSource
<1> HIDE DEF a, t
<1>6. k = Len(T)
  BY <1>1, <1>3, EntryIsLeft
<1>7. scan = Final(T).scan /\ IsStep(as, n, a, T)
  BY <1>3, <1>6, Zenon DEF Reread, Final
<1>8. SaysStep(t, a, T)
  BY <1>5, <1>7, TextOfStep
<1> DEFINE name == Produced(t)
           m == n + 1
<1>9. name = a.name
  BY <1>8 DEF SaysStep
<1>10. name = <<>> \/ \E w : name = <<w>>
  BY Zenon DEF Produced
<1>11. m = Len(actions) + 1 /\ name = Produced(document[m])
  BY <1>3 DEF t
<1>24. m = n + 1 /\ as[m] = a
  BY DEF a
<1> HIDE DEF name, m
<1>25. Len(as) \in Nat
  BY <1>5, ListFacts DEF AllSteps
<1>12. m \in Nat /\ m \in 1..Len(as) /\ m = n + 1 /\ as[m] = a /\ m =< Len(as)
  <2>1. n \in Nat /\ n < Len(as) /\ m = n + 1
    BY <1>3, <1>24
  <2>2. m \in 1..Len(as) /\ m - 1 = n /\ m \in Nat /\ m =< Len(as)
    BY <1>25, <2>1, NextPlace, Zenon
  <2> QED
    BY <1>24, <2>2
<1>13. /\ actions' = Append(actions, ActionOf(scan, name))
       /\ names' = NextNames(names, name, m) /\ scan' = NotScanned /\ at' = 1
       /\ UNCHANGED <<front, document, phase, round, meta, source>>
  BY <1>11, EndStepIs
<1>14. ActionOf(scan, name) = a
  BY <1>7, <1>9, Zenon DEF IsStep
<1>15. actions' = Append(actions, a)
  BY <1>13, <1>14, Zenon
<1>16. IsList(actions) /\ Begins(actions, as)
  BY <1>4 DEF SourceIsRead
<1>17. IsList(actions') /\ Len(actions') = m /\ Begins(actions, actions') /\ actions'[m] = a
  <2>1. IsList(actions') /\ Len(actions') = Len(actions) + 1 /\ Begins(actions, actions')
        /\ actions'[Len(actions) + 1] = a
    BY <1>15, <1>16, Appended
  <2> QED
    BY <1>11, <2>1, Zenon
<1>18. Begins(actions', as)
  <2>1. \A i \in 1..n : actions'[i] = as[i]
    BY <1>3, <1>16, <1>17 DEF Begins
  <2>2. \A i \in 1..m : i \in 1..n \/ i = m
    BY <1>3, <1>12
  <2>3. \A i \in 1..m : actions'[i] = as[i]
    BY <1>12, <1>17, <2>1, <2>2, Zenon
  <2> QED
    BY <1>12, <1>17, <2>3, Zenon DEF Begins
<1>19. SourceIsRead(as)'
  <2>1. PrintsSource(as)'
    BY <1>4, <1>13 DEF SourceIsRead, PrintsSource
  <2> QED
    BY <1>17, <1>18, <2>1 DEF SourceIsRead
<1>20. NamesAre(names', as, Len(actions'))
  <2>1. as[m].name = name
    BY <1>9, <1>12
  <2> DEFINE known == names
  <2> HIDE DEF known
  <2>2. NamesAre(NextNames(known, name, m), as, m)
    BY <1>3, <1>10, <1>12, <2>1, NamesNext DEF known
  <2> QED
    BY <1>13, <1>17, <2>2, Zenon DEF known
<1>21. IsScan(scan')
  BY <1>13, NotScannedIsScan, Zenon
<1>22. ScanRereads(as)'
  BY <1>5, <1>12, <1>13, <1>17, RereadStarts
<1>23. ReadTwo(as)'
  BY <1>19, <1>20, <1>21, <1>22 DEF ReadTwo
<1> QED
  BY <1>13, <1>23

-----------------------------------------------------------------------------
(* Both rounds.                                                            *)

(* The first round, in which a written document is read, and the second, in  *)
(* which what was printed of the steps as is read.                          *)
RoundOne ==
  /\ phase \in {"read", "print", "raised"}
  /\ phase = "read" => ReadOne
  /\ phase = "print" => AllSteps(actions) /\ actions # <<>> /\ MetaIs(meta)
RoundTwo(as) ==
  /\ phase \in {"read", "done", "raised"} /\ as = source.actions /\ SourceIsRead(as)
  /\ MetaIs(source.meta) /\ front = PrintFront(source.meta)
  /\ phase = "read" => ReadTwo(as)
  /\ phase = "done" => actions = as /\ meta = source.meta
  /\ phase = "raised" => HasEmptyTimer(as)
RoundsInv ==
  /\ round \in {1, 2} /\ (round = 1 => RoundOne) /\ (round = 2 => \E as : RoundTwo(as))

-----------------------------------------------------------------------------
LEMMA NothingRead == AllSteps(<<>>) /\ Len(<<>>) = 0 /\ IsList(<<>>)
<1>1. IsList(<<>>) /\ Len(<<>>) = 0
  BY EmptyIsList
<1>2. \A i \in 1..Len(<<>>) : FALSE
  BY <1>1
<1> QED
  BY <1>1, <1>2 DEF AllSteps

LEMMA NoneIsLeast == ASSUME NEW n, n \in Nat PROVE 0 =< n
  OBVIOUS

LEMMA NothingNamed == ASSUME NEW as PROVE NamesAre(<<>>, as, 0)
<1>1. DOMAIN <<>> = {}
  OBVIOUS
<1>2. \A j \in 1..0 : FALSE
  OBVIOUS
<1> QED
  BY <1>1, <1>2, Zenon DEF NamesAre, Unknown

(* Nobody made a recipe in another way: a written document is read.          *)
LEMMA FirstRoundBegins == ASSUME Authored = {}, CInit PROVE round = 1 /\ phase = "read" /\ RoundOne
<1>1. PICK d \in Documents : /\ front = d.front /\ document = d.steps
                             /\ phase = "read" /\ actions = <<>> /\ meta = <<>>
  BY DEF CInit
<1>2. round = 1 /\ names = <<>> /\ at = 1 /\ scan = NotScanned
  BY DEF CInit
<1>3. IsWritten(d)
  BY DocumentsAreWritten
<1>5. DocumentIsWritten
  <2> DEFINE l == d.steps
  <2>1. IsList(l) /\ \A i \in DOMAIN l : WrittenStep(l[i])
    BY <1>3, Zenon DEF IsWritten, WrittenStep
  <2>2. document = l
    BY <1>1
  <2> HIDE DEF l
  <2>3. DOMAIN l = 1..Len(l)
    BY <2>1, ListFacts
  <2> QED
    BY <2>1, <2>2, <2>3 DEF DocumentIsWritten
<1>6. StepsAreRead
  <2>1. AllSteps(actions) /\ Len(actions) = 0
    BY <1>1, NothingRead
  <2>2. NamesAre(names, actions, Len(actions))
    BY <1>2, <2>1, NothingNamed, Zenon
  <2>3. Len(document) \in Nat
    BY <1>5, ListFacts DEF DocumentIsWritten
  <2>4. Len(actions) =< Len(document)
    BY <2>1, <2>3
  <2> QED
    BY <2>1, <2>2, <2>4 DEF StepsAreRead
<1>7. ScanFollows
  <2> SUFFICES ASSUME Len(actions) < Len(document)
               PROVE  at - 1 =< Len(Text) /\ \E T : Follows(actions, Len(actions), Text, at - 1, T, scan)
    BY DEF ScanFollows
  <2>1. IsList(Text)
    BY <1>5, <1>6, TextIs
  <2>2. Len(Text) \in Nat
    BY <2>1, ListFacts
  <2>3. at - 1 = 0
    BY <1>2
  <2>4. at - 1 =< Len(Text)
    BY <2>2, <2>3
  <2> DEFINE n == Len(actions)
             t == Text
  <2> HIDE DEF n, t
  <2>5. \E T : Follows(actions, n, t, 0, T, NotScanned)
    BY FollowsStarts
  <2> QED
    BY <1>2, <2>3, <2>4, <2>5, Zenon DEF n, t
<1> QED
  BY <1>1, <1>2, <1>5, <1>6, <1>7 DEF RoundOne, ReadOne

(* What is printed is read from its beginning.                              *)
LEMMA SecondRoundBegins ==
  ASSUME RoundOne, PrintCook
  PROVE  round' = 2 /\ (\E as : RoundTwo(as))'
<1>1. AllSteps(actions) /\ actions # <<>> /\ MetaIs(meta)
  BY DEF RoundOne, PrintCook
<1>2. PICK as : as = actions
  OBVIOUS
<1>3. /\ front' = PrintFront(meta)
      /\ document' = Blocks([i \in DOMAIN as |-> PrintStep(as, as[i])])
      /\ source' = [meta |-> meta, actions |-> as]
      /\ phase' = "read" /\ round' = 2 /\ actions' = <<>> /\ names' = <<>> /\ at' = 1 /\ scan' = NotScanned
      /\ meta' = meta
  BY <1>2 DEF PrintCook
<1>4. AllSteps(as) /\ as # <<>>
  BY <1>1, <1>2
<1>5. PrintsSource(as)'
  BY <1>3, <1>4, PrintedSource
<1>6. IsList(actions') /\ Len(actions') = 0
  BY <1>3, NothingRead
<1>7. Len(as) \in Nat
  BY <1>4, ListFacts DEF AllSteps
<1>8. Begins(actions', as)
  <2>1. \A i \in 1..0 : FALSE
    OBVIOUS
  <2>2. 0 =< Len(as)
    BY <1>7, NoneIsLeast, Zenon
  <2> QED
    BY <1>6, <2>1, <2>2, Zenon DEF Begins
<1>9. SourceIsRead(as)'
  BY <1>5, <1>6, <1>8 DEF SourceIsRead
<1>10. NamesAre(names', as, Len(actions'))
  BY <1>3, <1>6, NothingNamed, Zenon
<1>11. IsScan(scan')
  BY <1>3, NotScannedIsScan, Zenon
<1>12. ScanRereads(as)'
  BY <1>3, <1>4, <1>6, RereadStarts
<1>13. ReadTwo(as)'
  BY <1>9, <1>10, <1>11, <1>12 DEF ReadTwo
<1>14. as = source'.actions /\ source'.meta = meta
  BY <1>3
<1>15. MetaIs(source'.meta) /\ front' = PrintFront(source'.meta)
  BY <1>1, <1>3, <1>14, Zenon
<1>16. RoundTwo(as)'
  BY <1>3, <1>9, <1>13, <1>14, <1>15 DEF RoundTwo
<1> QED
  BY <1>3, <1>16

LEMMA FirstRoundEnds ==
  ASSUME round = 1, RoundOne, EndDocument
  PROVE  round' = 1 /\ RoundOne'
<1>1. ReadOne
  BY DEF RoundOne, EndDocument
<1>2. /\ Len(actions) = Len(document) /\ meta' = ReadFront(front)
      /\ phase' = IF document = <<>> THEN "raised" ELSE "print"
      /\ actions' = actions /\ round' = 1
  BY DEF EndDocument
<1>3. AllSteps(actions) /\ DocumentIsWritten
  BY <1>1 DEF ReadOne, StepsAreRead
<1>4. IsList(actions) /\ IsList(document)
  BY <1>3 DEF AllSteps, DocumentIsWritten
<1>5. document # <<>> => actions # <<>>
  <2>1. document = <<>> <=> Len(document) = 0
    BY <1>4, EmptyList
  <2>2. actions = <<>> <=> Len(actions) = 0
    BY <1>4, EmptyList
  <2> QED
    BY <1>2, <2>1, <2>2
<1>6. MetaIs(meta')
  <2>1. MetaIs(ReadFront(front))
    BY MetaOfFront
  <2> QED
    BY <1>2, <2>1, Zenon
<1>7. AllSteps(actions')
  BY <1>2, <1>3
<1>8. MetaIs(meta)'
  BY <1>6 DEF MetaIs
<1> QED
  BY <1>2, <1>5, <1>7, <1>8 DEF RoundOne

LEMMA SecondRoundEnds ==
  ASSUME round = 2, NEW as, RoundTwo(as), EndDocument
  PROVE  round' = 2 /\ RoundTwo(as)'
<1>1. phase = "read" /\ Len(actions) = Len(document) /\ meta' = ReadFront(front)
      /\ phase' = (IF document = <<>> THEN "raised" ELSE "done")
      /\ UNCHANGED <<front, document, round, actions, names, at, scan, source>>
  BY DEF EndDocument
<1>2. SourceIsRead(as) /\ as = source.actions /\ MetaIs(source.meta) /\ front = PrintFront(source.meta)
  BY DEF RoundTwo
<1>3. /\ AllSteps(as) /\ as # <<>> /\ IsList(document) /\ Len(document) = Len(as)
      /\ IsList(actions) /\ Begins(actions, as) /\ IsList(as)
  BY <1>2 DEF SourceIsRead, PrintsSource, AllSteps
<1>4. document # <<>>
  <2>1. document = <<>> <=> Len(document) = 0
    BY <1>3, EmptyList
  <2>2. as = <<>> <=> Len(as) = 0
    BY <1>3, EmptyList
  <2> QED
    BY <1>3, <2>1, <2>2
<1>5. phase' = "done"
  BY <1>1, <1>4
<1>6. actions = as
  <2>1. Len(actions) = Len(as) /\ \A i \in 1..Len(actions) : actions[i] = as[i]
    BY <1>1, <1>3 DEF Begins
  <2> QED
    BY <1>3, <2>1, EqualLists
<1>7. meta' = source'.meta
  <2> DEFINE m == source.meta
  <2> HIDE DEF m
  <2>1. MetaIs(m) /\ meta' = ReadFront(PrintFront(m))
    BY <1>1, <1>2, Zenon DEF m
  <2>2. meta' = m
    BY <2>1, FrontReadAgain, Zenon
  <2> QED
    BY <1>1, <2>2 DEF m
<1>8. SourceIsRead(as)'
  BY <1>1, <1>2 DEF SourceIsRead, PrintsSource
<1>9. as = source'.actions /\ MetaIs(source'.meta) /\ front' = PrintFront(source'.meta) /\ actions' = as
  BY <1>1, <1>2, <1>6, Zenon
<1> QED
  BY <1>1, <1>5, <1>7, <1>8, <1>9 DEF RoundTwo

LEMMA StepOfReading ==
  ASSUME CNext
  PROVE  \/ ReadToken \/ ReadLiteral \/ EndStep \/ EndDocument \/ PrintCook
  BY Zenon DEF CNext, ReadToken

LEMMA TokensAreRead == ASSUME ReadToken PROVE phase = "read"
  BY DEF ReadToken, ReadState, ReadIngredient, ReadCookware, ReadTimer, ReadTemperature, Token, Reading

LEMMA SecondRoundIs == ASSUME round' = 2, NEW as, RoundTwo(as)' PROVE RoundsInv'
<1>1. round' \in {1, 2} /\ round' # 1
  OBVIOUS
<1>2. (\E bs : RoundTwo(bs))'
  OBVIOUS
<1> QED
  BY <1>1, <1>2, Zenon DEF RoundsInv

LEMMA FirstRoundGoesOn ==
  ASSUME round = 1, RoundOne, CNext, CInv' PROVE RoundsInv'
<1>1. CASE ReadToken
  <2>1. phase = "read"
    BY <1>1, TokensAreRead
  <2>2. ReadOne
    BY <2>1 DEF RoundOne
  <2>3. (phase' = "read" => ReadOne') /\ phase' \in {"read", "raised"} /\ UNCHANGED <<front, round>>
    BY <1>1, <2>1, <2>2, ReadOneToken
  <2> QED
    BY <2>3 DEF RoundsInv, RoundOne
<1>2. CASE ReadLiteral
  <2>1. phase = "read"
    BY <1>2 DEF ReadLiteral, Reading
  <2>2. ReadOne
    BY <2>1 DEF RoundOne
  <2>3. ReadOne' /\ phase' = phase /\ UNCHANGED <<front, round>>
    BY <1>2, <2>2, ReadOneLiteral
  <2> QED
    BY <2>1, <2>3 DEF RoundsInv, RoundOne
<1>3. CASE EndStep
  <2>1. phase = "read"
    BY <1>3 DEF EndStep, Reading
  <2>2. ReadOne
    BY <2>1 DEF RoundOne
  <2>3. ReadOne' /\ phase' = phase /\ UNCHANGED <<front, round>>
    BY <1>3, <2>2, ReadOneEnd
  <2> QED
    BY <2>1, <2>3 DEF RoundsInv, RoundOne
<1>4. CASE EndDocument
  <2>1. round' = 1 /\ RoundOne'
    BY <1>4, FirstRoundEnds
  <2> QED
    BY <2>1 DEF RoundsInv
<1>5. CASE PrintCook
  <2>1. round' = 2 /\ (\E as : RoundTwo(as))'
    BY <1>5, SecondRoundBegins
  <2>2. PICK as : RoundTwo(as)'
    BY <2>1
  <2> QED
    BY <2>1, <2>2, SecondRoundIs
<1> QED
  BY <1>1, <1>2, <1>3, <1>4, <1>5, StepOfReading

LEMMA RoundTwoKeeps ==
  ASSUME NEW as, RoundTwo(as), UNCHANGED <<front, source>>, SourceIsRead(as)', phase' \in {"read", "raised"},
         phase' = "read" => ReadTwo(as)', phase' = "raised" => HasEmptyTimer(as)
  PROVE  RoundTwo(as)'
  BY DEF RoundTwo

LEMMA SecondRoundGoesOn ==
  ASSUME round = 2, NEW as, RoundTwo(as), CNext PROVE round' = 2 /\ RoundTwo(as)'
<1>1. CASE ReadToken
  <2>1. phase = "read" /\ ReadTwo(as)
    BY <1>1, TokensAreRead DEF RoundTwo
  <2>2. /\ phase' = "read" => ReadTwo(as)'
        /\ phase' = "raised" => HasEmptyTimer(as) /\ SourceIsRead(as)'
        /\ phase' \in {"read", "raised"} /\ UNCHANGED <<front, round, source, meta>>
    BY <1>1, <2>1, ReadTwoToken
  <2>3. SourceIsRead(as)'
    BY <2>2 DEF ReadTwo
  <2>4. RoundTwo(as)'
    BY <2>2, <2>3, RoundTwoKeeps
  <2> QED
    BY <2>2, <2>4
<1>2. CASE ReadLiteral
  <2>1. phase = "read" /\ ReadTwo(as)
    BY <1>2 DEF RoundTwo, ReadLiteral, Reading
  <2>2. ReadTwo(as)' /\ UNCHANGED <<front, phase, round, source, meta>>
    BY <1>2, <2>1, ReadTwoLiteral
  <2>3. SourceIsRead(as)'
    BY <2>2 DEF ReadTwo
  <2>4. phase' = "read"
    BY <2>1, <2>2
  <2>5. RoundTwo(as)'
    BY <2>2, <2>3, <2>4, RoundTwoKeeps
  <2> QED
    BY <2>2, <2>5
<1>3. CASE EndStep
  <2>1. phase = "read" /\ ReadTwo(as)
    BY <1>3 DEF RoundTwo, EndStep, Reading
  <2>2. ReadTwo(as)' /\ UNCHANGED <<front, phase, round, source, meta>>
    BY <1>3, <2>1, ReadTwoEnd
  <2>3. SourceIsRead(as)'
    BY <2>2 DEF ReadTwo
  <2>4. phase' = "read"
    BY <2>1, <2>2
  <2>5. RoundTwo(as)'
    BY <2>2, <2>3, <2>4, RoundTwoKeeps
  <2> QED
    BY <2>2, <2>5
<1>4. CASE EndDocument
  BY <1>4, SecondRoundEnds
<1>5. CASE PrintCook
  BY <1>5 DEF PrintCook, RoundTwo
<1> QED
  BY <1>1, <1>2, <1>3, <1>4, <1>5, StepOfReading

LEMMA RoundsGoOn == ASSUME RoundsInv, CNext, CInv' PROVE RoundsInv'
<1>1. CASE round = 1
  BY <1>1, FirstRoundGoesOn DEF RoundsInv
<1>2. CASE round = 2
  <2>1. PICK as : RoundTwo(as)
    BY <1>2 DEF RoundsInv
  <2>2. round' = 2 /\ RoundTwo(as)'
    BY <1>2, <2>1, SecondRoundGoesOn
  <2> QED
    BY <2>2, SecondRoundIs
<1> QED
  BY <1>1, <1>2 DEF RoundsInv

LEMMA RoundsStay == ASSUME RoundsInv, UNCHANGED cvars PROVE RoundsInv'
<1>1. UNCHANGED <<front, document, phase, round, meta, actions, names, at, scan, source>>
  BY DEF cvars
<1>2. CASE round = 1
  <2>1. RoundOne
    BY <1>2 DEF RoundsInv
  <2>2. ReadOne => ReadOne'
    BY <1>1 DEF ReadOne, DocumentIsWritten, StepsAreRead, ScanFollows, Text
  <2>3. RoundOne'
    BY <1>1, <2>1, <2>2 DEF RoundOne, MetaIs
  <2> QED
    BY <1>1, <1>2, <2>3 DEF RoundsInv
<1>3. CASE round = 2
  <2>1. PICK as : RoundTwo(as)
    BY <1>3 DEF RoundsInv
  <2>2. SourceIsRead(as)' /\ (ReadTwo(as) => ReadTwo(as)')
    BY <1>1, <2>1 DEF RoundTwo, SourceIsRead, PrintsSource, ReadTwo, ScanRereads, Reread
  <2>3. RoundTwo(as)'
    BY <1>1, <2>1, <2>2 DEF RoundTwo
  <2>4. round' = 2
    BY <1>1, <1>3
  <2> QED
    BY <2>3, <2>4, SecondRoundIs
<1> QED
  BY <1>2, <1>3 DEF RoundsInv

LEMMA ReadingInv ==
  ASSUME Authored = {}
  PROVE  CSpec => [](CInv /\ RoundsInv)
<1>1. CInit => CInv /\ RoundsInv
  <2> SUFFICES ASSUME CInit PROVE CInv /\ RoundsInv
    OBVIOUS
  <2>1. CInv
    BY ReadingBegins
  <2>2. RoundsInv
    BY FirstRoundBegins DEF RoundsInv
  <2> QED
    BY <2>1, <2>2
<1>2. CInv /\ RoundsInv /\ [CNext]_cvars => CInv' /\ RoundsInv'
  <2> SUFFICES ASSUME CInv, RoundsInv, [CNext]_cvars PROVE CInv' /\ RoundsInv'
    OBVIOUS
  <2>1. CInv'
    BY ReadingStep
  <2> QED
    BY <2>1, RoundsGoOn, RoundsStay
<1> QED
  BY <1>1, <1>2, PTL DEF CSpec

(* Whatever document is written, the recipe that is read from it is printed  *)
(* as a document that reads as the same recipe (print_.py), front matter     *)
(* and all; only an empty timer is refused the second time.                  *)
THEOREM PrintedReadsBack ==
  ASSUME Authored = {}
  PROVE  CSpec => []ReadsBack
<1>1. RoundsInv => ReadsBack
  BY DEF RoundsInv, RoundTwo, ReadsBack
<1> QED
  BY <1>1, ReadingInv, PTL

LEMMA PlacesBefore ==
  ASSUME NEW k, k \in Nat, NEW l, l \in Nat, k =< l, NEW i, i \in 1..k
  PROVE  i \in 1..l /\ \A j \in 1..(i - 1) : j \in 1..k
  OBVIOUS

(* Whatever document is written, printing a step that was read from what was *)
(* printed gives the text it was read from, also while the rest is unread.   *)
THEOREM PrintedIsPrintedAgain ==
  ASSUME Authored = {}
  PROVE  CSpec => []PrintReproducesTheText
<1>1. RoundsInv => PrintReproducesTheText
  <2> SUFFICES ASSUME RoundsInv, round = 2, NEW i \in DOMAIN actions
               PROVE  PrintStep(actions, actions[i]) = document[i]
    BY DEF PrintReproducesTheText
  <2>1. PICK as : RoundTwo(as)
    BY DEF RoundsInv
  <2>2. IsList(actions) /\ Begins(actions, as) /\ AllSteps(as) /\ Len(document) = Len(as)
        /\ \A j \in 1..Len(as) : document[j] = PrintStep(as, as[j])
    BY <2>1 DEF RoundTwo, SourceIsRead, PrintsSource
  <2>3. Len(actions) \in Nat /\ DOMAIN actions = 1..Len(actions) /\ Len(as) \in Nat
    BY <2>2, ListFacts DEF AllSteps
  <2> DEFINE n == i - 1
             a == as[i]
  <2>4. i \in 1..Len(as) /\ actions[i] = a /\ \A j \in 1..n : actions[j] = as[j]
    <3>1. Len(actions) =< Len(as) /\ i \in 1..Len(actions)
      BY <2>2, <2>3 DEF Begins
    <3>2. i \in 1..Len(as) /\ \A j \in 1..n : j \in 1..Len(actions)
      <4>1. Len(actions) \in Nat /\ Len(as) \in Nat
        BY <2>3
      <4> QED
        BY <3>1, <4>1, PlacesBefore, Zenon
    <3>3. \A j \in 1..Len(actions) : actions[j] = as[j]
      BY <2>2 DEF Begins
    <3> QED
      BY <3>1, <3>2, <3>3
  <2>5. PICK T : IsStep(as, n, a, T)
    BY <2>2, <2>4 DEF AllSteps
  <2>6. Placed(a, n)
    BY <2>5 DEF IsStep
  <2>7. PICK bs : bs = actions
    OBVIOUS
  <2>8. \A j \in 1..n : bs[j] = as[j]
    BY <2>4, <2>7
  <2> HIDE DEF n, a
  <2>9. SamePrint(as, bs, a)
    BY <2>6, <2>8, PrintStepStays
  <2>10. document[i] = PrintStep(as, a)
    BY <2>2, <2>4 DEF a
  <2> QED
    BY <2>4, <2>7, <2>9, <2>10, Zenon DEF SamePrint
<1> QED
  BY <1>1, ReadingInv, PTL

=============================================================================
