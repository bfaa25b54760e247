---------------------------- MODULE LadderProofs ----------------------------
(***************************************************************************)
(* The cached best tick of a Ladder is right for every band and every      *)
(* sequence of levels filling and emptying.  The inductive invariant adds  *)
(* to BestIsBest and ScanSkipsNothing that no bit beyond the band is ever  *)
(* set, that scan_worse only holds bits of the word it stands at, and that *)
(* while on_empty scans, every occupied tick is worse than the one emptied.*)
(***************************************************************************)
EXTENDS Ladder, TLAPS, WellFoundedInduction, FiniteSetTheorems

bitIdx(p) == (p - lo_) % 64
wordOf(p) == (p - lo_) \div 64

\* A tick of the band has a word and a bit, and is the price of that pair.
LEMMA BandFacts ==
    ASSUME NEW p \in Band
    PROVE  /\ p \in Int /\ p # kNoPrice
           /\ wordOf(p) \in WordIdx /\ bitIdx(p) \in Bit
           /\ p = price(wordOf(p), bitIdx(p))
  BY BandAssumption DEF Band, kNoPrice, wordOf, bitIdx, WordIdx, NWords, Bit, price

\* ... and the price of a pair has that word and that bit.
LEMMA PriceFacts ==
    ASSUME NEW v \in WordIdx, NEW b \in Bit
    PROVE  price(v, b) \in Int /\ wordOf(price(v, b)) = v /\ bitIdx(price(v, b)) = b
  BY BandAssumption DEF WordIdx, NWords, Bit, price, wordOf, bitIdx

\* Prices compare as their words, and within a word as their bits.
LEMMA PriceOrder ==
    ASSUME NEW p \in Band, NEW q \in Band
    PROVE  p < q <=> \/ wordOf(p) < wordOf(q)
                     \/ wordOf(p) = wordOf(q) /\ bitIdx(p) < bitIdx(q)
  BY BandAssumption DEF Band, wordOf, bitIdx

\* A nonempty set of naturals has a least element.
LEMMA NatMin ==
    ASSUME NEW T \in SUBSET Nat, T # {}
    PROVE  \E x \in T : \A y \in T : x <= y
<1> DEFINE R == OpToRel(<, Nat)
<1>1. \A x, y \in Nat : y < x => <<y, x>> \in R
  BY DEF OpToRel
<1>2. IsWellFoundedOn(R, Nat)
  BY NatLessThanWellFounded
<1> HIDE DEF R
<1>3. PICK x \in T : \A y \in T : ~(<<y, x>> \in R)
  BY <1>2, WFMin
<1>4. \A y \in T : ~(y < x) /\ y \in Nat /\ x \in Nat
  BY <1>1, <1>3
<1> QED
  BY <1>4

\* The nearest bit is in the word and no other bit of it is nearer.
LEMMA Nearest ==
    ASSUME word \subseteq Bit, word # {}, side \in {"Bid", "Ask"}
    PROVE  nearest \in word /\ \A b \in word : IF side = "Bid" THEN b <= nearest ELSE nearest <= b
<1>1. word \subseteq Nat
  BY DEF Bit
<1>2. \E x \in word : \A y \in word : x <= y
  BY <1>1, NatMin
<1>3. \E x \in word : \A y \in word : x >= y
  <2> DEFINE D == {63 - b : b \in word}
  <2>1. \A b \in word : 63 - b \in Nat
    BY DEF Bit
  <2>2. D \in SUBSET Nat /\ D # {}
    BY <2>1
  <2>3. PICK d \in D : \A e \in D : d <= e
    BY <2>2, NatMin
  <2>4. PICK x \in word : d = 63 - x
    OBVIOUS
  <2>5. \A y \in word : 63 - x <= 63 - y
    BY <2>3, <2>4
  <2> QED
    BY <2>5, <1>1
<1>4. Min(word) \in word /\ \A y \in word : Min(word) <= y
  BY <1>2 DEF Min
<1>5. Max(word) \in word /\ \A y \in word : Max(word) >= y
  BY <1>3 DEF Max
<1> QED
  BY <1>1, <1>4, <1>5 DEF nearest

\* The mask holds exactly the bits on the worse side of b, at both ends of the
\* word too.
LEMMA WorseMask ==
    ASSUME side \in {"Bid", "Ask"}, NEW b \in Bit, NEW c \in Bit
    PROVE  c \in worse_mask(b) <=> IF side = "Bid" THEN c < b ELSE c > b
  BY DEF worse_mask, ones_shr, ones_shl, Bit

-----------------------------------------------------------------------------
BitsInBand == \A v \in WordIdx : \A b \in words[v] : price(v, b) \in Band
WordIsHere == pc = "scan" => word \subseteq words[w]
OldBestGone == pc = "scan" /\ caller = "best" => \A p \in occupied : better(from, p)

IInv ==
    TypeOK /\ BitsInBand /\ WordIsHere /\ OldBestGone /\ BestIsBest /\ ScanSkipsNothing

\* A tick is occupied when its bit is set.
LEMMA Occupied ==
    ASSUME NEW p
    PROVE  p \in occupied <=> p \in Band /\ bitIdx(p) \in words[wordOf(p)]
  BY DEF occupied, bit_set, bitIdx, wordOf

\* The empty ladder satisfies the invariant.
LEMMA InitIInv == Init => IInv
<1> SUFFICES ASSUME Init PROVE IInv
  OBVIOUS
<1>1. 0 \in WordIdx /\ lo_ \in Band
  BY BandAssumption DEF WordIdx, NWords, Band
<1>2. occupied = {}
  BY BandFacts, Occupied DEF Init
<1>3. TypeOK
  BY <1>1 DEF Init, TypeOK, Bit
<1> QED
  BY <1>2, <1>3 DEF Init, IInv, BitsInBand, WordIsHere, OldBestGone, BestIsBest, is_best,
     ScanSkipsNothing

\* Setting or clearing the bit of p changes the set of occupied ticks by p.
LEMMA BitAdded ==
    ASSUME TypeOK, BitsInBand, NEW p \in Band,
           words' = [words EXCEPT ![wordOf(p)] = @ \cup {bitIdx(p)}]
    PROVE  /\ occupied' = occupied \cup {p} /\ BitsInBand' /\ words' \in [WordIdx -> SUBSET Bit]
<1>1. wordOf(p) \in WordIdx /\ bitIdx(p) \in Bit /\ p = price(wordOf(p), bitIdx(p))
  BY BandFacts
<1>2. words' \in [WordIdx -> SUBSET Bit]
  BY <1>1 DEF TypeOK
<1>3. \A v \in WordIdx : words'[v] = IF v = wordOf(p) THEN words[v] \cup {bitIdx(p)} ELSE words[v]
  BY <1>1 DEF TypeOK
<1>4. \A q \in Band : q \in occupied' <=> q \in occupied \/ q = p
  <2> TAKE q \in Band
  <2>1. wordOf(q) \in WordIdx /\ q = price(wordOf(q), bitIdx(q))
    BY BandFacts
  <2>2. q \in occupied' <=> bitIdx(q) \in words'[wordOf(q)]
    BY DEF occupied, bit_set, bitIdx, wordOf
  <2>3. q \in occupied <=> bitIdx(q) \in words[wordOf(q)]
    BY Occupied
  <2> QED
    BY <1>1, <1>3, <2>1, <2>2, <2>3
<1>5. BitsInBand'
  BY <1>1, <1>3 DEF BitsInBand, price
<1> QED
  BY <1>2, <1>4, <1>5 DEF occupied

\* Clearing the bit of p removes p from the occupied ticks.
LEMMA BitCleared ==
    ASSUME TypeOK, BitsInBand, NEW p \in Band,
           words' = [words EXCEPT ![wordOf(p)] = @ \ {bitIdx(p)}]
    PROVE  /\ occupied' = occupied \ {p} /\ BitsInBand' /\ words' \in [WordIdx -> SUBSET Bit]
<1>1. wordOf(p) \in WordIdx /\ bitIdx(p) \in Bit /\ p = price(wordOf(p), bitIdx(p))
  BY BandFacts
<1>2. words' \in [WordIdx -> SUBSET Bit]
  BY <1>1 DEF TypeOK
<1>3. \A v \in WordIdx : words'[v] = IF v = wordOf(p) THEN words[v] \ {bitIdx(p)} ELSE words[v]
  BY <1>1 DEF TypeOK
<1>4. \A q \in Band : q \in occupied' <=> q \in occupied /\ q # p
  <2> TAKE q \in Band
  <2>1. wordOf(q) \in WordIdx /\ q = price(wordOf(q), bitIdx(q))
    BY BandFacts
  <2>2. q \in occupied' <=> bitIdx(q) \in words'[wordOf(q)]
    BY DEF occupied, bit_set, bitIdx, wordOf
  <2>3. q \in occupied <=> bitIdx(q) \in words[wordOf(q)]
    BY Occupied
  <2> QED
    BY <1>1, <1>3, <2>1, <2>2, <2>3
<1>5. BitsInBand'
  BY <1>1, <1>3 DEF BitsInBand, price
<1> QED
  BY <1>2, <1>4, <1>5 DEF occupied

\* Entering scan_worse at p.
LEMMA EnterScan ==
    ASSUME TypeOK, NEW p \in Band, NEW who \in {"best", "top"}, words' \in [WordIdx -> SUBSET Bit],
           BitsInBand', side' = side, enter_scan(p, words', who)
    PROVE  /\ pc' = "scan" /\ caller' = who /\ from' = p
           /\ w' \in WordIdx /\ word' \subseteq Bit /\ WordIsHere' /\ ScanSkipsNothing'
<1>1. /\ wordOf(p) \in WordIdx /\ bitIdx(p) \in Bit
      /\ w' = wordOf(p) /\ word' = words'[wordOf(p)] \cap worse_mask(bitIdx(p))
      /\ pc' = "scan" /\ caller' = who /\ from' = p
  BY BandFacts DEF enter_scan, wordOf, bitIdx
<1>2. word' \subseteq Bit /\ WordIsHere'
  BY <1>1 DEF WordIsHere
<1>3. ScanSkipsNothing'
  <2> SUFFICES ASSUME NEW q \in occupied'
               PROVE  better(p, q)' <=> \/ wordOf(q) = w' /\ bitIdx(q) \in word'
                                        \/ IF side = "Bid" THEN wordOf(q) < w' ELSE wordOf(q) > w'
    BY <1>1 DEF ScanSkipsNothing, better, wordOf, bitIdx
  <2>1. q \in Band /\ bitIdx(q) \in words'[wordOf(q)]
    BY DEF occupied, bit_set, bitIdx, wordOf
  <2>2. wordOf(q) \in WordIdx /\ bitIdx(q) \in Bit
    BY <2>1, BandFacts
  <2>3. bitIdx(q) \in worse_mask(bitIdx(p)) <=>
            IF side = "Bid" THEN bitIdx(q) < bitIdx(p) ELSE bitIdx(q) > bitIdx(p)
    BY <1>1, <2>2, WorseMask DEF TypeOK
  <2>4. /\ p < q <=> wordOf(p) < wordOf(q) \/ (wordOf(p) = wordOf(q) /\ bitIdx(p) < bitIdx(q))
        /\ q < p <=> wordOf(q) < wordOf(p) \/ (wordOf(p) = wordOf(q) /\ bitIdx(q) < bitIdx(p))
    BY <2>1, PriceOrder
  <2>5. better(p, q)' <=> IF side = "Bid" THEN p > q ELSE p < q
    BY DEF better
  <2>6. p \in Int /\ q \in Int /\ wordOf(p) \in Int /\ wordOf(q) \in Int
          /\ bitIdx(p) \in Int /\ bitIdx(q) \in Int
    <3>1. p \in Int /\ q \in Int
      BY <2>1, BandFacts
    <3>2. WordIdx \subseteq Int /\ Bit \subseteq Int
      BY DEF WordIdx, Bit
    <3> QED
      BY <1>1, <2>2, <3>1, <3>2
  <2> QED
    BY <1>1, <2>1, <2>3, <2>4, <2>5, <2>6
<1> QED
  BY <1>1, <1>2, <1>3

\* on_nonempty preserves the invariant.
LEMMA Step_on_nonempty ==
    ASSUME IInv, NEW p \in Ticks, on_nonempty(p)
    PROVE  IInv'
<1>1. p \in Band
  BY TicksAssumption
<1>2. /\ pc = "idle" /\ words' = [words EXCEPT ![wordOf(p)] = @ \cup {bitIdx(p)}]
      /\ best_' = IF best_ = kNoPrice \/ better(p, best_) THEN p ELSE best_
      /\ UNCHANGED <<side, pc, caller, from, w, word, n, px, out>>
  BY DEF on_nonempty, wordOf, bitIdx
<1>3. occupied' = occupied \cup {p} /\ BitsInBand' /\ words' \in [WordIdx -> SUBSET Bit]
  BY <1>1, <1>2, BitAdded DEF IInv
<1>4. TypeOK'
  BY <1>1, <1>2, <1>3 DEF IInv, TypeOK
<1>5. BestIsBest'
  <2>1. is_best(best_, occupied) /\ side \in {"Bid", "Ask"}
    BY <1>2 DEF IInv, BestIsBest, TypeOK
  <2>2. \A q \in occupied \cup {p} : q \in Int /\ q # kNoPrice
    BY <1>1, BandFacts DEF occupied
  <2>3. is_best(best_, occupied)'
    BY <1>2, <1>3, <2>1, <2>2 DEF is_best, better
  <2> QED
    BY <2>3 DEF BestIsBest
<1> QED
  BY <1>2, <1>3, <1>4, <1>5 DEF IInv, WordIsHere, OldBestGone, ScanSkipsNothing

\* on_empty preserves the invariant, with or without a scan.
LEMMA Step_on_empty ==
    ASSUME IInv, NEW p \in Ticks, on_empty(p)
    PROVE  IInv'
<1>1. p \in Band
  BY TicksAssumption
<1>2. /\ pc = "idle" /\ p \in occupied
      /\ words' = [words EXCEPT ![wordOf(p)] = @ \ {bitIdx(p)}]
      /\ UNCHANGED <<side, best_, n, px, out>>
  BY <1>1 DEF on_empty, wordOf, bitIdx, occupied
<1>3. occupied' = occupied \ {p} /\ BitsInBand' /\ words' \in [WordIdx -> SUBSET Bit]
  BY <1>1, <1>2, BitCleared DEF IInv
<1>4. is_best(best_, occupied) /\ side \in {"Bid", "Ask"}
  BY <1>2 DEF IInv, BestIsBest, TypeOK
<1>5. \A q \in occupied : q \in Int /\ q # kNoPrice
  BY BandFacts DEF occupied
<1>6. CASE best_ = p
  <2>1. enter_scan(p, words', "best")
    BY <1>6 DEF on_empty
  <2>2. /\ pc' = "scan" /\ caller' = "best" /\ from' = p
        /\ w' \in WordIdx /\ word' \subseteq Bit /\ WordIsHere' /\ ScanSkipsNothing'
    BY <1>1, <1>2, <1>3, <2>1, EnterScan DEF IInv
  <2>3. OldBestGone'
    BY <1>2, <1>3, <1>4, <1>5, <1>6, <2>2 DEF OldBestGone, is_best, better
  <2>4. TypeOK'
    BY <1>1, <1>2, <1>3, <2>2 DEF IInv, TypeOK
  <2> QED
    BY <1>3, <2>2, <2>3, <2>4 DEF IInv, BestIsBest
<1>7. CASE best_ # p
  <2>1. UNCHANGED <<pc, caller, from, w, word>>
    BY <1>7 DEF on_empty
  <2>2. is_best(best_, occupied)'
    BY <1>2, <1>3, <1>4, <1>5, <1>7 DEF is_best, better
  <2>3. TypeOK'
    BY <1>2, <1>3, <2>1 DEF IInv, TypeOK
  <2> QED
    BY <1>2, <1>3, <2>1, <2>2, <2>3
    DEF IInv, BestIsBest, WordIsHere, OldBestGone, ScanSkipsNothing
<1> QED
  BY <1>6, <1>7

\* What scan_worse returns is the best of the occupied ticks worse than from.
LEMMA ScanResult ==
    ASSUME IInv, pc = "scan", NEW r,
           \/ word # {} /\ r = price(w, nearest)
           \/ word = {} /\ last_word /\ r = kNoPrice
    PROVE  is_best(r, {q \in occupied : better(from, q)})
<1>1. side \in {"Bid", "Ask"} /\ w \in WordIdx /\ word \subseteq Bit /\ from \in Band
  BY DEF IInv, TypeOK
<1> DEFINE W == {q \in occupied : better(from, q)}
<1>2. ASSUME NEW q \in W
      PROVE  /\ q \in Band /\ wordOf(q) \in WordIdx /\ bitIdx(q) \in Bit
             /\ \/ wordOf(q) = w /\ bitIdx(q) \in word
                \/ IF side = "Bid" THEN wordOf(q) < w ELSE wordOf(q) > w
  BY BandFacts DEF IInv, ScanSkipsNothing, occupied, wordOf, bitIdx
<1>3. is_best(r, W)
  <2>1. CASE word # {} /\ r = price(w, nearest)
    <3>1. nearest \in word /\ \A b \in word : IF side = "Bid" THEN b <= nearest ELSE nearest <= b
      BY <1>1, <2>1, Nearest
    <3>2. nearest \in words[w] /\ nearest \in Bit
      BY <1>1, <3>1 DEF IInv, WordIsHere
    <3>3. r \in Band /\ wordOf(r) = w /\ bitIdx(r) = nearest
      BY <1>1, <2>1, <3>2, PriceFacts DEF IInv, BitsInBand
    <3>4. r \in W
      <4>1. r \in occupied
        BY <3>2, <3>3, Occupied
      <4> QED
        BY <3>1, <3>3, <4>1 DEF IInv, ScanSkipsNothing, wordOf, bitIdx
    <3>5. ASSUME NEW q \in W PROVE ~better(q, r)
      <4>1. /\ r < q <=> wordOf(r) < wordOf(q) \/ (wordOf(r) = wordOf(q) /\ bitIdx(r) < bitIdx(q))
            /\ q < r <=> wordOf(q) < wordOf(r) \/ (wordOf(q) = wordOf(r) /\ bitIdx(q) < bitIdx(r))
        BY <1>2, <3>3, <3>5, PriceOrder
      <4>2. q \in Int /\ r \in Int /\ wordOf(q) \in Int /\ bitIdx(q) \in Int
              /\ w \in Int /\ nearest \in Int
        BY <1>1, <1>2, <3>2, <3>3, <3>5, BandFacts DEF WordIdx, Bit
      <4> QED
        BY <1>1, <1>2, <3>1, <3>3, <3>5, <4>1, <4>2 DEF better
    <3> QED
      BY <3>4, <3>5 DEF is_best
  <2>2. CASE word = {} /\ last_word /\ r = kNoPrice
    <3>1. \A q \in W : FALSE
      BY <1>1, <1>2, <2>2, BandAssumption DEF last_word, WordIdx, NWords
    <3> QED
      BY <2>2, <3>1 DEF is_best
  <2> QED
    BY <2>1, <2>2
<1> QED
  BY <1>3

\* The return of scan_worse preserves the invariant.
LEMMA ScanReturns ==
    ASSUME IInv, pc = "scan", NEW r,
           \/ word # {} /\ r = price(w, nearest)
           \/ word = {} /\ last_word /\ r = kNoPrice,
           scan_returns(r)
    PROVE  IInv'
<1>1. /\ UNCHANGED <<side, words, n, out>> /\ pc' \in {"idle", "top"}
      /\ caller' = "best" /\ from' = lo_ /\ w' = 0 /\ word' = {}
      /\ IF caller = "best" THEN best_' = r /\ px' = px ELSE px' = r /\ best_' = best_
  BY DEF scan_returns
<1>2. occupied' = occupied /\ BitsInBand'
  BY <1>1 DEF occupied, bit_set, IInv, BitsInBand, price
<1>3. side \in {"Bid", "Ask"} /\ w \in WordIdx /\ word \subseteq Bit /\ from \in Band
  BY DEF IInv, TypeOK
<1> DEFINE W == {q \in occupied : better(from, q)}
<1>4. is_best(r, W)
  BY ScanResult
<1>5. r \in Band \cup {kNoPrice}
  BY <1>4 DEF is_best, occupied
<1>6. TypeOK'
  <2>1. 0 \in WordIdx /\ lo_ \in Band
    BY BandAssumption DEF WordIdx, NWords, Band
  <2> QED
    BY <1>1, <1>5, <2>1 DEF IInv, TypeOK
<1>7. BestIsBest'
  <2>1. CASE caller = "best"
    <3>1. W = occupied
      BY <2>1 DEF IInv, OldBestGone
    <3> QED
      BY <1>1, <1>2, <1>4, <2>1, <3>1 DEF BestIsBest, is_best, better
  <2>2. CASE caller # "best"
    BY <1>1, <1>2, <2>2 DEF IInv, BestIsBest, is_best, better
  <2> QED
    BY <2>1, <2>2
<1> QED
  BY <1>1, <1>2, <1>6, <1>7 DEF IInv, WordIsHere, OldBestGone, ScanSkipsNothing

\* Moving on to the next word preserves the invariant: the word left behind
\* held nothing of interest.
LEMMA Step_ScanNext == IInv /\ ScanNext => IInv'
<1> SUFFICES ASSUME IInv, ScanNext PROVE IInv'
  OBVIOUS
<1>1. /\ pc = "scan" /\ word = {} /\ ~last_word /\ w' = next_word /\ word' = words[w']
      /\ UNCHANGED <<side, words, best_, pc, caller, from, n, px, out>>
  BY DEF ScanNext
<1>2. side \in {"Bid", "Ask"} /\ w \in WordIdx
  BY DEF IInv, TypeOK
<1>3. w' \in WordIdx /\ (w' = IF side = "Bid" THEN w - 1 ELSE w + 1) /\ w \in Int
  BY <1>1, <1>2, BandAssumption DEF last_word, next_word, WordIdx, NWords
<1>4. TypeOK' /\ WordIsHere'
  BY <1>1, <1>3 DEF IInv, TypeOK, WordIsHere
<1>5. occupied' = occupied /\ BitsInBand'
  BY <1>1 DEF occupied, bit_set, IInv, BitsInBand, price
<1>6. OldBestGone' /\ BestIsBest'
  BY <1>1, <1>5 DEF IInv, OldBestGone, BestIsBest, is_best, better
<1>7. ScanSkipsNothing'
  <2> SUFFICES ASSUME NEW q \in occupied
               PROVE  better(from, q) <=> \/ wordOf(q) = w' /\ bitIdx(q) \in word'
                                          \/ IF side = "Bid" THEN wordOf(q) < w' ELSE wordOf(q) > w'
    BY <1>1, <1>5 DEF ScanSkipsNothing, better, wordOf, bitIdx
  <2>1. better(from, q) <=> IF side = "Bid" THEN wordOf(q) < w ELSE wordOf(q) > w
    BY <1>1 DEF IInv, ScanSkipsNothing, wordOf, bitIdx
  <2>2. wordOf(q) \in Int /\ bitIdx(q) \in words[wordOf(q)]
    BY Occupied, BandFacts DEF WordIdx
  <2> QED
    BY <1>1, <1>2, <1>3, <2>1, <2>2
<1> QED
  BY <1>4, <1>5, <1>6, <1>7 DEF IInv

\* top_levels preserves the invariant.
LEMMA Step_top ==
    ASSUME IInv, (\E k \in 0 .. MaxTop : top_levels(k)) \/ TopStep \/ TopReturns \/ TopTold
    PROVE  IInv'
<1>1. UNCHANGED <<side, words, best_>> /\ pc # "scan"
  BY DEF top_levels, TopStep, TopReturns, TopTold
<1>2. occupied' = occupied /\ BitsInBand'
  BY <1>1 DEF occupied, bit_set, IInv, BitsInBand, price
<1>3. BestIsBest'
  BY <1>1, <1>2 DEF IInv, BestIsBest, is_best, better
<1>4. CASE TopStep
  <2>1. px \in Band /\ enter_scan(px, words, "top") /\ out' \in Seq(Band)
    BY <1>4 DEF TopStep, top_more, IInv, TypeOK
  <2>2. PICK p \in Band : p = px
    BY <2>1
  <2>3. /\ pc' = "scan" /\ caller' = "top" /\ from' = p
        /\ w' \in WordIdx /\ word' \subseteq Bit /\ WordIsHere' /\ ScanSkipsNothing'
    <3>1. words' \in [WordIdx -> SUBSET Bit] /\ enter_scan(p, words', "top")
      BY <1>1, <2>1, <2>2 DEF IInv, TypeOK
    <3> QED
      BY <1>1, <1>2, <3>1, EnterScan DEF IInv
  <2>4. TypeOK'
    BY <1>1, <1>4, <2>1, <2>2, <2>3 DEF TopStep, IInv, TypeOK
  <2> QED
    BY <1>2, <1>3, <2>3, <2>4 DEF IInv, OldBestGone
<1>5. CASE (\E k \in 0 .. MaxTop : top_levels(k)) \/ TopReturns \/ TopTold
  <2>1. pc' # "scan" /\ UNCHANGED <<caller, from, w, word>>
    BY <1>5 DEF top_levels, TopReturns, TopTold
  <2>2. n' \in Nat /\ px' \in Band \cup {kNoPrice} /\ out' \in Seq(Band)
          /\ pc' \in {"idle", "top", "told"}
    <3>1. CASE TopReturns
      BY <3>1 DEF TopReturns, IInv, TypeOK
    <3>2. CASE TopTold
      BY <3>2 DEF TopTold
    <3>3. ASSUME NEW k \in 0 .. MaxTop, top_levels(k)
          PROVE  n' \in Nat /\ px' \in Band \cup {kNoPrice} /\ out' \in Seq(Band)
                   /\ pc' \in {"idle", "top", "told"}
      <4>1. k \in Nat /\ best_ \in Band \cup {kNoPrice}
        BY TopAssumption DEF IInv, TypeOK
      <4>2. n' = k /\ px' = best_ /\ out' = << >> /\ pc' = "top"
        BY <3>3 DEF top_levels
      <4> QED
        BY <4>1, <4>2
    <3> QED
      BY <1>5, <3>1, <3>2, <3>3
  <2>3. TypeOK'
    BY <1>1, <2>1, <2>2 DEF IInv, TypeOK
  <2> QED
    BY <1>2, <1>3, <2>1, <2>3 DEF IInv, WordIsHere, OldBestGone, ScanSkipsNothing
<1> QED
  BY <1>4, <1>5

\* Every step of the ladder preserves the invariant.
LEMMA Inductive == IInv /\ [Next]_vars => IInv'
<1> SUFFICES ASSUME IInv, [Next]_vars PROVE IInv'
  OBVIOUS
<1>1. CASE ScanHit \/ ScanMiss
  BY <1>1, ScanReturns DEF ScanHit, ScanMiss
<1>2. CASE UNCHANGED vars
  <2>1. occupied' = occupied
    BY <1>2 DEF vars, occupied, bit_set
  <2> QED
    BY <1>2, <2>1 DEF vars, IInv, TypeOK, BitsInBand, price, WordIsHere, OldBestGone, BestIsBest,
       is_best, better, ScanSkipsNothing
<1> QED
  BY <1>1, <1>2, Step_on_nonempty, Step_on_empty, Step_ScanNext, Step_top DEF Next, Step

\* The invariant holds in every reachable state.
LEMMA Invariance == Spec => []IInv
  BY InitIInv, Inductive, PTL DEF Spec

\* The scan never reads outside words_ and nothing leaves its type.
THEOREM LadderTypes == Spec => []TypeOK
<1>1. IInv => TypeOK
  BY DEF IInv
<1> QED
  BY <1>1, Invariance, PTL

\* The cached best tick is the best occupied tick, for every band.
THEOREM CachedBestCorrect == Spec => []BestIsBest
<1>1. IInv => BestIsBest
  BY DEF IInv
<1> QED
  BY <1>1, Invariance, PTL

\* scan_worse overlooks no occupied tick and returns none that is not worse.
THEOREM ScanCorrect == Spec => []ScanSkipsNothing
<1>1. IInv => ScanSkipsNothing
  BY DEF IInv
<1> QED
  BY <1>1, Invariance, PTL

-----------------------------------------------------------------------------
told(o) == {o[j] : j \in DOMAIN o}

\* What top_levels has written while it runs: as many prices as it has
\* entries, each the best of what its predecessors left; and everything not yet
\* written is worse than all of it, which is where the scan looks.
TopSound ==
    \/ pc = "idle"
    \/ pc = "scan" /\ caller = "best"
    \/ /\ Len(out) <= n /\ Len(out) = Cardinality(told(out)) /\ told(out) \subseteq occupied
       /\ \A i \in DOMAIN out : is_best(out[i], occupied \ {out[j] : j \in 1 .. (i - 1)})
       /\ pc = "scan" => \A q \in occupied : better(from, q) <=> q \notin told(out)
       /\ pc # "scan" => is_best(px, occupied \ told(out))
       /\ pc = "told" => ~top_more

\* The prices written before and after an entry is added.
LEMMA ToldAppend ==
    ASSUME NEW o \in Seq(Band), NEW p \in Band
    PROVE  /\ told(Append(o, p)) = told(o) \cup {p}
           /\ Len(Append(o, p)) = Len(o) + 1
           /\ \A i \in DOMAIN o : Append(o, p)[i] = o[i]
           /\ Append(o, p)[Len(o) + 1] = p
           /\ \A i \in 1 .. (Len(o) + 1) :
                 {Append(o, p)[j] : j \in 1 .. (i - 1)} = {o[j] : j \in 1 .. (i - 1)}
           /\ told(o) = {o[j] : j \in 1 .. Len(o)}
<1>1. /\ DOMAIN o = 1 .. Len(o) /\ Len(o) \in Nat /\ DOMAIN Append(o, p) = 1 .. (Len(o) + 1)
      /\ Len(Append(o, p)) = Len(o) + 1
      /\ \A i \in 1 .. Len(o) : Append(o, p)[i] = o[i]
      /\ Append(o, p)[Len(o) + 1] = p
  OBVIOUS
<1>2. told(Append(o, p)) = told(o) \cup {p}
  <2>1. \A i \in 1 .. (Len(o) + 1) : i \in 1 .. Len(o) \/ i = Len(o) + 1
    BY <1>1
  <2>2. \A i \in 1 .. Len(o) : i \in 1 .. (Len(o) + 1)
    BY <1>1
  <2>3. Len(o) + 1 \in 1 .. (Len(o) + 1)
    BY <1>1
  <2> QED
    BY <1>1, <2>1, <2>2, <2>3 DEF told
<1>3. \A i \in 1 .. (Len(o) + 1) : \A j \in 1 .. (i - 1) : j \in 1 .. Len(o)
  BY <1>1
<1> QED
  BY <1>1, <1>2, <1>3 DEF told

\* The band is finite, and so is what is occupied of it.
LEMMA OccupiedFinite ==
    ASSUME NEW S \in SUBSET occupied
    PROVE  IsFiniteSet(S) /\ IsFiniteSet(occupied)
<1>1. IsFiniteSet(Band)
  BY FS_Interval, BandAssumption DEF Band
<1>2. occupied \subseteq Band
  BY DEF occupied
<1> QED
  BY <1>1, <1>2, FS_Subset

\* A step of top_levels writes the best price not yet written.
LEMMA TopStepSound ==
    ASSUME IInv, IInv', TopSound, TopStep
    PROVE  TopSound'
<1>1. /\ pc = "top" /\ px # kNoPrice /\ Len(out) < n /\ out' = Append(out, px)
      /\ pc' = "scan" /\ caller' = "top" /\ from' = px
      /\ UNCHANGED <<side, words, best_, n, px>>
  BY DEF TopStep, top_more, enter_scan
<1>2. occupied' = occupied
  BY <1>1 DEF occupied, bit_set
<1>3. /\ Len(out) <= n /\ Len(out) = Cardinality(told(out)) /\ told(out) \subseteq occupied
      /\ \A i \in DOMAIN out : is_best(out[i], occupied \ {out[j] : j \in 1 .. (i - 1)})
      /\ is_best(px, occupied \ told(out))
  BY <1>1 DEF TopSound
<1>4. px \in Band /\ out \in Seq(Band) /\ n \in Nat /\ side \in {"Bid", "Ask"}
  BY <1>1 DEF IInv, TypeOK
<1> DEFINE o == Append(out, px)
<1>5. /\ told(o) = told(out) \cup {px} /\ Len(o) = Len(out) + 1
      /\ \A i \in DOMAIN out : o[i] = out[i]
      /\ o[Len(out) + 1] = px
      /\ \A i \in 1 .. (Len(out) + 1) : {o[j] : j \in 1 .. (i - 1)} = {out[j] : j \in 1 .. (i - 1)}
      /\ told(out) = {out[j] : j \in 1 .. Len(out)}
  <2>1. PICK a \in Seq(Band), b \in Band : a = out /\ b = px
    BY <1>4
  <2> QED
    BY <2>1, ToldAppend
<1>6. Len(out) \in Nat /\ DOMAIN out = 1 .. Len(out) /\ DOMAIN o = 1 .. (Len(out) + 1)
  BY <1>4
<1> HIDE DEF o
<1>7. px \in occupied /\ px \notin told(out) /\ \A q \in occupied \ told(out) : ~better(q, px)
  BY <1>1, <1>3 DEF is_best
<1>8. Len(o) <= n /\ Len(o) = Cardinality(told(o)) /\ told(o) \subseteq occupied
  <2>1. IsFiniteSet(told(out))
    <3>1. PICK S \in SUBSET occupied : S = told(out)
      BY <1>3
    <3> QED
      BY <3>1, OccupiedFinite
  <2>2. Cardinality(told(out) \cup {px}) = Cardinality(told(out)) + 1
    BY <1>7, <2>1, FS_AddElement
  <2>3. Len(o) <= n
    BY <1>1, <1>4, <1>5, <1>6
  <2>4. Len(o) = Cardinality(told(o))
    BY <1>3, <1>5, <2>2
  <2> QED
    BY <1>3, <1>5, <1>7, <2>3, <2>4
<1>9. \A i \in DOMAIN o : is_best(o[i], occupied \ {o[j] : j \in 1 .. (i - 1)})
  <2> SUFFICES ASSUME NEW i \in 1 .. (Len(out) + 1)
               PROVE  is_best(o[i], occupied \ {out[j] : j \in 1 .. (i - 1)})
    BY <1>5, <1>6
  <2>1. CASE i \in 1 .. Len(out)
    BY <1>3, <1>5, <1>6, <2>1
  <2>2. CASE i = Len(out) + 1
    <3>1. {out[j] : j \in 1 .. (i - 1)} = told(out)
      BY <1>5, <1>6, <2>2
    <3> QED
      BY <1>3, <1>5, <2>2, <3>1
  <2>3. i \in 1 .. Len(out) \/ i = Len(out) + 1
    BY <1>6
  <2> QED
    BY <2>1, <2>2, <2>3
<1>10. \A q \in occupied : better(px, q) <=> q \notin told(o)
  <2>1. \A q \in occupied : q \in Int /\ px \in Int
    BY <1>7, BandFacts DEF occupied
  <2>2. ASSUME NEW q \in told(out) PROVE ~better(px, q)
    <3>1. PICK i \in DOMAIN out : q = out[i]
      BY DEF told
    <3>2. {out[j] : j \in 1 .. (i - 1)} \subseteq told(out)
      <4>1. \A j \in 1 .. (i - 1) : j \in 1 .. Len(out)
        BY <1>6
      <4> QED
        BY <1>5, <4>1
    <3> QED
      BY <1>3, <1>7, <3>1, <3>2 DEF is_best
  <2>3. ASSUME NEW q \in occupied, q \notin told(out), q # px PROVE better(px, q)
    BY <1>4, <1>7, <2>1, <2>3 DEF better
  <2>4. ~better(px, px)
    BY <1>7, <2>1 DEF better
  <2> QED
    BY <1>5, <2>2, <2>3, <2>4
<1>11. out' = o
  BY <1>1 DEF o
<1>12. (\A i \in DOMAIN out : is_best(out[i], occupied \ {out[j] : j \in 1 .. (i - 1)}))'
  BY <1>1, <1>2, <1>9, <1>11 DEF is_best, better
<1>13. (\A q \in occupied : better(from, q) <=> q \notin told(out))'
  BY <1>1, <1>2, <1>10, <1>11 DEF better, told
<1>14. told(out)' = told(o)
  BY <1>11 DEF told
<1>15. (Len(out) <= n /\ Len(out) = Cardinality(told(out)) /\ told(out) \subseteq occupied)'
  BY <1>1, <1>2, <1>8, <1>11, <1>14
<1> QED
  BY <1>1, <1>12, <1>13, <1>15 DEF TopSound

\* What scan_worse hands back is the best price not yet written.
LEMMA TopScanSound ==
    ASSUME IInv, TopSound, ScanHit \/ ScanMiss
    PROVE  TopSound'
<1>1. PICK r : /\ \/ word # {} /\ r = price(w, nearest)
                  \/ word = {} /\ last_word /\ r = kNoPrice
               /\ scan_returns(r)
  BY DEF ScanHit, ScanMiss
<1>2. pc = "scan"
  BY DEF ScanHit, ScanMiss
<1>3. is_best(r, {q \in occupied : better(from, q)})
  BY <1>1, <1>2, ScanResult
<1>4. UNCHANGED <<side, words, n, out>>
  BY <1>1 DEF scan_returns
<1>5. occupied' = occupied
  BY <1>4 DEF occupied, bit_set
<1>6. CASE caller = "best"
  BY <1>1, <1>6 DEF scan_returns, TopSound
<1>7. CASE caller # "best"
  <2>1. px' = r /\ pc' = "top"
    BY <1>1, <1>7 DEF scan_returns
  <2>2. {q \in occupied : better(from, q)} = occupied \ told(out)
    BY <1>2, <1>7 DEF TopSound
  <2>3. is_best(px, occupied \ told(out))'
    BY <1>3, <1>4, <1>5, <2>1, <2>2 DEF is_best, better, told
  <2>4. \A i \in DOMAIN out : is_best(out[i], occupied \ {out[j] : j \in 1 .. (i - 1)})'
    BY <1>2, <1>4, <1>5, <1>7 DEF TopSound, is_best, better
  <2> QED
    BY <1>2, <1>4, <1>5, <1>7, <2>1, <2>3, <2>4 DEF TopSound, told
<1> QED
  BY <1>6, <1>7

\* Nothing else disturbs it.
LEMMA TopInductive == IInv /\ IInv' /\ TopSound /\ [Next]_vars => TopSound'
<1> SUFFICES ASSUME IInv, IInv', TopSound, [Next]_vars PROVE TopSound'
  OBVIOUS
<1>1. CASE \E p \in Ticks : on_nonempty(p) \/ on_empty(p)
  BY <1>1 DEF on_nonempty, on_empty, enter_scan, TopSound
<1>2. CASE \E k \in 0 .. MaxTop : top_levels(k)
  <2>1. PICK k \in 0 .. MaxTop : top_levels(k)
    BY <1>2
  <2>2. /\ pc = "idle" /\ pc' = "top" /\ n' = k /\ px' = best_ /\ out' = << >>
        /\ UNCHANGED <<side, words, best_>>
    BY <2>1 DEF top_levels
  <2>3. occupied' = occupied
    BY <2>2 DEF occupied, bit_set
  <2>4. told(out)' = {} /\ Len(out)' = 0 /\ n' \in Nat /\ DOMAIN out' = {}
    BY <2>2, TopAssumption DEF told
  <2>5. Cardinality({}) = 0
    BY FS_EmptySet
  <2>6. is_best(best_, occupied)
    BY <2>2 DEF IInv, BestIsBest
  <2>7. is_best(px, occupied \ told(out))'
    BY <2>2, <2>3, <2>4, <2>6 DEF is_best, better
  <2>8. (Len(out) <= n /\ Len(out) = Cardinality(told(out)) /\ told(out) \subseteq occupied)'
    BY <2>4, <2>5
  <2>9. (\A i \in DOMAIN out : is_best(out[i], occupied \ {out[j] : j \in 1 .. (i - 1)}))'
    BY <2>4
  <2> QED
    BY <2>2, <2>7, <2>8, <2>9 DEF TopSound
<1>3. CASE ScanHit \/ ScanMiss
  BY <1>3, TopScanSound
<1>4. CASE TopStep
  BY <1>4, TopStepSound
<1>5. CASE ScanNext \/ TopReturns \/ UNCHANGED vars
  <2>1. UNCHANGED <<side, words, caller, from, n, px, out>>
    BY <1>5 DEF ScanNext, TopReturns, vars
  <2>2. occupied' = occupied
    BY <2>1 DEF occupied, bit_set
  <2>3. pc' = pc \/ (pc = "top" /\ pc' = "told" /\ ~top_more)
    BY <1>5 DEF ScanNext, TopReturns, vars
  <2> QED
    BY <2>1, <2>2, <2>3 DEF TopSound, told, is_best, better, top_more
<1>6. CASE TopTold
  BY <1>6 DEF TopTold, TopSound
<1> QED
  BY <1>1, <1>2, <1>3, <1>4, <1>5, <1>6 DEF Next, Step

\* When top_levels returns it has written the n best occupied prices, or all
\* of them where there are fewer, best first: for every band and every n.
THEOREM TopLevelsCorrect == Spec => []TopLevelsExact
<1>1. Init => TopSound
  BY DEF Init, TopSound
<1>2. IInv /\ TopSound => TopLevelsExact
  <2> SUFFICES ASSUME IInv, TopSound, pc = "told" PROVE TopLevelsExact
    BY DEF TopLevelsExact
  <2>1. /\ Len(out) <= n /\ Len(out) = Cardinality(told(out)) /\ told(out) \subseteq occupied
        /\ is_best(px, occupied \ told(out)) /\ ~top_more
        /\ \A i \in DOMAIN out : is_best(out[i], occupied \ {out[j] : j \in 1 .. (i - 1)})
    BY DEF TopSound
  <2>2. Cardinality(told(out)) <= Cardinality(occupied) /\ Cardinality(occupied) \in Nat
    <3>1. IsFiniteSet(occupied)
      BY OccupiedFinite
    <3> QED
      BY <2>1, <3>1, FS_Subset, FS_CardinalityType
  <2>3. n \in Nat /\ Len(out) \in Nat
    BY DEF IInv, TypeOK
  <2>4. \A a, b \in Nat : a <= b => Min({a, b}) = a /\ Min({b, a}) = a
    BY DEF Min
  <2>5. CASE px = kNoPrice
    <3>1. kNoPrice \notin occupied
      BY BandFacts DEF occupied
    <3>2. told(out) = occupied
      BY <2>1, <2>5, <3>1 DEF is_best
    <3> QED
      BY <2>1, <2>2, <2>3, <2>4, <3>2 DEF TopLevelsExact
  <2>6. CASE px # kNoPrice
    <3>1. Len(out) = n
      BY <2>1, <2>3, <2>6 DEF top_more
    <3> QED
      BY <2>1, <2>2, <2>3, <2>4, <3>1 DEF TopLevelsExact
  <2> QED
    BY <2>5, <2>6
<1> QED
  BY <1>1, <1>2, Invariance, TopInductive, PTL DEF Spec
=============================================================================
