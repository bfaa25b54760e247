------------------------------- MODULE Ladder -------------------------------
(***************************************************************************)
(* OrderBookT::Ladder<S> at the level of its 64-bit words: the occupancy   *)
(* bitmap of the band [lo_, hi_), the cached best tick, and scan_worse,    *)
(* one action per word it reads.  A word is the set of its one bits.       *)
(* top_levels, which is built on scan_worse, is here too.  OrderBook uses  *)
(* the ladder through what is proved of it here: on_empty leaves in best_  *)
(* the best tick that is still occupied.                                   *)
(***************************************************************************)
EXTENDS Integers, Sequences, FiniteSetsExt

CONSTANTS
    lo_, hi_,   \* the band
    Ticks,      \* the prices at which orders come and go
    MaxTop      \* bound: the largest n top_levels is asked for

kNoPrice == 0
Band == lo_ .. (hi_ - 1)
Bit == 0 .. 63
\* words_.size()
NWords == (hi_ - lo_ + 63) \div 64
WordIdx == 0 .. (NWords - 1)

ASSUME BandAssumption == lo_ \in Nat /\ hi_ \in Nat /\ 1 <= lo_ /\ lo_ < hi_
ASSUME TicksAssumption == Ticks \subseteq Band
ASSUME TopAssumption == MaxTop \in Nat

VARIABLES
    side,   \* the template parameter S
    words,  \* words_
    best_,
    pc,     \* idle, scan (in scan_worse), top (in top_levels), told (it returned)
    caller, \* who called scan_worse: on_empty ("best") or top_levels ("top")
    from,   \* scan_worse: its argument
    w,      \*             the word index, and
    word,   \*             the bits of that word still in question
    n, px,  \* top_levels: its argument and its local
    out     \*             the prices written so far

vars == <<side, words, best_, pc, caller, from, w, word, n, px, out>>

better(a, b) == IF side = "Bid" THEN a > b ELSE a < b

price(v, b) == lo_ + v * 64 + b
bit_set(p) == ((p - lo_) % 64) \in words[(p - lo_) \div 64]
occupied == {p \in Band : bit_set(p)}

\* ~0ull >> k and ~0ull << k.  A shift by 64 is undefined; the machine shifts
\* by k % 64.
ones_shr(k) == 0 .. (63 - (k % 64))
ones_shl(k) == (k % 64) .. 63

\* Mutant: the shift by 64 is not guarded.
Bug_worse_mask_unguarded(b) == IF side = "Bid" THEN ones_shr(64 - b) ELSE ones_shl(b + 1)

\* The bits of a word that are worse than its bit b.
worse_mask(b) ==
    IF side = "Bid" THEN (IF b = 0 THEN {} ELSE ones_shr(64 - b))
    ELSE (IF b = 63 THEN {} ELSE ones_shl(b + 1))

-----------------------------------------------------------------------------
Init ==
    /\ side \in {"Bid", "Ask"}
    /\ words = [v \in WordIdx |-> {}]
    /\ best_ = kNoPrice
    /\ pc = "idle" /\ caller = "best" /\ from = lo_ /\ w = 0 /\ word = {}
    /\ n = 0 /\ px = kNoPrice /\ out = << >>

\* Called by rest when a level receives its first order.
on_nonempty(p) ==
    LET i == p - lo_
    IN  /\ pc = "idle" /\ ~bit_set(p)
        /\ words' = [words EXCEPT ![i \div 64] = @ \cup {i % 64}]
        /\ best_' = IF best_ = kNoPrice \/ better(p, best_) THEN p ELSE best_
        /\ UNCHANGED <<side, pc, caller, from, w, word, n, px, out>>

\* Entry of scan_worse(p) over the bitmap ws.
enter_scan(p, ws, who) ==
    LET i == p - lo_
    IN  /\ pc' = "scan" /\ caller' = who /\ from' = p
        /\ w' = i \div 64
        /\ word' = ws[i \div 64] \cap worse_mask(i % 64)

\* Called when a level has lost its last order.
on_empty(p) ==
    LET i == p - lo_
    IN  /\ pc = "idle" /\ bit_set(p)
        /\ words' = [words EXCEPT ![i \div 64] = @ \ {i % 64}]
        /\ IF best_ = p THEN enter_scan(p, words', "best")
           ELSE UNCHANGED <<pc, caller, from, w, word>>
        /\ UNCHANGED <<side, best_, n, px, out>>

\* scan_worse returns r to its caller.
scan_returns(r) ==
    /\ IF caller = "best" THEN best_' = r /\ pc' = "idle" /\ UNCHANGED px
       ELSE px' = r /\ pc' = "top" /\ UNCHANGED best_
    /\ caller' = "best" /\ from' = lo_ /\ w' = 0 /\ word' = {}
    /\ UNCHANGED <<side, words, n, out>>

\* Mutant: count-leading and count-trailing zeros confused.
Bug_nearest_swapped == IF side = "Bid" THEN Min(word) ELSE Max(word)
\* 63 - clz(word) and ctz(word)
nearest == IF side = "Bid" THEN Max(word) ELSE Min(word)

ScanHit == pc = "scan" /\ word # {} /\ scan_returns(price(w, nearest))

last_word == IF side = "Bid" THEN w = 0 ELSE w + 1 = NWords

ScanMiss == pc = "scan" /\ word = {} /\ last_word /\ scan_returns(kNoPrice)

next_word == IF side = "Bid" THEN w - 1 ELSE w + 1

ScanNext ==
    /\ pc = "scan" /\ word = {} /\ ~last_word
    /\ w' = next_word
    /\ word' = words[w']
    /\ UNCHANGED <<side, words, best_, pc, caller, from, n, px, out>>

top_levels(k) ==
    /\ pc = "idle"
    /\ pc' = "top" /\ n' = k /\ px' = best_ /\ out' = << >>
    /\ UNCHANGED <<side, words, best_, caller, from, w, word>>

\* Mutant: one level too many.
Bug_top_more == px # kNoPrice /\ Len(out) <= n
top_more == px # kNoPrice /\ Len(out) < n

TopStep ==
    /\ pc = "top" /\ top_more
    /\ out' = Append(out, px)
    /\ enter_scan(px, words, "top")
    /\ UNCHANGED <<side, words, best_, n, px>>

TopReturns ==
    /\ pc = "top" /\ ~top_more
    /\ pc' = "told"
    /\ UNCHANGED <<side, words, best_, caller, from, w, word, n, px, out>>

TopTold ==
    /\ pc = "told"
    /\ pc' = "idle" /\ n' = 0 /\ px' = kNoPrice /\ out' = << >>
    /\ UNCHANGED <<side, words, best_, caller, from, w, word>>

Step == ScanHit \/ ScanMiss \/ ScanNext \/ TopStep \/ TopReturns \/ TopTold

Next ==
    \/ \E p \in Ticks : on_nonempty(p) \/ on_empty(p)
    \/ \E k \in 0 .. MaxTop : top_levels(k)
    \/ Step

Spec == Init /\ [][Next]_vars

-----------------------------------------------------------------------------
\* The scan never leaves the words_ array.
TypeOK ==
    /\ side \in {"Bid", "Ask"}
    /\ words \in [WordIdx -> SUBSET Bit]
    /\ best_ \in Band \cup {kNoPrice}
    /\ pc \in {"idle", "scan", "top", "told"} /\ caller \in {"best", "top"}
    /\ from \in Band /\ w \in WordIdx /\ word \subseteq Bit
    /\ n \in Nat /\ px \in Band \cup {kNoPrice} /\ out \in Seq(Band)

is_best(p, S) == IF S = {} THEN p = kNoPrice
                 ELSE p \in S /\ \A q \in S : ~better(q, p)

\* Whenever no on_empty is running the cached best tick is the best occupied
\* one, whatever the distance between occupied ticks and wherever in their
\* words they lie.
BestIsBest == ~(pc = "scan" /\ caller = "best") => is_best(best_, occupied)

\* scan_worse overlooks nothing: every occupied tick worse than its argument
\* is still ahead of the scan, and nothing else is.
ScanSkipsNothing ==
    pc = "scan" => \A p \in occupied :
        LET v == (p - lo_) \div 64
        IN  better(from, p) <=> \/ v = w /\ ((p - lo_) % 64) \in word
                                \/ IF side = "Bid" THEN v < w ELSE v > w

\* top_levels writes the n best occupied prices, or all of them, best first.
TopLevelsExact ==
    pc = "told" =>
        /\ Len(out) = Min({n, Cardinality(occupied)})
        /\ \A i \in DOMAIN out :
              is_best(out[i], occupied \ {out[j] : j \in 1 .. (i - 1)})
=============================================================================
