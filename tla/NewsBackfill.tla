---------------------------- MODULE NewsBackfill ----------------------------
(***************************************************************************)
(* The two tools that fill old gaps of raw_sentiment. CryptoCompare is     *)
(* paged backwards in time with a pool of API keys; GDELT is asked for one *)
(* window after the other until it blocks the caller. Both are meant to be *)
(* run again; the question is what a run that ends without complaint has   *)
(* left out.                                                               *)
(***************************************************************************)
EXTENDS Integers, Sequences, FiniteSets

CONSTANTS KeyLists,     \* lists of API keys an .env file may hold
          Archives,     \* sets of articles [at, id] that CryptoCompare may have
          Linkless,     \* ids of articles without a URL
          DayRuns,      \* lists of <<start, end>> to fill, as backfill_news makes them
          CcPageSize,   \* articles in a page
          MaxPages,     \* MAX_PAGES_PER_COIN
          NetRetries    \* max_network_retries

CONSTANTS Windows,      \* number of windows of WINDOW_HOURS to ask for
          MaxCalls,     \* MAX_RETRIES_PER_CALL
          MaxBlocks     \* MAX_CONSECUTIVE_BLOCKS

ASSUME NewsBackfillAssumption ==
    /\ \A list \in KeyLists :
          list \in Seq({list[i] : i \in DOMAIN list}) /\ list # << >>
    /\ \A set \in Archives : IsFiniteSet(set) /\ \A a \in set : a.at \in Int
    /\ \A list \in DayRuns : list \in Seq(Int \X Int) /\ list # << >>
    /\ CcPageSize \in Nat \ {0} /\ MaxPages \in Nat \ {0} /\ NetRetries \in Nat \ {0}
    /\ Windows \in Nat /\ MaxCalls \in Nat \ {0} /\ MaxBlocks \in Nat \ {0}

VARIABLES
    keys, keyIndex, exhausted,  \* KeyPool
    archive,    \* what CryptoCompare has for the coin
    runs,       \* ranges left, the current one first
    before,     \* before_ts
    pagesRead,  \* pages of the current range
    netTry,     \* attempt of the current request
    stored,     \* articles inserted
    complete,   \* ranges whose paging came to its end
    cut,        \* history: the oldest second of every page that was full
    ccState     \* "asking", "done", "out of keys", "rejected" or "failed"

nvars == <<keys, keyIndex, exhausted, archive, runs, before, pagesRead, netTry,
           stored, complete, cut, ccState>>

CurrentKey == keys[keyIndex]

\* Compares a set with a list: a key that is listed twice counts once.
AllExhausted == Cardinality(exhausted) >= Len(keys)

NInit ==
    /\ keys \in KeyLists /\ keyIndex = 1 /\ exhausted = {}
    /\ archive \in Archives
    /\ runs \in DayRuns /\ before = Head(runs)[2]
    /\ pagesRead = 0 /\ netTry = 1
    /\ stored = {} /\ complete = {} /\ cut = {}
    /\ ccState = "asking"

\* The key k places further on.
Further(k) == ((keyIndex + k - 1) % Len(keys)) + 1

\* Just the next key.
AdvanceKey_NoSkip(refused) == Further(1)

\* _advance: the next key that has not been refused; all the way round if none.
AdvanceKey(refused) ==
    LET usable == {k \in 1 .. Len(keys) : keys[Further(k)] \notin refused}
    IN  IF usable = {} THEN keyIndex
        ELSE Further(CHOOSE k \in usable : \A l \in usable : k <= l)

\* An error payload, whatever its reason: mark_exhausted, same page, next key.
KeyRefused ==
    /\ ccState = "asking" /\ ~ AllExhausted
    /\ exhausted' = exhausted \union {CurrentKey}
    /\ keyIndex' = AdvanceKey(exhausted')
    /\ netTry' = 1
    /\ UNCHANGED <<keys, archive, runs, before, pagesRead, stored, complete, cut, ccState>>

\* AllKeysExhaustedError ends the whole run.
OutOfKeys ==
    /\ ccState = "asking" /\ AllExhausted
    /\ ccState' = "out of keys"
    /\ UNCHANGED <<keys, keyIndex, exhausted, archive, runs, before, pagesRead, netTry,
                   stored, complete, cut>>

\* The last attempt is tried again.
RetryRequest_NoLimit ==
    /\ ccState = "asking" /\ ~ AllExhausted
    /\ netTry < NetRetries + 1
    /\ netTry' = netTry + 1
    /\ UNCHANGED <<keys, keyIndex, exhausted, archive, runs, before, pagesRead,
                   stored, complete, cut, ccState>>

\* Connection error, timeout or 5xx before the last attempt: same key again.
RetryRequest ==
    /\ ccState = "asking" /\ ~ AllExhausted
    /\ netTry < NetRetries
    /\ netTry' = netTry + 1
    /\ UNCHANGED <<keys, keyIndex, exhausted, archive, runs, before, pagesRead,
                   stored, complete, cut, ccState>>

\* A 4xx: raise_for_status, on the first attempt, and nobody catches it. The
\* comment above (lines 148 to 151) says that it falls through to key handling.
HttpRejected ==
    /\ ccState = "asking" /\ ~ AllExhausted
    /\ ccState' = "rejected"
    /\ UNCHANGED <<keys, keyIndex, exhausted, archive, runs, before, pagesRead, netTry,
                   stored, complete, cut>>

\* A connection error or 5xx on the last attempt, a body that is not JSON, or an
\* error of the database: the exception leaves backfill_coin; what it has
\* committed stays.
CcFails ==
    /\ ccState = "asking" /\ ~ AllExhausted
    /\ ccState' = "failed"
    /\ UNCHANGED <<keys, keyIndex, exhausted, archive, runs, before, pagesRead, netTry,
                   stored, complete, cut>>

\* CryptoCompare: the newest articles not later than lTs, in an order of its own
\* within one second.
PagesAt(ts) ==
    LET upTo == {a \in archive : a.at <= ts}
    IN  {page \in SUBSET upTo :
            /\ Cardinality(page) = IF Cardinality(upTo) < CcPageSize
                                     THEN Cardinality(upTo) ELSE CcPageSize
            /\ \A a \in page, b \in upTo \ page : b.at <= a.at}

Oldest(page) == CHOOSE t \in {a.at : a \in page} : \A a \in page : t <= a.at

\* Rows of a page: in the range and with a URL. dedupe_batch keeps one of each.
RowsOf(page) ==
    {a \in page : Head(runs)[1] <= a.at /\ a.at <= before /\ a.id \notin Linkless}

\* The current range is over, by its end or by the cap; on to the next older one.
LeaveRange(how) ==
    /\ runs' = Tail(runs)
    /\ complete' = IF how = "capped" THEN complete ELSE complete \union {Head(runs)}
    /\ IF Tail(runs) = << >>
         THEN ccState' = "done" /\ UNCHANGED before
         ELSE before' = Head(Tail(runs))[2] /\ UNCHANGED ccState
    /\ pagesRead' = 0

\* The next page begins two seconds before the oldest article.
NextBefore_Two(page) == Oldest(page) - 2

NextBefore(page) == Oldest(page) - 1

ReadPage ==
    /\ ccState = "asking" /\ ~ AllExhausted
    /\ netTry' = 1
    /\ \E page \in PagesAt(before) :
          IF page = {}
            THEN LeaveRange("no more articles") /\ UNCHANGED <<stored, cut>>
            ELSE /\ stored' = stored \union RowsOf(page)
                 /\ cut' = IF Cardinality(page) = CcPageSize
                             THEN cut \union {Oldest(page)} ELSE cut
                 /\ IF Oldest(page) <= Head(runs)[1]
                      THEN LeaveRange("reached start")
                      ELSE IF pagesRead + 1 = MaxPages
                      THEN LeaveRange("capped")
                      ELSE /\ before' = NextBefore(page)
                           /\ pagesRead' = pagesRead + 1
                           /\ UNCHANGED <<runs, complete, ccState>>
    /\ UNCHANGED <<keys, keyIndex, exhausted, archive>>

NNext == KeyRefused \/ OutOfKeys \/ RetryRequest \/ HttpRejected \/ CcFails \/ ReadPage

NTypeOK ==
    /\ keyIndex \in DOMAIN keys /\ exhausted \subseteq {keys[i] : i \in DOMAIN keys}
    /\ before \in Int /\ pagesRead \in 0 .. MaxPages - 1 /\ netTry \in 1 .. NetRetries
    /\ stored \subseteq archive
    /\ ccState \in {"asking", "done", "out of keys", "rejected", "failed"}

KeysRefused == \A i \in DOMAIN keys : keys[i] \in exhausted

(* "skipping any that come back rate-limited" (tools/                        *)
(* backfill_cryptocompare.py:97): wherever in the list the refused keys are, *)
(* and if one is listed twice, a refused key is asked again only when there  *)
(* is no other; and a run that stops for want of keys has had each of them   *)
(* refused. What that leaves open is the next property.                      *)
KeysSpent ==
    /\ ccState = "out of keys" => KeysRefused
    /\ ccState = "asking" /\ CurrentKey \in exhausted => KeysRefused

(* "the script automatically switches to the next and keeps going -- it only *)
(* stops once every key is exhausted" (tools/backfill_cryptocompare.py:6),   *)
(* and "a 4xx (bad/exhausted key, rate limit) [...] must fall through to key *)
(* handling" (line 149): what an API says of a key ends a run when all keys  *)
(* are spent, and no sooner; and then it does end it. The code breaks both:  *)
(* a 4xx on the first key raises (line 171) with the others unused, and with *)
(* a key listed twice all_exhausted is never true (line 125).                *)
RotatesUntilSpent ==
    /\ ccState = "rejected" => KeysRefused
    /\ ccState = "asking" /\ KeysRefused => AllExhausted
-----------------------------------------------------------------------------
VARIABLES
    window,   \* windows dealt with
    calls,    \* attempt of the current window
    blocks,   \* consecutive_blocks
    outcome,  \* window -> "open", "fetched" or "blocked"
    gdState   \* "asking", "done", "stopped early" or "failed"

wvars == <<window, calls, blocks, outcome, gdState>>

WInit ==
    /\ window = 0 /\ calls = 1 /\ blocks = 0
    /\ outcome = [w \in 1 .. Windows |-> "open"]
    /\ gdState = IF Windows = 0 THEN "done" ELSE "asking"

NextWindow(how) ==
    /\ window' = window + 1 /\ calls' = 1
    /\ outcome' = [outcome EXCEPT ![window + 1] = how]

\* An answer in JSON: insert its articles, at most 250 of them, and commit.
WindowFetched ==
    /\ gdState = "asking"
    /\ NextWindow("fetched")
    /\ blocks' = 0
    /\ gdState' = IF window' = Windows THEN "done" ELSE "asking"

\* 429, or a body that is not JSON: asked again, until it is a BlockedError and
\* the window is skipped, or the coin is given up.
WindowBlocked ==
    /\ gdState = "asking"
    /\ IF calls < MaxCalls
         THEN calls' = calls + 1 /\ UNCHANGED <<window, blocks, outcome, gdState>>
         ELSE /\ NextWindow("blocked")
              /\ blocks' = blocks + 1
              /\ gdState' = CASE blocks' >= MaxBlocks -> "stopped early"
                              [] blocks' < MaxBlocks /\ window' = Windows -> "done"
                              [] OTHER -> "asking"

\* Another HTTP status or a network error: nobody catches it.
WindowFails ==
    /\ gdState = "asking"
    /\ gdState' = "failed"
    /\ UNCHANGED <<window, calls, blocks, outcome>>

WNext == WindowFetched \/ WindowBlocked \/ WindowFails

\* Two tools that know nothing of each other.
NewsSpec ==
    /\ NInit /\ WInit
    /\ [][(NNext /\ UNCHANGED wvars) \/ (WNext /\ UNCHANGED nvars)]_<<nvars, wvars>>

WTypeOK ==
    /\ window \in 0 .. Windows /\ calls \in 1 .. MaxCalls /\ blocks \in 0 .. MaxBlocks
    /\ outcome \in [1 .. Windows -> {"open", "fetched", "blocked"}]
    /\ gdState \in {"asking", "done", "stopped early", "failed"}

(* What a run leaves out. CryptoCompare: a range that was paged to its end   *)
(* is stored, but for articles of the very second at which a full page was   *)
(* cut, which `before_ts = oldest - 1` jumps over (backfill_cryptocompare.py *)
(* :253). GDELT: whatever was not fetched had been blocked, and a coin is    *)
(* given up only behind MAX_CONSECUTIVE_BLOCKS blocked windows in a row      *)
(* (backfill_gdelt.py:134); of a window, up to 250 articles are fetched.     *)
NothingSilentlySkipped ==
    /\ \A r \in complete : \A a \in archive :
          r[1] <= a.at /\ a.at <= r[2] /\ a.id \notin Linkless
              => a \in stored \/ a.at \in cut
    /\ gdState = "done" => \A w \in 1 .. Windows : outcome[w] # "open"
    /\ gdState = "stopped early" => \A w \in window - MaxBlocks + 1 .. window : outcome[w] = "blocked"
=============================================================================
