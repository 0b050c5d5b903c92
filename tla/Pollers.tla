------------------------------- MODULE Pollers -------------------------------
(***************************************************************************)
(* ingestion/sentiment/: one process with the RSS poller, the GDELT poller *)
(* or both as coroutines of one event loop. A poller remembers in memory   *)
(* the URLs it has seen, and marks one before it publishes it; what is     *)
(* marked and not published is not looked at again in this process.        *)
(* GdeltCycle below is the inside of one GDELT poll: its retries under a   *)
(* time budget, which the other poller's blocking requests stretch.        *)
(***************************************************************************)
EXTENDS Integers, Sequences, FiniteSets

CONSTANTS Urls,        \* articles
          Dateless,    \* those whose entries carry no date: they get the current time
          RssFeeds,    \* settings.news_rss_feeds, in order
          GdeltFeed,   \* the GDELT API, as a feed
          MaxClock,    \* bound: times of ingestion told apart
          MaxPFaults   \* bound: faults in a behaviour

CONSTANTS RetryBudget, MaxTries, FirstBackoff, MaxBackoff, Jitters,
                         \* the constants of gdelt_poller.py
          RequestTimes,  \* how long a request may take
          RssBlocks      \* how long an RSS fetch may hold the event loop

ASSUME PollersAssumption ==
    /\ RssFeeds \in Seq({RssFeeds[i] : i \in DOMAIN RssFeeds}) /\ RssFeeds # << >>
    /\ Dateless \subseteq Urls /\ MaxClock \in Nat /\ MaxPFaults \in Nat
    /\ RetryBudget \in Nat /\ MaxTries \in Nat \ {0}
    /\ FirstBackoff \in Nat /\ MaxBackoff \in Nat
    /\ Jitters \subseteq Nat /\ RequestTimes \subseteq Nat /\ RssBlocks \subseteq Nat
    /\ RequestTimes # {} /\ IsFiniteSet(RequestTimes)
    /\ RssBlocks # {} /\ IsFiniteSet(RssBlocks)

VARIABLES
    running,  \* POLLERS started in this process; {} is no process
    feedAt,   \* poller -> which of its feeds comes next
    seen,     \* poller -> seen_urls
    sent,     \* messages the producers have accepted and not delivered
    news,     \* messages stored: the key of raw_sentiment is (time, url)
    gone,     \* history: messages of this process lost in its producers
    pclock, pfaults

pvars == <<running, feedAt, seen, sent, news, gone, pclock, pfaults>>

PollerNames == {"rss", "gdelt"}

FeedsOf(p) == IF p = "rss" THEN RssFeeds ELSE <<GdeltFeed>>

\* published_at: what the feed says, or the time of ingestion.
PublishedAt(u, feed) ==
    IF u \in Dateless THEN [by |-> "clock", at |-> pclock] ELSE [by |-> feed, at |-> 0]

Message(u, feed) == [url |-> u, time |-> PublishedAt(u, feed)]

PInit ==
    /\ running = {}
    /\ feedAt = [p \in PollerNames |-> 1]
    /\ seen = [p \in PollerNames |-> {}]
    /\ sent = {} /\ news = {} /\ gone = {}
    /\ pclock = 0 /\ pfaults = 0

PFault == pfaults < MaxPFaults /\ pfaults' = pfaults + 1

TimeGoesOn ==
    /\ pclock < MaxClock /\ pclock' = pclock + 1
    /\ UNCHANGED <<running, feedAt, seen, sent, news, gone, pfaults>>

\* --source all, rss or gdelt.
ResolveSources(source) == IF source = "all" THEN PollerNames ELSE {source}

StartPollers ==
    /\ running = {}
    /\ \E source \in PollerNames \union {"all"} : running' = ResolveSources(source)
    /\ feedAt' = [p \in PollerNames |-> 1]
    /\ UNCHANGED <<seen, sent, news, gone, pclock, pfaults>>

NextFeed(p) == feedAt' = [feedAt EXCEPT ![p] = (@ % Len(FeedsOf(p))) + 1]

\* A poll of one feed: each entry with a URL not seen before is marked and
\* published. Nothing in between gives up the event loop.
PollFeed(p, entries) ==
    LET feed == FeedsOf(p)[feedAt[p]]
        fresh == entries \ seen[p]
    IN  /\ seen' = [seen EXCEPT ![p] = @ \union fresh]
        /\ sent' = sent \union {Message(u, feed) : u \in fresh}
        /\ NextFeed(p)
        /\ UNCHANGED <<running, news, gone, pclock, pfaults>>

\* RequestException, an unreadable body, or GDELT's [] after its retries: this
\* feed is left for the next cycle.
FetchFeedFails(p) ==
    /\ PFault /\ NextFeed(p)
    /\ UNCHANGED <<running, seen, sent, news, gone, pclock>>

\* The process is over, and with it both pollers: gather passes an exception on.
\* The producers' buffers go with it, as far as they were not delivered.
ProcessEnds(accepted) ==
    /\ running' = {}
    /\ seen' = [q \in PollerNames |-> {}]
    /\ feedAt' = [q \in PollerNames |-> 1]
    /\ \E delivered \in SUBSET accepted : sent' = delivered
    /\ gone' = {}

\* The same, had the loop caught the error and gone on with the next entry.
SendRaises_GoesOn(p, before, u) ==
    /\ PFault
    /\ u \notin before \union seen[p]
    /\ seen' = [seen EXCEPT ![p] = @ \union before \union {u}]
    /\ sent' = sent \union {Message(v, FeedsOf(p)[feedAt[p]]) : v \in before \ seen[p]}
    /\ NextFeed(p)
    /\ UNCHANGED <<running, news, gone, pclock>>

\* producer.send raises KafkaError (no metadata, a full buffer) at url u, after
\* the entries in `before`: nobody catches it.
SendRaises(p, before, u) ==
    /\ PFault
    /\ u \notin before \union seen[p]
    /\ ProcessEnds(sent \union {Message(v, FeedsOf(p)[feedAt[p]]) : v \in before \ seen[p]})
    /\ UNCHANGED <<news, pclock>>

KillPollers ==
    /\ running # {} /\ PFault
    /\ ProcessEnds(sent)
    /\ UNCHANGED <<news, pclock>>

\* Kafka and the consumer: ON CONFLICT (time, url) DO NOTHING.
StoreNews ==
    \E msg \in sent :
        /\ sent' = sent \ {msg} /\ news' = news \union {msg}
        /\ UNCHANGED <<running, feedAt, seen, gone, pclock, pfaults>>

\* A message given up after retries=5; its future was dropped.
LoseNews ==
    \E msg \in sent :
        /\ PFault
        /\ sent' = sent \ {msg} /\ gone' = gone \union {msg}
        /\ UNCHANGED <<running, feedAt, seen, news, pclock>>

PNext ==
    \/ TimeGoesOn \/ StartPollers \/ KillPollers \/ StoreNews \/ LoseNews
    \/ \E p \in running :
          \/ FetchFeedFails(p)
          \/ \E entries \in SUBSET Urls : PollFeed(p, entries)
          \/ \E before \in SUBSET Urls, u \in Urls : SendRaises(p, before, u)

PSpec == PInit /\ [][PNext]_pvars

PTypeOK ==
    /\ running \subseteq PollerNames
    /\ \A p \in PollerNames : feedAt[p] \in DOMAIN FeedsOf(p) /\ seen[p] \subseteq Urls
    /\ \A msg \in sent \union news \union gone : msg.url \in Urls
    /\ pclock \in 0 .. MaxClock /\ pfaults \in 0 .. MaxPFaults

(* A URL is marked before it is published (news_rss_poller.py:73,            *)
(* gdelt_poller.py:178), and the producers report no failure after send():   *)
(* of what a running process will not look at again, each article is stored, *)
(* on its way, or was lost in a producer after it had been accepted. A send  *)
(* that raises leaves no such article behind, because the process, with its  *)
(* memory, does not survive it.                                              *)
SeenMeansSent ==
    \A p \in running : \A u \in seen[p] :
        \E msg \in sent \union news \union gone : msg.url = u
-----------------------------------------------------------------------------
VARIABLES
    tries,     \* attempt
    spent,     \* time since cycle_start
    cycleOver  \* the list of articles, or [], has been returned

gvars == <<tries, spent, cycleOver>>

GInit == tries = 1 /\ spent = 0 /\ cycleOver = FALSE

Lesser(a, b) == IF a <= b THEN a ELSE b

ComputeBackoff(k) == {Lesser(FirstBackoff * 2 ^ (k - 1), MaxBackoff) + j : j \in Jitters}

\* Sleeps the whole backoff.
Wait_Uncapped(wait, remaining) == wait

Wait(wait, remaining) == Lesser(wait, remaining)

Return == cycleOver' = TRUE /\ UNCHANGED tries

\* The loop's own check of the budget.
BudgetExhausted ==
    /\ ~ cycleOver /\ spent >= RetryBudget
    /\ Return /\ UNCHANGED spent

\* The request, in a thread, and the event loop's next chance to go on.
Request == {r + b : r \in RequestTimes, b \in RssBlocks}

\* Articles, or an empty body.
Answered ==
    /\ ~ cycleOver /\ spent < RetryBudget
    /\ \E r \in Request : spent' = spent + r
    /\ Return

\* Network error, HTTP error or broken JSON: the wait is cut to what was left of
\* the budget before the request.
RequestFails ==
    /\ ~ cycleOver /\ spent < RetryBudget
    /\ \E r \in Request, b \in RssBlocks, w \in ComputeBackoff(tries) :
          IF tries = MaxTries
            THEN Return /\ spent' = spent + r
            ELSE /\ tries' = tries + 1 /\ UNCHANGED cycleOver
                 /\ spent' = spent + r + Wait(w, RetryBudget - spent) + b

\* 429, or 200 with the notice: the wait is cut to what is left now.
RateLimited ==
    /\ ~ cycleOver /\ spent < RetryBudget
    /\ \E r \in Request, b \in RssBlocks, w \in ComputeBackoff(tries) :
          IF tries = MaxTries \/ spent + r >= RetryBudget
            THEN Return /\ spent' = spent + r
            ELSE /\ tries' = tries + 1 /\ UNCHANGED cycleOver
                 /\ spent' = spent + r + Wait(w, RetryBudget - spent - r) + b

GNext == BudgetExhausted \/ Answered \/ RequestFails \/ RateLimited

GSpec == GInit /\ [][GNext]_gvars

GTypeOK == tries \in 1 .. MaxTries /\ spent \in Nat /\ cycleOver \in BOOLEAN

Longest(times) == CHOOSE t \in times : \A s \in times : s <= t

(* "Hard ceiling on total wall-clock time spent retrying in a single cycle"  *)
(* (gdelt_poller.py:59), so that it "can never run past the next scheduled   *)
(* poll" (line 14). It is none: the last request begins within the budget    *)
(* and ends when it ends, the wait after a failed request does not count     *)
(* that request (lines 111 and 152), and an RSS fetch, which does not yield, *)
(* delays both.                                                              *)
CeilingKept == spent <= RetryBudget

(* What holds instead of the ceiling, and nobody claims: whatever fails in   *)
(* which order, a cycle is over its budget by no more than one request and   *)
(* two RSS fetches, one that delays the end of the request and one that      *)
(* delays the end of the wait (gdelt_poller.py:111, news_rss_poller.py:40).  *)
OverrunBounded ==
    spent <= RetryBudget + Longest(RequestTimes) + 2 * Longest(RssBlocks)
=============================================================================
