----------------------------- MODULE MinuteBars ------------------------------
(***************************************************************************)
(* How the trades of one stock become one-minute bars: the messages of the *)
(* web sockets (kis/ws.py, kiwoom/ws.py) or the polled prices, the         *)
(* BarBuilder of every engine that has subscribed                          *)
(* (engine/bar_builder.py), the store of bars and its aggregation          *)
(* (storage/minute_bar.py).                                                *)
(*                                                                         *)
(* A quote belongs to the minute in which it is handed to the callbacks,   *)
(* whenever the trade was: the adapters read the clock, not the message.   *)
(* An adapter's callbacks are never removed, so the builders of engines    *)
(* that were stopped go on building.  Every trade has volume one.  Names   *)
(* ending in "Mutant" are faulty variants of the definition that follows.  *)
(***************************************************************************)
EXTENDS Naturals, Sequences, FiniteSetsExt, SequencesExt, Filters, Sums

CONSTANTS
    Prices,         \* prices, positive numbers
    PreviousClose,  \* the last price before the day's first trade
    MaxEngines,     \* bound: engines started in a process
    LastMinute,     \* bound: minutes
    MaxTrades,      \* bound: trades
    MaxPolls        \* bound: prices polled in a minute

ASSUME BarsAssumption ==
    /\ Prices \subseteq Nat \ {0}
    /\ PreviousClose \in Prices
    /\ MaxEngines \in Nat \ {0}
    /\ {LastMinute, MaxTrades, MaxPolls} \subseteq Nat

Minutes == 0 .. LastMinute
Sources == {"kis", "kiwoom", "polling"}
NoBar == [minute |-> 0, open |-> 0, high |-> 0, low |-> 0, close |-> 0, volume |-> 0]

VARIABLES
    source,     \* where quotes come from
    stream,     \* the web socket: the stock is not subscribed, subscribed, or was when it broke
    minute,     \* the present minute
    traded,     \* the exchange: the day's volume
    lastPrice,  \* the exchange: the price of the last trade
    wire,       \* messages, or the answer to a poll, on the way
    builders,   \* _current of each builder, in the order they subscribed
    store,      \* minute_bars: a bar or none for each minute
    arrived,    \* the prices handed to the callbacks in each minute
    volumes,    \* the volumes handed to the callbacks in each minute
    torn,       \* minutes that a builder has seen only in part
    unseen,     \* trades whose message was not sent or got lost
    unheard     \* trades whose message was not understood

barVars == <<source, stream, minute, traded, lastPrice, wire, builders, store, arrived, volumes,
             torn, unseen, unheard>>

Bars == [minute : Minutes, open : Nat, high : Nat, low : Nat, close : Nat, volume : Nat]

BarsTypeOK ==
    /\ source \in Sources
    /\ stream \in {"none", "live", "dead"} /\ (source = "polling" => stream = "none")
    /\ minute \in Minutes
    /\ traded \in Nat
    /\ lastPrice \in Prices
    /\ wire \in Seq([price : Prices, volume : Nat])
    /\ builders \in Seq(Bars) /\ Len(builders) <= MaxEngines
    /\ store \in [Minutes -> Bars]
    /\ arrived \in [Minutes -> Seq(Prices)]
    /\ volumes \in [Minutes -> Nat]
    /\ torn \subseteq Minutes
    /\ unseen \in Nat /\ unheard \in Nat

BarsInit ==
    /\ source \in Sources
    /\ stream = "none"
    /\ minute = 0
    /\ traded = 0
    /\ lastPrice = PreviousClose
    /\ wire = <<>>
    /\ builders = <<>>
    /\ store = [m \in Minutes |-> NoBar]
    /\ arrived = [m \in Minutes |-> <<>>]
    /\ volumes = [m \in Minutes |-> 0]
    /\ torn = {}
    /\ unseen = 0 /\ unheard = 0

----------------------------------------------------------------------------
(* Messages                                                                *)

TR_SUBSCRIBE == "H0STCNT0"

\* The two layouts of a trade in the documents: that of the broker, with a flag in front,
\* and that of the docstring.
Layouts == {<<"0", TR_SUBSCRIBE, "001", "fields">>, <<TR_SUBSCRIBE, "005930", "001", "fields">>}

\* _handle_realtime_data
IsTrade(parts) == Len(parts) >= 4 /\ parts[1] = TR_SUBSCRIBE

\* _handle_message: what does not begin with "0|" or "1|" is taken for JSON.
KisQuotes(parts) == parts[1] \in {"0", "1"} /\ IsTrade(parts)

\* Kiwoom's REAL messages have an item and its values; what was polled is an answer.
Understood(parts) == source # "kis" \/ KisQuotes(parts)

----------------------------------------------------------------------------
(* BarBuilder                                                              *)

NewBar(m, price, volume) ==
    [minute |-> m, open |-> price, high |-> price, low |-> price, close |-> price,
     volume |-> volume]

Larger(a, b) == IF a > b THEN a ELSE b
Smaller(a, b) == IF a < b THEN a ELSE b

\* Forgets the low.
GrownMutant(bar, price, volume) ==
    [bar EXCEPT !.high = Larger(@, price), !.close = price, !.volume = @ + volume]

Grown(bar, price, volume) ==
    [bar EXCEPT !.high = Larger(@, price),
                !.low = Smaller(@, price),
                !.close = price,
                !.volume = @ + volume]

\* on_quote in the present minute: what the builder holds afterwards.
Held(bar, price, volume) ==
    IF bar # NoBar /\ bar.minute = minute THEN Grown(bar, price, volume)
    ELSE NewBar(minute, price, volume)

\* The bar it completes and saves, if the quote is the first of a later minute.
Completed(bar) == bar # NoBar /\ bar.minute # minute

\* save_bars is INSERT OR REPLACE: of the builders that complete a minute, the one that
\* subscribed last leaves its bar.  An exception is logged and the bar is lost.
Saved(old, saves) ==
    [m \in Minutes |->
        LET done == {i \in DOMAIN builders :
                        Completed(builders[i]) /\ builders[i].minute = m /\ saves[i]}
        IN  IF done = {} THEN old[m] ELSE builders[Max(done)]]

\* Every callback gets the quote.
Quote(price, volume) ==
    /\ \E saves \in [DOMAIN builders -> BOOLEAN] :
          /\ \A i \in DOMAIN builders : ~Completed(builders[i]) => saves[i]
          /\ store' = Saved(store, saves)
    /\ builders' = [i \in DOMAIN builders |-> Held(builders[i], price, volume)]
    /\ arrived' = [arrived EXCEPT ![minute] = Append(@, price)]
    /\ volumes' = [volumes EXCEPT ![minute] = @ + volume]

----------------------------------------------------------------------------
\* A trade at the exchange; the broker sends it over the socket if it was subscribed there.
Trade(price) ==
    /\ traded < MaxTrades
    /\ traded' = traded + 1
    /\ lastPrice' = price
    /\ IF stream = "live"
         THEN wire' = Append(wire, [price |-> price, volume |-> 1]) /\ UNCHANGED unseen
         ELSE unseen' = unseen + 1 /\ UNCHANGED wire
    /\ UNCHANGED <<source, stream, minute, builders, store, arrived, volumes, torn, unheard>>

\* _rest_poll_loop asks for the price, one request after the other, and the broker answers
\* with the last price and the volume of the day, also if nothing was traded meanwhile.
PollAnswered ==
    /\ source = "polling" /\ builders # <<>> /\ wire = <<>>
    /\ Len(arrived[minute]) < MaxPolls
    /\ wire' = <<[price |-> lastPrice, volume |-> traded]>>
    /\ UNCHANGED <<source, stream, minute, traded, lastPrice, builders, store, arrived, volumes,
                   torn, unseen, unheard>>

\* The answer is lost or refused: the loop asks again in its next round.
PollFails ==
    /\ source = "polling" /\ wire # <<>>
    /\ wire' = <<>>
    /\ UNCHANGED <<source, stream, minute, traded, lastPrice, builders, store, arrived, volumes,
                   torn, unseen, unheard>>

\* The receive loop, or the polling loop, takes what comes next: a quote of the present
\* minute, unless the message is not understood.
Arrive ==
    /\ wire # <<>>
    /\ wire' = Tail(wire)
    /\ IF \E parts \in Layouts : Understood(parts)
         THEN Quote(Head(wire).price, Head(wire).volume) /\ UNCHANGED unheard
         ELSE unheard' = unheard + 1 /\ UNCHANGED <<builders, store, arrived, volumes>>
    /\ UNCHANGED <<source, stream, minute, traded, lastPrice, torn, unseen>>

\* What has come so far is still read.  _subscribed goes on naming the stock, so that no
\* later subscription is sent, over whichever socket.
SocketDrops ==
    /\ stream = "live"
    /\ stream' = "dead"
    /\ \E kept \in 0 .. Len(wire) :
          /\ wire' = SubSeq(wire, 1, kept)
          /\ unseen' = unseen + (Len(wire) - kept)
    /\ UNCHANGED <<source, minute, traded, lastPrice, builders, store, arrived, volumes, torn,
                   unheard>>

NextMinute ==
    /\ minute < LastMinute
    /\ minute' = minute + 1
    /\ UNCHANGED <<source, stream, traded, lastPrice, wire, builders, store, arrived, volumes,
                   torn, unseen, unheard>>

\* What was handed to the callbacks in this minute is missing from a new builder's bar.
TornNow == IF arrived[minute] # <<>> THEN torn \union {minute} ELSE torn

\* An engine starts with a new builder.  The subscription of its stock fails without a
\* socket, after the callback was added.
StartEngine ==
    /\ Len(builders) < MaxEngines
    /\ builders' = Append(builders, NoBar)
    /\ stream' \in IF stream = "none" /\ source # "polling" THEN {"none", "live"} ELSE {stream}
    /\ torn' = TornNow
    /\ UNCHANGED <<source, minute, traded, lastPrice, wire, store, arrived, volumes, unseen,
                   unheard>>

\* The process ends with what the builders hold and with its socket; the store is a file.
ProcessRestart ==
    /\ builders # <<>>
    /\ builders' = <<>>
    /\ stream' = "none"
    /\ wire' = <<>>
    /\ unseen' = IF source = "polling" THEN unseen ELSE unseen + Len(wire)
    /\ torn' = TornNow
    /\ UNCHANGED <<source, minute, traded, lastPrice, store, arrived, volumes, unheard>>

BarsNext ==
    \/ \E p \in Prices : Trade(p)
    \/ PollAnswered \/ PollFails \/ Arrive \/ SocketDrops
    \/ NextMinute \/ StartEngine \/ ProcessRestart

BarsSpec == BarsInit /\ [][BarsNext]_barVars

----------------------------------------------------------------------------
(* aggregate_bars                                                          *)

\* get_bars: the stored bars by time.
Rows == Without([i \in 1 .. LastMinute + 1 |-> store[i - 1]], {NoBar})

\* bucket_start: where the bucket of a minute begins.
Start(m, width) == (m \div width) * width

VolumeOf(bucket) == SumOver([i \in DOMAIN bucket |-> bucket[i].volume], DOMAIN bucket)

\* Closes with the first of the bars.
MergeMutant(bucket, width) ==
    [minute |-> Start(bucket[1].minute, width),
     open |-> bucket[1].open,
     high |-> Max({bucket[i].high : i \in DOMAIN bucket}),
     low |-> Min({bucket[i].low : i \in DOMAIN bucket}),
     close |-> bucket[1].close,
     volume |-> VolumeOf(bucket)]

\* _merge_bucket
Merge(bucket, width) ==
    [minute |-> Start(bucket[1].minute, width),
     open |-> bucket[1].open,
     high |-> Max({bucket[i].high : i \in DOMAIN bucket}),
     low |-> Min({bucket[i].low : i \in DOMAIN bucket}),
     close |-> Last(bucket).close,
     volume |-> VolumeOf(bucket)]

\* A row of another bucket than the one being filled closes that one.
Bucketed(pass, b, width) ==
    IF pass.bucket # <<>> /\ Start(pass.bucket[1].minute, width) # Start(b.minute, width)
    THEN [result |-> Append(pass.result, Merge(pass.bucket, width)), bucket |-> <<b>>]
    ELSE [result |-> pass.result, bucket |-> Append(pass.bucket, b)]

\* The loop over the rows, up to its end.
Scan(rows, width) ==
    LET pass[i \in 0 .. Len(rows)] ==
            IF i = 0 THEN [result |-> <<>>, bucket |-> <<>>]
            ELSE Bucketed(pass[i - 1], rows[i], width)
    IN  pass[Len(rows)]

\* The last bucket is closed when there are no more rows.
Closed(pass, width) ==
    IF pass.bucket = <<>> THEN pass.result ELSE Append(pass.result, Merge(pass.bucket, width))

Aggregate(width) == Closed(Scan(Rows, width), width)

----------------------------------------------------------------------------
\* The bar of a sequence of prices and the volume that came with them.
BarOf(m, seq, volume) ==
    [minute |-> m, open |-> seq[1], high |-> Max(ToSet(seq)), low |-> Min(ToSet(seq)),
     close |-> Last(seq), volume |-> volume]

Whole(m) == store[m] = BarOf(m, arrived[m], volumes[m])

\* However many engines were started, whatever got lost and from whichever source: a stored
\* bar is the bar of all that came in its minute, unless a builder saw the minute only in part.
StoredIsTrue == \A m \in Minutes \ torn : store[m] # NoBar => Whole(m)

InBucket(m, first, width) == first <= m /\ m < first + width

\* The prices of a bucket's minutes in their order, and their volume.
PricesIn(first, width) ==
    FlattenSeq([i \in 1 .. LastMinute + 1 |->
                   IF InBucket(i - 1, first, width) THEN arrived[i - 1] ELSE <<>>])

VolumeIn(first, width) == SumOver(volumes, {m \in Minutes : InBucket(m, first, width)})

\* Every minute of the bucket in which something came is stored as it was.
BucketIsWhole(first, width) ==
    \A m \in Minutes : InBucket(m, first, width) /\ arrived[m] # <<>> => store[m] # NoBar /\ Whole(m)

\* Bars of any width: one for each bucket with a stored bar, in the order of time, and
\* the bar of all that came in its bucket if the bars it was made from are whole.
AggregateIsExact ==
    \A width \in 1 .. LastMinute + 1 :
        LET bars == Aggregate(width)
        IN  /\ \A i, j \in DOMAIN bars : i < j => bars[i].minute < bars[j].minute
            /\ {bars[i].minute : i \in DOMAIN bars} =
                  {Start(m, width) : m \in {n \in Minutes : store[n] # NoBar}}
            /\ \A i \in DOMAIN bars :
                  LET first == bars[i].minute
                  IN  BucketIsWhole(first, width) =>
                          bars[i] = BarOf(first, PricesIn(first, width), VolumeIn(first, width))

\* What a builder holds of a minute that it has seen from the start is the bar of all that
\* came so far, and nothing that came in the present minute has passed it by.
BuildersAreTrue ==
    \A i \in DOMAIN builders :
        LET bar == builders[i]
        IN  /\ bar # NoBar /\ bar.minute \notin torn =>
                  bar = BarOf(bar.minute, arrived[bar.minute], volumes[bar.minute])
            /\ minute \notin torn /\ arrived[minute] # <<>> =>
                  bar # NoBar /\ bar.minute = minute

\* Nothing is built or stored of a minute in which nothing came, and nothing stored before
\* the minute is over.
BarsAreTimely ==
    /\ \A m \in Minutes : m > minute => arrived[m] = <<>>
    /\ \A m \in Minutes : arrived[m] = <<>> => volumes[m] = 0
    /\ \A m \in Minutes :
          store[m] # NoBar => m < minute /\ store[m].minute = m /\ arrived[m] # <<>>
    /\ \A i \in DOMAIN builders :
          builders[i] # NoBar => builders[i].minute <= minute /\ arrived[builders[i].minute] # <<>>

\* Over a web socket every trade is handed on once, in whatever minute, is on its way, or
\* was not sent, lost or not understood.
TradesAreCounted ==
    source # "polling" =>
        /\ \A i \in DOMAIN wire : wire[i].volume = 1
        /\ traded = unseen + unheard + Len(wire) + SumOver(volumes, Minutes)

\* What came, what the builders hold and what the store holds.
BarsInv == BarsTypeOK /\ StoredIsTrue /\ BuildersAreTrue /\ BarsAreTimely /\ TradesAreCounted

\* "Turns the trades of a subscribed stock into QuoteEvents and hands them to the
\* callbacks" (the comment of KisWS).
TradesReachBuilders == unheard = 0
=============================================================================
