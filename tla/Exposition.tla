----------------------------- MODULE Exposition -----------------------------
(***************************************************************************)
(* metrics_handler (dr-metrix-axum/src/handler.rs) scraping the cells that *)
(* HttpLayer writes.  gather() reads them one by one, family after family, *)
(* in the order of its hash tables and without a lock that a request would *)
(* wait for.  The body is represented by what each family adds up to.      *)
(***************************************************************************)
EXTENDS HttpLayer, Sequences

CONSTANT GatherOrders  \* the orders in which gather() may read the cells

\* The cells a request can have written to: the gauge, and a total and a duration
\* in each series of its path.
Families == {"gauge", "total", "duration"}
Gauge    == <<"gauge", Pending>>
Gathered ==
    {Gauge} \cup {"total", "duration"} \X {<<PathLabel(r), s>> : r \in Requests, s \in Statuses}

ASSUME ExpositionAssumption ==
    \A order \in GatherOrders :
        /\ order \in Seq(Gathered)
        /\ \A c \in Gathered : \E i \in 1..Len(order) : order[i] = c
        /\ \A i, j \in 1..Len(order) : order[i] = order[j] => i = j

VARIABLES
    scraping,
    unread,    \* cells the scrape has still to read, in order
    read,      \* what those it has read add up to, by family
    moved      \* history: requests that wrote to a cell since it began

scrapeVars == <<scraping, unread, read, moved>>

Value(c) == CASE c[1] = "gauge"    -> inFlight
              [] c[1] = "total"    -> total[c[2]]
              [] c[1] = "duration" -> dur[c[2]]

NothingRead == [f \in Families |-> 0]

ExpositionInit ==
    /\ Init
    /\ scraping = FALSE /\ unread = <<>> /\ read = NothingRead /\ moved = {}

\* A series that no request has been counted in does not exist yet: it reads zero.
ScrapeBegin ==
    /\ ~scraping
    /\ scraping' = TRUE /\ unread' \in GatherOrders
    /\ UNCHANGED <<vars, read, moved>>

Read ==
    /\ unread # <<>>
    /\ unread' = Tail(unread)
    /\ LET cell == Head(unread) IN read' = [read EXCEPT ![cell[1]] = @ + Value(cell)]
    /\ UNCHANGED <<vars, scraping, moved>>

\* Mutation: the buffer is kept for the next scrape and not cleared.
RespondKeeping ==
    /\ scraping /\ unread = <<>>
    /\ scraping' = FALSE /\ moved' = {}
    /\ UNCHANGED <<vars, unread, read>>

Respond ==
    /\ scraping /\ unread = <<>>
    /\ scraping' = FALSE /\ read' = NothingRead /\ moved' = {}
    /\ UNCHANGED <<vars, unread>>

\* A step of a request, scraped or not.
Served(r) ==
    /\ \/ (Call(r) \/ Record(r)) /\ moved' = IF scraping THEN moved \cup {r} ELSE {}
       \/ Inner(r) /\ UNCHANGED moved
    /\ UNCHANGED <<scraping, unread, read>>

ExpositionNext ==
    \/ ScrapeBegin \/ Read \/ Respond
    \/ \E r \in Requests : Served(r)

ExpositionSpec == ExpositionInit /\ [][ExpositionNext]_<<vars, scrapeVars>>

-----------------------------------------------------------------------------
(* Safety: what the body of a scrape says when its last cell has been read *)

\* A scrape is no snapshot, but a request that does not move while it is taken is
\* in it once: in flight (or lost) or in one series of totals.  Only one that has
\* left the gauge and is not counted is missed.  One that moves may be read twice,
\* before and after, or not at all (handler.rs:21, layer.rs:91-101).
Scraped == {r \in Requests \ moved : pc[r] \notin {"idle", "released"}}

ScrapeCountsEachOnce ==
    scraping /\ unread = <<>> =>
        read["gauge"] + read["total"] \in
            Cardinality(Scraped) .. Cardinality(Scraped) + 2 * Cardinality(moved)

\* Totals and durations are read one family after the other, so that a scrape may show
\* more durations than requests or fewer, but only by requests that moved meanwhile
\* and, for fewer, by those that stood between the two updates (layer.rs:96-103).
Untimed == {r \in Requests \ moved : pc[r] = "counted"}

ScrapeTimesWhatItCounts ==
    scraping /\ unread = <<>> =>
        /\ read["duration"] <= read["total"] + Cardinality(moved)
        /\ read["total"] <= read["duration"] + Cardinality(moved) + Cardinality(Untimed)
=============================================================================
