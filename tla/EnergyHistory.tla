--------------------------- MODULE EnergyHistory ---------------------------
(***************************************************************************)
(* The energy history: the device's archive of days and hours              *)
(* (OpenQuattEnergyHistory), what the page makes of it (views/energy.js),  *)
(* its export and import (storage-history.js), and the answers that reach  *)
(* the page out of order (refreshHistoryMetadata, refreshEnergyHistoryData)*)
(*                                                                         *)
(* One energy figure stands for the seven of a record.  A calendar of days *)
(* 1..LastDay with Hours hours each is a bound; a week has two days here.  *)
(* The rings never wrap (they hold years) and writing them succeeds.  The  *)
(* daily counters are those of the platform: they start at zero with the   *)
(* day, before the next sample, and a power cut takes them back to what    *)
(* was saved of them.                                                      *)
(***************************************************************************)
EXTENDS Integers, Sequences, FiniteSets

CONSTANTS
  LastDay, Hours,
  MaxUse,         \* bound: energy used on one day
  MaxEvents       \* bound: saves, restarts, power cuts, clearings, imports, asks

Week == 2

VARIABLES
  clock,          \* [day, hour, meter]
  book,           \* the archive and the samples since the boot
  truth,          \* ghost: [last, broken, odd], see below
  upload,         \* the import: its file and how far it is
  page,           \* what the page holds, and the requests under way
  events,
  focus           \* bound: "samples", "import" or "page"

vars == <<clock, book, truth, upload, page, events, focus>>

Unknown == -1
Dates   == 1..LastDay
Day     == 0..(Hours - 1)
NoHours == [ h \in Day |-> Unknown ]

-----------------------------------------------------------------------------
(* The device: sampling                                                    *)

Plus(a, b)  == IF b = Unknown THEN a ELSE IF a = Unknown THEN b ELSE a + b
Delta(a, b) == IF a < b THEN Unknown ELSE a - b

SumUp(values, from, to) ==
  LET sum[n \in Int] ==
        IF n < from THEN 0 ELSE Plus(sum[n - 1], values[n])
  IN  sum[to]
Total(hours) == SumUp(hours, 0, Hours - 1)

Last(is) == CHOOSE i \in is : \A j \in is : j <= i

\* the newest record of each hour
FromFlash(b, d) ==
  [ h \in Day |->
      LET is == { i \in 1..Len(b.hours) :
                    b.hours[i].date = d /\ b.hours[i].at[h] /= Unknown }
      IN  IF is = {} THEN Unknown ELSE b.hours[Last(is)].at[h] ]

\* restore_current_day_hours_: what the restored hours lack of the day's total
\* goes to the present hour
Restored(b, c) ==
  LET old == FromFlash(b, c.day)
      of(h) == Plus(b.ram[c.day][h], old[h])
  IN  [b.ram EXCEPT ![c.day] =
         [ h \in Day |-> IF h = c.hour
                         THEN Plus(of(h), Delta(c.meter, Total(old)))
                         ELSE of(h) ]]

WithDay(b, d, wh)  == [b EXCEPT !.days = Append(@, [date |-> d, wh |-> wh])]
WithHours(b, d, at) ==
  IF at = NoHours THEN b
  ELSE [b EXCEPT !.hours = Append(@, [date |-> d, at |-> at])]

\* force_flush, on_shutdown and the end of a day
Written(b) ==
  IF b.active = 0 THEN b
  ELSE WithHours(WithDay(b, b.active, b.now), b.active, b.ram[b.active])

Sampled(b, c) ==
  IF ~b.on THEN b
  ELSE LET anew == b.seen.day /= c.day
           ram  == IF anew THEN Restored(b, c)
                   ELSE [b.ram EXCEPT ![c.day][c.hour] =
                           Plus(@, Delta(c.meter, b.seen.wh))]
           s    == [b EXCEPT !.ram = ram]
           t    == IF b.active \in {0, c.day} THEN s ELSE Written(s)
       IN  [t EXCEPT !.active = c.day, !.now = c.meter,
                     !.seen = [day |-> c.day, wh |-> c.meter]]

NoSamples(b) ==
  [b EXCEPT !.ram = [ d \in Dates |-> NoHours ], !.active = 0, !.now = 0,
            !.seen = [day |-> 0, wh |-> 0]]

\* ghost: a sample was taken
Seen(c) == IF book.on THEN [truth EXCEPT !.last[c.day] = c.meter] ELSE truth

-----------------------------------------------------------------------------
Event == events < MaxEvents /\ events' = events + 1

Use ==
  /\ clock.meter < MaxUse
  /\ clock' = [clock EXCEPT !.meter = @ + 1]
  /\ UNCHANGED <<book, truth, upload, events>>

\* a sample is taken twice a minute, so in every hour of the day
Pass ==
  /\ clock.day < LastDay \/ clock.hour < Hours - 1
  /\ book.on => book.seen = [day |-> clock.day, wh |-> clock.meter]
  /\ clock' = IF clock.hour < Hours - 1 THEN [clock EXCEPT !.hour = @ + 1]
              ELSE [day |-> clock.day + 1, hour |-> 0, meter |-> 0]
  /\ UNCHANGED <<book, truth, upload, events>>

Sample ==
  /\ book' = Sampled(book, clock)
  /\ truth' = Seen(clock)
  /\ UNCHANGED <<clock, upload, events>>

\* "save now"
Flush ==
  /\ Event
  /\ LET b == Sampled(book, clock)
     IN  book' = IF b.on THEN Written(b) ELSE b
  /\ truth' = Seen(clock)
  /\ UNCHANGED <<clock, upload>>

Restart ==
  /\ Event
  /\ book' = NoSamples(IF book.on THEN Written(book) ELSE book)
  /\ upload' = [upload EXCEPT !.token = FALSE]
  /\ UNCHANGED <<clock, truth>>

\* broken: the day's last samples may be lost; odd: its hours and its total
\* come from different sources
PowerCut ==
  /\ Event
  /\ \E kept \in 0..clock.meter :
       /\ clock' = [clock EXCEPT !.meter = kept]
       /\ truth' = [truth EXCEPT !.broken = @ \cup {clock.day, book.active},
                      !.odd = IF kept < Total(FromFlash(book, clock.day))
                              THEN @ \cup {clock.day} ELSE @]
  /\ book' = NoSamples(book)
  /\ upload' = [upload EXCEPT !.token = FALSE]

\* turning it on takes a sample
Toggle ==
  /\ Event
  /\ LET b == [book EXCEPT !.on = ~@]
     IN  /\ book' = Sampled(b, clock)
         /\ truth' = IF b.on
                     THEN [truth EXCEPT !.last[clock.day] = clock.meter]
                     ELSE [truth EXCEPT !.broken = @ \cup {book.active}]
  /\ UNCHANGED <<clock, upload>>

Clear ==
  /\ Event
  /\ book' = NoSamples([book EXCEPT !.days = <<>>, !.hours = <<>>])
  /\ truth' = [last |-> [ d \in Dates |-> Unknown ], broken |-> {}, odd |-> {}]
  /\ upload' = [upload EXCEPT !.valid = @ /\ upload.is \in {"ready", "failed"}]
  /\ UNCHANGED clock

-----------------------------------------------------------------------------
(* write_history and the page's reading of it                              *)

Asked(from, to, hours) == [from |-> from, to |-> to, hours |-> hours]
Whole == Asked(1, LastDay, TRUE)

\* the record of a date with the highest sequence; the current day's is above
\* all others
DayTotal(b, d) ==
  LET is == { i \in 1..Len(b.days) : b.days[i].date = d }
  IN  IF b.active = d THEN b.now
      ELSE IF is = {} THEN Unknown ELSE b.days[Last(is)].wh

\* the hours since the boot are above those of the archive
HourList(b, d) ==
  [ h \in Day |-> IF b.ram[d][h] /= Unknown THEN b.ram[d][h]
                  ELSE FromFlash(b, d)[h] ]

\* getEnergyHistoryRecords over the lines of an answer; a date without a day
\* record is summed up from its hours
Records(b, q) ==
  [ d \in Dates |->
      IF d \notin q.from..q.to THEN Unknown
      ELSE IF DayTotal(b, d) /= Unknown THEN DayTotal(b, d)
      ELSE IF q.hours /\ HourList(b, d) /= NoHours THEN Total(HourList(b, d))
      ELSE Unknown ]

\* @bounds: the oldest and the newest date of the archive
Stored(b)      == { b.days[i].date : i \in 1..Len(b.days) }
HoursStored(b) == { b.hours[i].date : i \in 1..Len(b.hours) }

Start(view, d) == IF view = "week" THEN d - ((d - 1) % Week) ELSE d
Length(view)   == IF view = "week" THEN Week ELSE 1

\* getEnergyHistoryPeriodBounds: from what was answered and from the
\* archive's bounds; the sensors' record of today is always there
Bounds(b, q, view, today) ==
  LET keys == { d \in Dates : Records(b, q)[d] /= Unknown } \cup Stored(b)
                \cup {today}
      low  == CHOOSE d \in keys : \A e \in keys : d <= e
  IN  <<Start(view, low), Start(view, Last(keys))>>

Clamp(p, bounds) == IF p < bounds[1] THEN bounds[1]
                    ELSE IF p > bounds[2] THEN bounds[2] ELSE p

\* shiftEnergyHistoryPeriod: the periods the buttons lead to, from the last
Reached(view, bounds) ==
  { Clamp(bounds[2] - n * Length(view), bounds) : n \in Dates }

\* getEnergyHistoryRequestRange
Range(view, p) == CASE view = "day"  -> Asked(p, p, TRUE)
                    [] view = "week" -> Asked(p, p + Week - 1, FALSE)
                    [] view = "all"  -> Asked(1, LastDay, FALSE)

\* getEnergyHistoryCalendarBuckets: the bars of a period
Buckets(b, view, p) ==
  IF view = "day" /\ HourList(b, p) /= NoHours THEN HourList(b, p)
  ELSE Records(b, Range(view, p))

\* getEnergyHistorySummaryRecords: a day's card keeps the day's total
Summary(b, view, p) ==
  LET records == Records(b, Range(view, p))
  IN  IF view = "day" /\ records[p] /= Unknown THEN records[p]
      ELSE IF view = "day" THEN Total(Buckets(b, view, p))
      ELSE SumUp(Buckets(b, view, p), 1, LastDay)

-----------------------------------------------------------------------------
(* Export and import                                                       *)

\* write_history_export: every date once, the newest record; every hour once
DayLine(d, wh)  == [kind |-> "day", date |-> d, wh |-> wh, at |-> NoHours]
HourLine(d, at) == [kind |-> "hourday", date |-> d, wh |-> Unknown, at |-> at]

NoHoursOnly == Records(book, Whole) = Records(book, [Whole EXCEPT !.hours = FALSE])

Exported(b, mode) ==
  (IF mode = "hours" THEN {}
   ELSE { DayLine(d, DayTotal(b, d)) :
            d \in { e \in Dates : DayTotal(b, e) /= Unknown } })
  \cup
  (IF mode = "days" THEN {}
   ELSE { HourLine(d, HourList(b, d)) :
            d \in { e \in Dates : HourList(b, e) /= NoHours } })

NoUpload == [ is |-> "none", lines |-> {}, was |-> [ d \in Dates |-> Unknown ],
              before |-> 0, own |-> FALSE, valid |-> FALSE, token |-> FALSE,
              sent |-> {} ]

\* handleEnergyHistoryImportFileSelection: the device's own export, or a file
\* from elsewhere
Choose ==
  /\ Event
  /\ upload.is = "none"
  /\ \/ \E mode \in {"days", "hours", "days_and_hours"} :
          LET lines == Exported(book, mode)
          IN  /\ lines /= {}
              /\ upload' = [NoUpload EXCEPT !.is = "ready", !.lines = lines,
                              !.was = Records(book, Whole),
                              !.before = clock.day, !.own = TRUE,
                              !.valid = \/ mode = "days_and_hours"
                                        \/ mode = "days" /\ NoHoursOnly]
     \/ \E line \in {DayLine(1, MaxUse + 1),
                       HourLine(LastDay, [NoHours EXCEPT ![0] = 1])} :
          upload' = [NoUpload EXCEPT !.is = "ready", !.lines = {line}]
  /\ UNCHANGED <<clock, book, truth>>

\* importEnergyHistoryRecords, also once more after a failure: it fetches the device's token first
Begin ==
  /\ upload.is \in {"ready", "failed"}
  /\ upload' = [upload EXCEPT !.is = "busy", !.token = TRUE,
                  !.valid = @ /\ (upload.is = "failed" \/ book.days = <<>>)]
  /\ UNCHANGED <<clock, book, truth, events>>

\* import_history_records: a date that is stored is left as it is
Present(b, line) == line.date \in IF line.kind = "day" THEN Stored(b)
                                  ELSE HoursStored(b)

Imported(b, line) ==
  IF Present(b, line) THEN b
  ELSE IF line.kind = "day" THEN WithDay(b, line.date, line.wh)
  ELSE WithHours(b, line.date, line.at)

Left == upload.lines \ upload.sent

\* the lines go in order: the days, then the hours
Earlier(a, b) == \/ a.kind = "day" /\ b.kind = "hourday"
                 \/ a.kind = b.kind /\ a.date < b.date

\* ghost: its day and its hours come from one export, made when the day was over
Matches(line) ==
  /\ upload.own /\ line.date < upload.before
  /\ line.kind = "day" \/ Total(line.at) = upload.was[line.date]

Failed == [upload EXCEPT !.is = "failed", !.sent = {}, !.token = FALSE]

\* bound: a batch has one line
Post ==
  /\ upload.is = "busy" /\ Left /= {}
  /\ LET line == CHOOSE l \in Left : \A m \in Left \ {l} : Earlier(l, m)
     IN  \E answered \in BOOLEAN :
           IF ~upload.token
           THEN /\ upload' = Failed
                /\ UNCHANGED <<book, truth>>
           ELSE /\ book' = Imported(book, line)
                /\ truth' = IF Present(book, line) \/ Matches(line) THEN truth
                            ELSE [truth EXCEPT !.odd = @ \cup {line.date}]
                /\ upload' =
                     IF ~answered THEN Failed
                     ELSE [upload EXCEPT !.sent = @ \cup {line}]
  /\ UNCHANGED <<clock, events>>

Finish ==
  /\ upload.is = "busy" /\ Left = {}
  /\ upload' = IF ~upload.valid THEN NoUpload
                ELSE [upload EXCEPT !.is = "done", !.lines = {}, !.sent = {}]
  /\ UNCHANGED <<clock, book, truth, events>>

-----------------------------------------------------------------------------
(* The requests of the page.  v counts what was done to the archive        *)

\* "meta" is the request for the archive's bounds only
NoPage == [ v |-> 0, ids |-> 0, out |-> {}, sel |-> "a",
            meta |-> [at |-> 0, shown |-> 0, floor |-> 0, due |-> TRUE],
            at |-> 0, by |-> "none", raw |-> "none", label |-> "none",
            due |-> TRUE ]

Keep == UNCHANGED <<clock, book, truth, upload>>

Request(what, query, force) ==
  [ id |-> page.ids + 1, what |-> what, query |-> query, first |-> query,
    bounds |-> FALSE, force |-> force, since |-> page.v, v |-> -1 ]

Sent(p, r) == [p EXCEPT !.ids = @ + 1, !.out = @ \cup {r}]

\* refreshHistoryMetadata: a request under way or a young answer will do
RefreshMeta(force) ==
  /\ Event
  /\ force \/ (page.meta.at = 0 /\ page.meta.due)
  /\ page' = Sent([page EXCEPT !.meta.at = page.ids + 1],
                  Request("meta", "meta", force))
  /\ Keep

\* getEnergyHistoryRequestQuery: without any data only the bounds are asked for
Query(p) == IF p.raw = "none" THEN "meta" ELSE p.sel

Fetch(p, r) == Sent([p EXCEPT !.at = p.ids + 1, !.by = r.query], r)

Pending(query) == page.at /= 0 /\ page.by = query
Young(query)   == page.label = query /\ page.raw /= "none" /\ ~page.due

\* refreshEnergyHistoryData; the storage page only asks for the bounds
RefreshEnergy(force) ==
  /\ Event
  /\ \E bounds \in BOOLEAN :
       LET query == IF bounds THEN "meta" ELSE Query(page)
       IN  /\ force \/ ~(Pending(query) \/ Young(query))
           /\ page' = Fetch(page, [Request("energy", query, force)
                                     EXCEPT !.bounds = bounds])
  /\ Keep

\* setEnergyHistoryView, setEnergyHistoryPeriodValue
Select ==
  /\ Event
  /\ \E s \in {"a", "b"} \ {page.sel} :
       LET p == [page EXCEPT !.sel = s]
       IN  page' = Fetch(p, Request("energy", Query(p), TRUE))
  /\ Keep

\* clear-decision-log-history, clear-lifetime-energy-history: the answered
\* command empties what the page holds, and asks anew
ClearAll ==
  /\ Event
  /\ page' = Sent([page EXCEPT !.v = @ + 1, !.raw = "none", !.due = TRUE,
                               !.meta.at = page.ids + 1],
                  [Request("meta", "meta", TRUE) EXCEPT !.since = page.v + 1])
  /\ Keep

Answer ==
  /\ \E r \in page.out :
       /\ r.v = -1
       /\ page' = [page EXCEPT !.out = (@ \ {r}) \cup {[r EXCEPT !.v = page.v]}]
  /\ Keep /\ UNCHANGED events

\* only the request the page waits for counts
Counts(r) == page.meta.at = r.id

MetaArrives(r, ok) ==
  page' = [page EXCEPT !.out = @ \ {r},
    !.meta = IF ~Counts(r) THEN @
             ELSE [at    |-> 0,
                   shown |-> IF ok THEN r.v ELSE -1,
                   floor |-> IF r.force /\ r.since > @.floor THEN r.since
                             ELSE @.floor,
                   due   |-> FALSE]]

\* with the bounds known the selected period is fetched in the same request;
\* whatever request it was, it is the last to arrive that stays
EnergyArrives(r, ok) ==
  page' = IF ok /\ r.query = "meta" /\ ~r.bounds
          THEN [page EXCEPT
                  !.out = (@ \ {r}) \cup {[r EXCEPT !.query = page.sel, !.v = -1]}]
          ELSE [page EXCEPT !.out = @ \ {r}, !.at = 0, !.due = FALSE,
                  !.raw   = IF ok THEN r.query ELSE "none",
                  !.label = IF ok THEN r.query ELSE r.first]

Arrive ==
  /\ \E r \in page.out, ok \in BOOLEAN :
       /\ ok => r.v /= -1
       /\ IF r.what = "meta" THEN MetaArrives(r, ok) ELSE EnergyArrives(r, ok)
  /\ Keep /\ UNCHANGED events

Expire ==
  /\ page' = [page EXCEPT !.due = TRUE, !.meta.due = TRUE]
  /\ Keep /\ UNCHANGED events

-----------------------------------------------------------------------------
Init ==
  /\ focus \in {"samples", "import", "page"}
  /\ clock = [day |-> 1, hour |-> 0, meter |-> 0]
  /\ book = NoSamples([ days |-> <<>>, hours |-> <<>>, ram |-> <<>>,
                        active |-> 0, now |-> 0, seen |-> 0, on |-> TRUE ])
  /\ truth = [last |-> [ d \in Dates |-> Unknown ], broken |-> {}, odd |-> {}]
  /\ upload = NoUpload /\ page = NoPage /\ events = 0

\* bound: around an import every change is sampled at once, energy is used on
\* the days before the last and the file chosen on the last
Settled == book.seen = [day |-> clock.day, wh |-> clock.meter]

BookStep ==
  \/ Sample
  \/ focus = "samples" /\ (Use \/ Pass \/ Restart \/ Flush \/ PowerCut \/ Toggle)
  \/ /\ focus = "import" /\ Settled
     /\ \/ clock.day < LastDay /\ Use
        \/ Pass \/ Begin \/ Post \/ Finish
        \/ clock.day = LastDay /\ Choose
        \/ upload.is \in {"ready", "busy", "failed"} /\ Clear
        \/ upload.is = "busy" /\ Restart

PageStep ==
  \/ \E force \in BOOLEAN : RefreshMeta(force) \/ RefreshEnergy(force)
  \/ Select \/ ClearAll \/ Answer \/ Arrive \/ Expire

Next ==
  /\ UNCHANGED focus
  /\ \/ focus /= "page" /\ BookStep /\ UNCHANGED page
     \/ focus = "page" /\ PageStep

Spec == Init /\ [][Next]_vars

-----------------------------------------------------------------------------
(* A day that was sampled to its end stays what it was, whatever is saved, *)
(* restarted or imported later, and a period's card adds up such days      *)
(* (write_record_, import_history_records, getEnergyHistorySummary).       *)
DaysAreTrue ==
  LET true == { d \in 1..(clock.day - 1) \ truth.broken :
                  truth.last[d] /= Unknown }
  IN  /\ \A d \in true : /\ Summary(book, "day", d) = truth.last[d]
                        /\ Buckets(book, "week", Start("week", d))[d]
                             = truth.last[d]
      /\ true = 1..(clock.day - 1) /\ book.active = clock.day =>
           Summary(book, "all", 0)
             = SumUp(truth.last, 1, clock.day - 1) + book.now

(* The hours of a day add up to its total, across restarts too             *)
(* (restore_current_day_hours_).                                           *)
HoursAddUp ==
  \A d \in Dates \ truth.odd :
    DayTotal(book, d) /= Unknown /\ HourList(book, d) /= NoHours =>
      Total(Buckets(book, "day", d)) = Summary(book, "day", d)

(* An export of this device, imported after the archive was cleared, shows *)
(* every past day as before (write_history_export,                         *)
(* parseEnergyHistoryImportPayload).                                       *)
Reimported ==
  upload.is = "done" /\ upload.valid =>
    \A d \in 1..(upload.before - 1) :
      Records(book, Whole)[d] = upload.was[d]

(* Whatever period the page holds, every day of the archive is within      *)
(* reach of its buttons (getEnergyHistoryPeriodBounds).                    *)
AllReachable ==
  \A view \in {"day", "week"} : \A held \in Dates :
    LET q      == Range(view, Start(view, held))
        bounds == Bounds(book, q, view, clock.day)
    IN  \A d \in Stored(book) \cup {clock.day} :
          Start(view, d) \in {bounds[2]} \cup Reached(view, bounds)

(* Once a forced request has answered, the page never shows numbers from   *)
(* before it was sent: a cleared log does not come back                    *)
(* (refreshHistoryMetadata).                                               *)
MetaNotStale == page.meta.shown = -1 \/ page.meta.shown >= page.meta.floor

(* The energy page knows which period it holds, so that the next poll      *)
(* fetches the selected one if it is another (refreshEnergyHistoryData).   *)
HoldsAsLabelled == page.raw /= "none" => page.raw = page.label

EnergyTrue ==
  /\ focus /= "page" => DaysAreTrue /\ HoursAddUp /\ Reimported /\ AllReachable
  /\ focus = "page" => MetaNotStale /\ HoldsAsLabelled
=============================================================================
