# Verification of outlook-mcp

outlook-mcp is an MCP server: an AI agent calls its tools, and each tool turns
into a few HTTP requests to Microsoft Graph about one person's mail, calendar,
contacts and tasks. The server keeps next to nothing between two calls. What
makes it hard is therefore not its own state but everyone else's: the mailbox
changes between any two requests of a call, other clients of the same mailbox
write at the same time, Graph throttles, forgets cursors and loses answers, the
SDK resends requests, and the agent holds the state (cursors) that the server
does not.

The modules here model the tools in which that matters, together with the
parties around them. An await in the code is the only place where another
party can act, so one action is one request with the code that runs from its
answer to the next await.

## Inventory

| Component (`src/src/outlook_mcp/`) | State | Operations | Hard about it | Correct when |
|---|---|---|---|---|
| delta tools: `tools/_delta.py`, `mail_delta`, `calendar_delta`, `contacts_delta` | none; the cursor is the agent's | one call: up to a cap of pages, each following a link | folder changes between pages; the cap stops in the middle of a round; 410, throttling, lost replies | no change up to the cursor is missed |
| digest: `tools/digest.py` | none; a dict of cursors is the agent's | `changes_since`: three drains under `asyncio.gather`, resync on 410 | one of several runners fails or starts over; a drain stops before the end; a pull without a token | what a digest does not report is covered by its window or by `_meta.resync` |
| throttling: `throttle.py`; bulk read: `tools/mail_read.py` | per call: pending, merged, attempts | `send_with_retry`, `retry_throttled_subrequests`, `read_messages` | two nested retry loops; answers spread over several batches | every id is reported as last answered, and no retry comes early |
| mail attachments: `tools/mail_attachments.py` | per call: sizes, offset | `send_with_attachments`, `attach_to_draft`, `_upload_large_file` | file edited during the upload, chunk refused, draft taken by the user | success means that all is attached |
| calendar writes: `tools/calendar_write.py` | per call: the event as read | `update_event` and single-request writes | reads and PATCH are not atomic; Graph silently restores occurrences; resent PATCH; guests get mail | a series changes only as asked, and nobody gets mail the policy forbids |
| recurrence: `tools/_recurrence.py` | none | `move_pattern`, `same_pattern`, `_reconcile_range` | weekdays modulo 7, week boundary, month ends, dates of instants | the moved series is the old one, shifted |
| batch triage: `tools/batch.py` | none | one `$batch` of up to 20 writes | duplicate ids, throttled sub-requests, a batch sent twice | one result per id, as answered |
| drafts: `tools/mail_drafts.py` | none | `require_draft`, create, update, send, delete | the draft is sent or deleted after the check | nothing but a draft is touched |
| overrides: `tools/inference_overrides.py` | none | list, then PATCH or POST | another client creates or deletes in between | a repeat changes nothing |
| session: `auth.py`, `graph.py`, `cli.py`, `server.py`, `tools/admin.py`, `tools/user.py` | auth record on disk, token cache, startup error, credential | login, status, logout, switch app, serve | CLI and server share the files; a human takes minutes to sign in | a server uses the session of its own app, and remedies work |
| configuration: `config.py` | `config.json` | `atomic_write`, load, repair | crash between writing and replacing; two flags that must agree | a reader sees a whole file; a server with a bad config is harmless |
| permissions and toolsets: `permissions.py`, `toolsets.py` | config | which tools are offered and refused | a tool can send mail without being in `mail_send` | no policy without `mail_send` lets mail out |
| to do: `tools/todo.py`, `todo_attachments.py` | cached default list id | tasks, checklist items, attachments | the cache outlives the list; the walk over the lists is paged | tasks go to the list that is meant |
| resolvers and folders: `folder_resolver.py`, `calendar_resolver.py`, `tools/mail_folders.py` | per call: queue, matches | walk of the folder tree, then the request | tree changes during the walk | a folder that stays is found |
| pagination: `pagination.py` | none; `$skip` and `$skiptoken` cursors | list pages | list shifts between pages; names change hands | what is missed or repeated is bounded by what left or came |
| mail writes and triage, contacts | none | one request each, after the policy | sent again by the SDK, repeated by the client | an answer is true of what happened |
| single reads, validation, errors | none | one GET each; string checks, hints | wording | wording |

How they interact: the digest calls the delta tools, which call
`send_with_retry`; `read_messages` calls it inside its own retry loop; the
attachment tools call `require_draft`; `update_event` calls the recurrence
functions; tools that take a folder call the resolver; every tool that writes
passes `permissions.py`; every tool gets its client from the session. The agent
passes cursors from one reply into the next call. Other clients share the
mailbox with all of them. Nothing else is shared, so a module per group of
components with its own environment loses no interaction but those listed
under "Not modelled".

## Modules

| Module | Models | State and actions |
|---|---|---|
| `DeltaCursor` | Graph's cursors, shared by `DeltaFeed` and `Digest` | a cursor is a kind of link, a position (the tick up to which its holder is told), a target (the tick at which the round will end) and whether the round is a snapshot; `Lists` says which items a page must list |
| `ChangeFeed` | what a cursor-based feed promises, abstractly | a follower has a view and a mark, and is right about everything up to the mark |
| `DeltaFeed` | a delta tool, `fetch_delta_pages`, Graph and the agent | `url`, `got`, `count`, `attempt` are the locals `url`, `collected`, its length and the retry count; `token` and `view` are the agent's; one action per outcome of a request (`DeltaLinkPage`, `NextLinkPage`, `NoLinkPage`, `Throttled`, `Fails`, `Expires`) and per thing the agent does (`Start`, `Adopt`, `ReplyLost`, `SeeError`) |
| `Digest` | `changes_since` and its runners | `run[r]` holds a runner's locals; a pull of a delta tool is one step (`PullDone`, `PullMore`, `PullNoLink`, `PullGone`, `PullFails`), as `DeltaFeed` shows it may be taken: it lists the rows and returns the cursor that go together. `Deliver` is the agent of the module's doc: it stores `delta_tokens` as they come, a cursor of None included |
| `BatchRead` | `read_messages` with both retry loops | one step per answer to a `$batch` post |
| `Attachments` | `send_with_attachments`, `attach_to_draft`, `_upload_large_file` | one step per request; `disk` and `draft` belong to the user as well |
| `EventUpdate` | `update_event`, Graph's event and other clients | `seen` is `_current`, `pin` is `if_match`; `Read`, `ReadOccurrences`, `ReadLocalStart` and `Patch` are the requests; `AfterRead`, `StartZone`, `Resent`, `Sent` are what the code derives between them |
| `RecurrencePattern` | patterns as `_recurrence.py` compares, moves and expands them, and the days Graph schedules for them | no state: `SamePattern`, `Movable`, `Moved`, `Shorthand`, and the Gregorian calendar as arithmetic on days; `Occurs` is the reference, the days Graph schedules |
| `Rescheduling` | the dates and patterns of one series through `create_event` and `update_event` | one step per call, for what is in between is `EventUpdate`'s; `master` is the series at Graph, `call` how the last call ended |
| `Session` | `config.json`, the auth record, `outlook-mcp auth`, `status` and `logout`, the server, and the operator who does what the messages say | `cli[t]` is the sign-in in terminal t, `server` the server's config, credential and `startup_error`; `StartAuth`, `Consent`, `WriteTemp`, `ReplaceRecord` are a sign-in and the steps of `atomic_write` (`temp[t]` is its temporary file), at each of which it may fail (`WriteFails`) or die (`Kill`); `StartServer`, `Lifespan`, `ToolCallRefused`, `StopServer` the server's life |
| `FolderLookup` | `_lookup_display_name` and the `move_message` after it | `queue`, `matches` are the locals of the walk; one listing per request (`ListTop`, `ListChildren`), then `MoveMessage`; the tree changes in between |
| `Paging` | `wrap_nextlink`, `apply_pagination`, `build_request_config` and the tools that list pages | `cursor` is the agent's; one page per step (`ListPage`), while entries leave and arrive and names go to other places |
| `Writes` | all tools that change the mailbox | a call passes the policy (`Call`), may look something up (a draft, an override, the attendees, the default list), and sends one request that the SDK may send again and whose tool the client may repeat; `Tools` is the table of what each tool is, from `permissions.py`, `toolsets.py` and the tools |
| `DeltaFeedProofs`, `DigestProofs`, `AttachmentsProofs`, `FolderLookupProofs`, `SessionProofs`, `WritesProofs` | theorems about the module of the name | |
| `MailReadProofs` | theorems about `Paging` and `BatchRead`, the two ways mail is read | |
| `CalendarWriteProofs` | theorems about `Rescheduling` with `RecurrencePattern`, and about `EventUpdate`, the two halves of `calendar_write.py` | |
| `MCDigest`, `MCBatchRead`, `MCRescheduling` | values and symmetry for TLC | |

A proof module of two components extends both, so their names are apart: it is
`UpdateSpec` and `UpdateTypeOK` in `EventUpdate`, `BatchSpec` and `BatchTypeOK`
in `BatchRead`.

`DeltaFeed` implements `ChangeFeed`: its `token.pos` is the mark. `Digest` uses
the same cursor algebra with whole pulls as steps.

Operators whose names extend that of another (`TempFileShared`,
`TryCachedTokenOfAnyApp`, `EventStartDateAsWritten`, ...) are wrong variants of
the code, never used by a specification. Each one breaks the property it is
kept for, which shows that the property depends on the code.

## Runs

| Run | Properties | Shows | Bounds |
|---|---|---|---|
| `delta_feed` | `NoLostChange`, `RoundComplete`, `FollowsFeed`, `EventuallyInSync` | no change is lost across pages, caps, throttling, expiry, errors and lost replies, and a polling agent gets in sync | 3 items, page of 2, cap of 1 page, 4 ticks, 2 faults, 1 retry |
| `digest` | `NoSilentLoss`, `NothingRecentIsLost`, `HistoryNotCounted`, `NoSilentRewind`, `EventuallyCaughtUp` | for an agent that stores whatever cursors it is handed: what exists and is not old is never lost, and every change is reported unless the agent was started over, by `_meta.resync` or by a None it was handed | 3 messages, 2 of them old and there from the start, and 1 contact; tools that stop after 1 row, 2 pulls per drain, 2 changes, 2 faults |
| `batch_read` | `ReportsLastAnswer`, `RetryAfterHonoured`, `GivesUpLast` | every id is in the result as last answered, throttled only after all retries, and no retry is early | 3 ids, 2 retries per loop, Retry-After of 1, 5 or none, 3 refused batches |
| `attachments` | `SuccessIsComplete`, `SentLast`, `CallEnds` | success is complete but for edited files and refused chunks; sending comes last; an upload ends if no file shrinks | 2 files of up to 5 bytes, threshold 1, chunk 2, 1 edit, 2 faults |
| `attachments_refused` | `SuccessAttachesAll`, violated | a refused chunk is not noticed | as above |
| `event_update` | `ZoneChangeIsSendable`, `SeriesKeepsOccurrences`, `SeriesChangedAsAsked` | a series keeps its changed occurrences and gets the pattern and zone asked for, whatever others do between the reads and the PATCH | 3 zones and a custom one, 2 patterns, 1 occurrence, 3 edits, 2 sends |
| `rescheduling` | `MovesByDays`, `MovesByDates`, `EchoAsksForSameDays`, `StartsOnItsDay` | a moved series is the old one, shifted; what is taken for an echo of the series' own pattern is one; the range begins on the first day | 4 days around a month end, 8 patterns of 5 kinds, 91 days compared |
| `session` | `ServesOwnApp`, `RecordIsOfASignIn`, `WritesNotStranded`, `RemedyWorks` | whatever two terminals, a server, an operator and Microsoft do, a server uses the session of its own app, no record is ever torn, and following the errors ends in a server that serves if the server is started again | 2 apps, 2 terminals, 2 upsets |
| `folder_lookup` | `TypeOK`, `NothingStandingIsOverlooked`, `TreeAtRestIsSearched`, `CallEnds` | a folder that stays is not overlooked, in a tree at rest the right one is found, and the walk ends | every tree of 4 folders, 2 changes |
| `paging` | `TypeOK`, `OneCalendar`, `MissesAtMostTheRemoved`, `RepeatsAtMostTheInserted`, `EndIsReached` | a listing misses and repeats no more than what left or came, and a calendar's pages are one calendar's | 5 entries, 2 places, pages of 1 or 2, 3 changes |
| `search_pages` | `EndIsReached`, violated | a search never gets past page one | 3 entries, no change |
| `writes` | `RepeatsChangeNothing`, `AnswersAreTrue`, `OnlyDraftsAreTouched`, `NothingMailedWithoutMailSend`, `TasksGoToTheDefaultList` | what is resent or repeated does no harm where the code says so, answers are true, drafts tools touch drafts only, the policy holds, tasks go to the default list | 3 policies and `read_only`, 2 calls, 2 sends, 1 change by others, list pages of one list and a cap of 2 |

`FolderLookup` and `Paging` have their `TypeOK` among the invariants of their
runs. The other modules' types are part of the inductive invariants that are
proved.

Why these bounds are enough. In `DeltaFeed` three items on pages of up to
two rows, with a cap of two rows, make a round that one call cannot finish and
a reply of three rows, one above the cap; four ticks
let every item change before and during it; two faults are a lost reply and an
expiry in the same history. In `Digest` two pulls per drain are the least with
a second pull (a 410 may hit either); two resources are the least with a
sibling; three messages are the least of which a drain of two pulls leaves
something, so that a digest ends inside a snapshot and the next goes on there;
two of them, older than the window, tell news from history. Its old messages
are there from the start (`MCInit`): one that came later would not be old. In `BatchRead` the two loops may each run out, and three ids can be
answered in three different batches. In `Attachments` lengths 0 to 5 with
chunks of 2 give empty, one-chunk, whole-chunk and ragged files on both sides
of the threshold. In `EventUpdate` three edits suffice to turn an event into a
series, edit an occurrence and re-pattern it after the call's reads. In
`Rescheduling` the four days (Tuesday 27, Wednesday 28 and Saturday 31 October,
Sunday 1 November 2026) cross a week's end under both usual week boundaries and
a month's end, the fortnightly patterns differ in nothing but the week
boundary, and 91 days hold every phase of a fortnight and three month ends; calls follow each other without a bound. In `Session` two apps
are the least with a record of the wrong one, two terminals the least with a
sign-in that overtakes another, and two upsets can both break the config and
kill a command, or end a session and change the app. In `FolderLookup` four
folders are a chain, a pair of siblings below another folder, or two of the
name at different depths; two changes can take a folder away before the walk
gets to it and put another behind it. In `Paging` five entries on pages of two
are three pages, and three changes can hit both gaps between them. In `Writes`
two sends are the least with a resend that comes after an effect, two calls the
least with a stale cache, and a cap of two pages the least at which a walk over
three lists stops short.

## Fairness

`DeltaFeed` and `Digest` assume that the agent keeps calling and reading its
replies and that Graph in the end answers a request: the tools have no queue
or lock of their own on which a call could wait, `httpx` has a timeout, and
polling with the returned cursor is what the tools are for. Faults and
changes are not fair and are bounded, so the liveness properties say: once they
stop, the agent catches up. `Attachments` assumes that each request ends, in an
answer or an error, and `FolderLookup` that the call goes on. `Paging` assumes
that the agent asks for the next page. `Session` assumes that clients start the
server, that in a server without a credential tools are called
(strongly fair, for a server may be stopped before the first call), that the
operator does what the messages say and that a sign-in whose command lives is
finished; editing, revoking, signing out and killing are not fair. Nothing in
the code makes a client end the server it has started, so nothing is assumed of
`StopServer`: `RemedyWorks` has as its premise that the server is down again
and again, and says nothing of one that is never restarted.
`BatchRead`, `EventUpdate`, `Rescheduling` and `Writes` need no fairness.

Deadlock is checked for `delta_feed` and `digest`, whose parties go on for
ever. The others stop: a call returns or raises, a bound is used up, or a
server serves and no upset is left.

## Proofs

All eight proof modules hold for every value of the constants that meets the
module's named assumption; the bounds that keep TLC's runs finite are
constants, too, so the theorems hold for any number of faults, edits and calls.
One theorem supposes more, in its statement: `RepeatedForInserted`, which
excludes the search.

`DeltaFeedProofs`, for every finite set of items and all sizes
(`DeltaAssumption`):

- `InductiveInvariant`: `Spec => []IInv`. `NoLostChange` alone is not
  inductive, for it says nothing of a call under way. `IInv` adds that every
  cursor in play points into the past and aims at or beyond the tick at which
  the agent began its round (`CursorOK`), and that whoever merges the rows
  collected so far may go on from the cursor that goes with them (`Serves`),
  for the call's URL (`GetInv`), its reply (`ReplyInv`) and the agent
  (`AgentInv`). For a snapshot `Serves` says moreover that items deleted before
  it began are not in the view: the snapshot will never mention them. The
  heart is `PageServes`: one page keeps `Serves` while the folder moves on.
- From it `TypeCorrect`, `NoChangeIsLost`, `RoundsAreComplete`,
  and `OvershootIsUnderAPage` (`CountInv`), which is all that can be said of the
  size of a reply: less than a page above the cap.
- `ImplementsChangeFeed`: `Spec => Feed!Spec`; `Adopt` is an `Advance`,
  dropping an expired cursor a `Forget`, all other steps of a call stutter.

`DigestProofs`, for every set of resources and items, all page sizes and caps
(`DigestAssumption`), and the agent that stores what it is handed:

- Up to its own cursor, a drain has of every item that is due (`Due`) the row
  that is true now, or the agent was told it before (`Told`). Due is what exists
  and is not old, which snapshots and deltas list alike, and, for a drain that
  goes on from the agent's cursor, what changed after the baseline. A cursor of
  None holds no tick, so that nothing is due up to it, and the drain that starts
  from it is a snapshot. This gives `NothingIsLostSilently` and
  `NothingRecentIsEverLost`.
- A drain from the agent's cursor lists only what changed after it (`News`), and
  that cursor has reached the baseline unless it is inside the snapshot that set
  the baseline (`CursorInv`). This gives `HistoryIsNoNews`, with the exception
  for a digest that goes on inside a snapshot, and `RewindsAreAnnounced`.
- `InductiveInvariant` is the conjunction of these with the types
  (`TypeCorrect`).

`MailReadProofs`, first for any finite set of entries, any places, page sizes
and number of changes (`PagingAssumption`; that the value for "any place" is not
a place is all it asks of the names):

- What counts of a cursor that skips k entries is the number of entries before
  the k-th that were there all along and have not been shown (`Missed`), and of
  those shown that come again (`Again`). A removal adds one to the first, an
  arrival one to the second, and a page of n entries adds to neither when the
  next cursor skips k + n, which is what `wrap_nextlink` writes. From this
  `PagingInvariant`, and `PagingTypeCorrect`, `PagesAreOfOneCalendar` and
  `MissedForRemoved`.
- `RepeatedForInserted` is about the tools whose `$skip` Graph follows. A search
  starts over with each page (finding 2), so the theorem excludes it by
  hypothesis, as the run `paging` does by its set of tools.

Then, for every finite set of sub-requests, any number of retries
and any waits (`BatchAssumption`, which asks that `Backoff * 2^k` be a natural
number): what is in the `$batch` that is out has no result and was answered
once per attempt (`PendingInv`), and what is no longer in it was kept as it was
answered last (`KeptInv`). The wait before a retry bounds each wait asked for
because a finite set of numbers has a largest one (`MaxWaitBounds`). From this
`BatchTypeCorrect`, `LastAnswersAreReported`, `WaitsAreLongEnough`, `GivenUpLast`.

`AttachmentsProofs`, for all files and sizes (`AttachmentsAssumption`): where
the call is says what there is still to do (`StageInv`), an upload session has
the bytes before `offset` unless a chunk was refused (`UploadInv`), and a file
that nobody edits and of which no chunk is refused is attached, still to be
attached, or the one under way (`AccountedInv`). From this `TypeCorrect`,
`SuccessesAreComplete`, `MessageIsSentLast`.

`CalendarWriteProofs`, first for every set of days, patterns, offsets and any
window (`ReschedulingAssumption`):

- A week boundary that moves with the day leaves the number of weeks between two
  days as it was (`WeekShift`), so a moved weekly pattern schedules the old days,
  shifted, for every start, interval, set of days and week boundary
  (`WeeklyMoveIsExact`).
- The calendar is arithmetic on days: every day has its year of the era (`YearIsFound`) and its month
  (`MonthIsFound`), and a date up to the 28th stays in its month when it is
  counted on to another date up to the 28th (`CommonDay`, `InMonth`). As nothing
  else of the calendar is needed, a monthly or yearly pattern that moves within
  the month, between days that every month has, schedules the old days, shifted
  (`DateMoveIsExact`), for every start and day, leap years and centuries
  included.
- Patterns that `same_pattern` takes for equal schedule the same days
  (`SamePatternSameDays`).
- With the types these are inductive, and give `TypeCorrect`, `DaysMoveExactly`,
  `DatesMoveExactly`, `EchoesAreEchoes`, `RangesStartOnTheirDay`.

Then, for every set of zones, patterns and occurrences and any number of edits
and sends (`EventAssumption`):

- `UpdateInvariant`: the PATCH of a series carries the change key of the
  first read (`PinInv`); while the key has not moved the event is as it was
  read, and a series that passed the check has no changed occurrence
  (`FreshInv`); times go out with a zone (`ZoneInv`).
- From it `UpdateTypeCorrect`, `ZoneChangesAreSendable`, and the action
  properties `OccurrencesAreKept` and `ChangesAreAsAsked`: a PATCH that Graph
  takes finds the event that was read (`TakenIsFresh`).

`FolderLookupProofs`, for any finite set of folders and any number of changes
(`FolderLookupAssumption`): a folder that stays hangs from the top by ancestors
that stay (`StillInv`), so what a listing said of any of them is still so. While
the walk goes on such a folder of the wanted name is among the matches, or the
queue holds it or one of its ancestors, which will lead to it (`CoverInv`). In a
tree at rest no folder of the queue is an ancestor of another or of a match, so
no folder is visited twice and the matches are counted right (`RestInv`). From
this `TypeCorrect`, `StandingFoldersAreFound`, `LookupsAreRightAtRest`.

`SessionProofs`, for any apps, terminals and upsets (`SessionAssumption`): a
terminal's temporary file is torn only while its command is before `WriteTemp`
or has died there, and holds the command's own app from then on, which the
command has put into `signedIn` before; so what replaces the record is whole
(`SignInInv`); a live session may write unless one of its app's sign-ins was
narrowed (`ScopeInv`); a server's credential is of its own app and was made
from such a session (`CredInv`). From this `TypeCorrect`, `OnlyItsOwnApp`,
`RecordsAreWhole`, `NobodyIsStranded`.

`WritesProofs`, for any policies, caps, sends, calls and changes by others
(`WritesAssumption`): each row of the table of tools is sound (`SoundRow`: a
tool writes to other people only if its category or its arguments say so, an
idempotent tool patches, and so on; one lemma per group of tools). An object
never becomes a draft or an override it was not (`Grows`), so what a lookup
found is still so or the object is gone (`LookInv`). A list that is the default
during the whole call is ahead of the walk or found by it (`ListInv`). What
took effect once leaves later requests of the call nothing to do
(`SettledInv`). That an error is of a request without effect (`AnswersAreTrue`)
is claimed of requests that were sent once and of ids that occur once, and not
of parts of a batch to which Graph gave no response (`silent`): the code reports
those as errors, and some took effect. From this `RepeatsAreHarmless`, `AnswersAreTrueAlways`,
`DraftsOnly`, `MailNeedsMailSend`, `TasksLandInDefault`: all of the run's
properties.

Every safety property of a passing run is so the statement of a theorem. Only
model-checked: the liveness properties `EventuallyInSync`,
`EventuallyCaughtUp`, both `CallEnds`, `EndIsReached` and `RemedyWorks`, for
reasoning under fairness is beyond the prover. Nothing is proved by
induction over data: the lineage of a folder is the smallest closed set that
holds it, the year and month of a day come from divisions, and sequences are
reasoned about by their positions.

## Findings

1. The status of a chunk PUT is never looked at
   (`tools/mail_attachments.py:233`, run `attachments_refused`): after a refused
   chunk the message is sent without the file, and success is reported.
2. `search_mail` never gets past its first page (`pagination.py:148`, run
   `search_pages`): Graph pages a search by `$skiptoken`, which the SDK's query
   parameters have no field for, so the second request is the first again, with
   the same cursor and `has_more` true. `tools/todo.py:146-149` describes the
   mechanism.

## Where the code and its documents disagree

Each of these is a step or a state of a model that a doc or a comment excludes.
The property that the sentence would be holds only with an exception, which is
written in the property and named here.

- A reply may be larger than its cap. `_delta.py:75-76` bounds a call "to at
  most this many items" and `_delta.py:192-193` says "up to `page_size *
  PAGE_SIZE_CAP_MULTIPLIER` items", but the cap is looked at when a page that
  does not end the round is already in (`_delta.py:262`), so a reply has up to
  a page less one row more. In the run `delta_feed` a reply of three rows under
  a cap of two is reached; `OvershootIsUnderAPage` is the bound that holds.
- A cursor of None starts the agent over without a word. `_delta.py:204-207`
  says that with None "the caller keeps using their old token", but the caller
  of the digest stores the returned dict (`digest.py:9-11`), and `digest.py:106`
  puts the None into it. The next digest is a bootstrap without the
  `_meta.resync` of `digest.py:25-28`; the deletions and the changes to old
  mail in between are in no digest. `NoSilentRewind` excepts the step that
  hands out the None, `NoSilentLoss` counts from the new baseline, and
  `NothingRecentIsLost` says what is still never lost.
- A snapshot that takes two digests is news to the second. `digest.py:187-193`
  keeps history out of a first digest, and says of later ones that "every
  returned item is by definition a change since the last token"; a drain that
  stops at `_MAX_INTERNAL_PAGES` inside a snapshot leaves a cursor from which
  the next digest counts the rest as new, however old. `HistoryNotCounted`
  excepts a digest that begins there (`Midway`), and does not hold without.
- A running server does not take up a sign-in. `cli.py:108` says that it "will
  use this cached token automatically", but the credential and `startup_error`
  are made in `lifespan` and never again. The restart is a premise of
  `RemedyWorks`.
- A part of a batch without a response is reported as `status: "error"`
  (`batch.py:129-131`, `tests/test_batch.py:304-321`), though it may have taken
  effect. `AnswersAreTrue` excepts such parts.
- A consent without write access can be reached with both keys removed.
  `auth.py:58-59` says that "the stranded-writes state cannot be configured",
  which is true of the file; signing in with `read_only_consent` and removing
  both keys afterwards reaches it. `WritesNotStranded` excepts the apps for
  which that was done (`narrowed`).
- `digest.py:427-430` says that a genuine error cancels the siblings of a
  runner; `gather` raises and lets them run on, as `Raise` does.
- Monthly and yearly series are moved to the 29th to 31st as well, where no
  exact move exists, although `_recurrence.py:452` speaks of moves that are
  "Refused, rather than approximated". `MovesByDates` is about the moves within
  a month between days that every month has.

## Observations

What the code does that no document of it denies, or that only a reading of the
documents as promises would make a finding. Each can be seen in a model.

- Calendar. An event that becomes a series between the first read and the PATCH
  is patched unchecked and unpinned. A PATCH sent again after a late 504 is
  refused for the change it made itself, and the hint says "Nothing was
  modified" (`errors.py:343`). Guests invited between the read of the attendees
  and the PATCH get mail although the policy has no `mail_send`;
  `NothingMailedWithoutMailSend` is about the guests of that read.
- Recurrence. With a recurrence and a start written
  as an instant, the range of an event in a zone this host cannot resolve gets
  the date as written; in a custom zone, a recurrence alone gets the UTC date.
- Session. A session revoked while a server serves shows as an unwrapped
  `ClientAuthenticationError`.
- Attachments. An upload of a file that shrinks meanwhile asks for chunks that
  are not there any more and need not end; `CallEnds` is about files that do not
  shrink.
- Writes. A batch sent again after a 504 reports 404 for moves that took effect,
  and a new override is answered 409 by its own first POST. With an id twice in
  a batch the last answer is kept. Throttled parts of `batch_triage` are errors,
  not retried, unlike those of `read_messages`. Sends and creations are sent
  again by the SDK after a 504 and may happen twice; only the upload to a task
  opts out. What another client changes between a call and its repeat counts
  against nobody: `RepeatsChangeNothing` is about repeats with nothing in
  between.

## What the models leave out

- What items, messages and events look like: an item has a version, an object of
  `Writes` a value, a folder a name that is the wanted one or not.
- Page boundaries that Graph may choose are all allowed, and so is listing an
  item again with a newer state. Reordering within a page is not, for an item
  is listed once in a page.
- In `Digest` a throttled pull is one that takes long or fails. The counters
  `urgent_flagged` and `by_sender` are not kept.
- `EventUpdate` has one zone for both ends of an event and leaves out the policy
  checks, which refuse before or right after the first read; `Writes` has them.
- `Rescheduling` leaves out a PATCH of the start alone (it carries no
  recurrence; Graph moves the series), the removal of a recurrence, and the end
  of a range.
- Steps that are merged in `Session`: reading the config, the record and the
  session in `lifespan`; and a write with its sync and `chmod`, as a crash
  between these leaves a temporary file that nothing reads.
- `Occurs` of `RecurrencePattern` counts each day of a relative pattern with
  several days of the week by itself, where Graph takes the first that fits. No
  property depends on it: the code moves no relative pattern, and compares them
  by their fields.
- In `FolderLookup` a listing, of up to a hundred folders, is one request.
- In `Paging` a calendar window relative to now, computed again for each page,
  appears as entries that leave and arrive; `list_inbox` looks its folder's name
  up again for each page, as the code does.
- `Writes` leaves out calls that the policy refuses, which change nothing;
  batches have at most two ids; a page of the walk over the lists has one list.
  Refusals of arguments before any request are left out everywhere.

## Not modelled

- The window inside the calendar cursor (`digest.py:343`): it is at Graph, and
  moves with the clock of the calendar, which `Digest` does not have.
- `download_attachment` and the files that the to-do tools download: the server
  never reads them again, so no later step could show what went wrong.
- Single reads (`whoami`, calendars, categories, mail tips, contacts and their
  search, `list_thread`, a message, an event): one GET that changes nothing.
- `calendar_resolver.py`, a flat listing compared in the way of the folders'; it
  appears as the pinned calendar of `Paging`.
- Which tools a toolset registers: it changes no call that is made.
- `save_config`, which nothing calls; modes of directories; reading a config in
  a legacy code page.
- Validation of strings and the wording of errors, but for the remedies that
  `Session` follows.
