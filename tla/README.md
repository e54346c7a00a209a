# A formal model of Keyboard Studio

Keyboard Studio is a browser application (`packages/studio`) in which an author
builds a Keyman keyboard by answering a survey and editing galleries; an engine
(`packages/engine`) turns the answers into keyboard source, and a small backend
(`api`, `utilities/oauth-backend`) keeps cloud copies of drafts, opens pull
requests and takes crash reports. This directory models the part of it where an
author's work can be lost, mixed up or changed after publication, checks it with
TLC on small instances, and proves its main safety properties with TLAPS for
every size.

## 1. Inventory of the system

All paths below `packages/studio/src` unless they start with another top-level
directory.

| Component | State it keeps | Operations | Hard behaviour | What makes it correct |
|---|---|---|---|---|
| Durable drafts (`lib/draftPersistence.ts`, `lib/freshSession.ts`, `lib/switchActiveProject.ts`, `hooks/useOutputAutosave.ts`) | `localStorage`: one record per project key, the index behind "My keyboards", the active-project pointer; in memory: the subscription's key and its debounce timer | save, clear, discard, migrate, install autosave, flush, load, resume, delete, submit | debounce timers against project switches and remounts; reload and crash; several tabs over one storage; failing writes | records and rows in lockstep; no draft duplicated, overwritten or lost; submitted content frozen; edits reach storage |
| Boot merge of renamed rows (`reconcileRenamedProjectRows`, `reconcileProjectIndex`) | the same storage, a run-once flag | adopt unindexed records, merge duplicates | destructive; crash between its writes | the newest content and the strongest status survive |
| Cloud backup (`startCloudSync`, `lib/serverDraftStore.ts`) and drafts API (`api/drafts`, `utilities/oauth-backend/src/draft-*.ts`) | last pushed hash, one 20 s timer; per user and draft a row and a blob | push, restore, delete, list, export, purge | requests in flight against submit and delete; failed pushes; blob and row written one after the other | the server never goes back to older or unsubmitted content |
| Survey session (`stores/surveySessionStore.ts`, `steps/reducer.ts`, `steps/advance.ts`, `hooks/useSurveyBrowserHistorySync.ts`) | current step, history, browser history entries | advance, back, jump, popstate | browser events against the survey's own moves | session and browser history agree; no step is skipped |
| Working copy (`stores/workingCopyStore.ts`, `steps/mutateApply.ts`) | keyboard IR, overlays, phase results, staleness marks | instantiate, record, carve, restore, undo | cascades; staleness after a reopened step | undo restores; stale steps are revisited |
| Decision registry (`decisions/*`, `stores/decisionStore.ts`) | decisions, decision log, checkpoints | record, recalculate, rebuild, replay | order and closure of dependent decisions | rebuilding gives what the edits gave |
| Artifact pipeline (`hooks/useKeyboardArtifact.ts`, `hooks/usePreviewArtifact.ts`, `hooks/useValidator.ts`) | current source, current artifact, request tokens | compile, validate, preview | answers that come back out of order | an older answer never replaces a newer artifact |
| Managed pull request (`api/submit`, `utilities/oauth-backend/src/github-pipeline.ts`, `managed-pr-rate-limit.ts`, `installation-token.ts`) | rate-limit counters, cached token | branch, commit, open PR | partial failure, retries, concurrent requests | at most the allowed number; no half-made PR reported as success |
| OAuth (`hooks/useGitHubAuth.ts`, `hooks/useGoogleAuth.ts`, `lib/persistWorkingCopy.ts`) | tokens, a session snapshot | redirect, exchange, refresh, rehydrate | redirect in the middle of the debounce window | the snapshot and the draft agree |
| Crash reporting (`crash/*`, `utilities/oauth-backend/src/crash-report-pipeline.ts`) | queue, de-duplication keys, reload marker | send, retry, retract, reload once | reload loops, duplicate reports | at most one reload per build |
| Engine (`packages/engine`): codec, compiler, simulator, validator, patterns, scaffolder, LDML export, deadkey life cycle | none between calls | pure transformations | size | round trips |
| Contracts, lint, glottolog, content, utilities | none | types, rules, data | — | — |

How they interact. The screens read and write the in-memory stores; a mounted
survey or Output screen subscribes an autosave to them. `localStorage` is shared
by all tabs. The pointer `ks.draft.active` decides which record a boot loads,
which subscription may still write, what a discard removes and what a publish
answer marks. Cloud sync and the publish panel read the same records and the
same pointer. That one pointer, read by so many parties at different times, is
why durable drafts come first. The preview hook writes into the one working copy
of the tab whichever screen it runs for. The two services (pull requests, crash
reports) keep next to nothing and read every decision off GitHub, call by call,
while other requests and maintainers change what they read.

## 2. Plan

Order, most important first. Sections 3 to 7 describe what exists.

1. `DraftShelf`, `DraftStore`, `MCDraftStore`, `DraftStoreProofs` — durable
   drafts. **Done.**
2. `CloudSync`, `MCCloudSync`, `CloudSyncProofs` — the client's timer, hash and
   requests composed with the server's row and blob. **Done**, except restoring
   from the cloud, quotas and several devices.
3. `RenameMerge`, `MCRenameMerge`, `RenameMergeProofs` — the boot merge of
   renamed rows and the adoption of unindexed drafts, one write to storage at a
   time. **Done.**
4. `ArtifactPipeline`, `MCArtifactPipeline`, `ArtifactPipelineProofs` — overlapping runs of the preview
   pipeline over one working copy. **Done**, except the functional round trip.
5. `SurveyHistory`, `MCSurveyHistory`, `SurveyHistoryProofs` — survey position, back stack and browser
   history. **Done** for the Copy track.
6. `CrashReports`, `MCCrashReports`, `CrashReportsProofs` — the crash-report
   service, the studio's send state and the undo. **Done**, except capture.
7. `Publishing`, `MCPublishing`, `PublishingProofs` — the managed pull request, its
   limits and the submit panel. **Done**, except validation and the token cache.

8. `DecisionReplay`, `MCDecisionReplay`, `DecisionReplayProofs` — recording,
   extraction, recalculation and replay of decisions. **Done** for a registry cut down to the ways a decision
   can act.

Left, in this order: the sort and the closure of decisions as operators checked
against reference definitions over small graphs; the reload after a stale chunk (`crash/staleChunk.ts`); the token refresh of
`hooks/useGitHubAuth.ts`. All safety properties of the runs are proved; a theorem still
worth proving is a refinement of the server into one register per draft that only
moves forward.

Modules that carry proofs use no RECURSIVE operator; parameters are CONSTANTS
with named assumptions; each code operation is one action.

## 3. Modules

**`DraftStore`** models one browser profile. Correspondence:

| Model | Code |
|---|---|
| `disk.records`, `disk.index`, `disk.active` | `ks.draft.<key>.v2`, `ks.draftIndex.v1`, `ks.draft.active` |
| `live[t]` | the Zustand stores of tab `t`: which piece of work they hold, its version, the key its working copy derives to, whose decision trail is in the log |
| `view[t]` | the route; `"switching"` is the time between `switchActiveProject` and the survey's remount |
| `sub[t]`, `timer[t]` | the key an `installDraftAutosave` closure holds and its debounce timer |
| `inflight[t]` | the work a publish request was sent for |
| `fate`, `edits` | history variables: what the author decided, how many edits were made |

A piece of work is an identity that the code does not have: it is what lets a
property say that *another* keyboard was overwritten, although the code knows
projects only by the id the author typed. Storage primitives (`SaveDraft`,
`ClearDraft`, `MigrateProjectKeyIfChanged`, `InstallDraftAutosave`, ...) are
operators from one storage to the next, composed by the handlers in the code's
order; a JavaScript handler runs to completion, so one handler is one action. A
failing `setItem` is a choice inside the save: the record does not fit (nothing
is written) or the row does not fit.

The profile may hold drafts from the start, one per id. In the current code one
tab alone never gets a second draft (starting fresh discards the active one and
every install migrates the previous filing), but the project list, the switcher
and the legacy adoption (`reconcileProjectIndex`) all deal with several, so they
come with the profile.

Operators such as `SaveDraftIntoFrozen` or `TimerFiresUnguarded` are wrong
versions of the operator after them, used by no specification. Putting one in
the original's place makes the property it is named for fail, which shows that
the property depends on that line of code.

**`DraftShelf`** is the abstract promise of "My keyboards": one place per id;
content may be rewritten while a draft; publishing freezes it; frozen content
can only be removed. `DraftStore!ShelfSpec` is `DraftShelf` under the mapping
`shelf <- ShelfOf(disk)`: the real keys, each with its record and whether it is
submitted. Tabs, timers, views and the pending slot disappear in the mapping.

**`MCDraftStore`** gives the small sets of tabs, ids and works and the symmetry.
**`DraftStoreProofs`** has the theorems.

**`CloudSync`** models one signed-in author in one tab, the network and the
drafts API. Correspondence:

| Model | Code |
|---|---|
| `local` | the records, the rows with status "submitted" and the pointer in `localStorage`, as far as the sync reads them |
| `live` | the working copy in the stores, which the next autosave files |
| `page` | the mounted screen; `startCloudSync` runs while the survey is mounted |
| `timer`, `lastPushed` | the closure's 20 s timer and `lastPushedHash` |
| `basis` | history variable: whether `lastPushedHash` was set by an answer, by a beacon nobody hears of again, or by one that was lost |
| `net` | requests without an answer: PUTs of the sync, of the unload and of `recordProjectSubmission`, DELETEs of `deleteProject` and start over |
| `tracked` (of a request) | does a living closure still wait for the answer |
| `phase` (of a request) | how many of the API's two writes are made |
| `overtaken` (of a request) | history: a request sent later has written the draft's row first |
| `row`, `blob` | the Postgres row and the stored blob of a draft |
| `clock` | `savedAt`; it names a content, as the hash does, since every save stamps its own |

The local store of this module is a simpler one than that of `DraftStore`: no
pending slot, no second tab, writes that do not fail, an edit and its local
autosave in one step (half a second against the twenty of the push). The
operators keep the names and the order of the code's. A project switch inside
the survey is leaving it, resuming and opening it again. Pointer writes never
fail. `putDraft` writes the blob and then the row, `deleteDraft` the row and then
the blob; between any two writes the client goes on, the request may die
(`RequestDies`: the network, the function's process, or the 502 of
`runDraftsHandler`), or only its answer may be lost (`AnswerLost`). `beforeunload`
sends a beacon and takes its record for pushed at once (:2500-2503). Mostly the page
then ends (`Unload`); `BeforeUnload` is the one that stays, because the author called
the leave off or followed a download or `mailto:` link, and whose sync goes on with
that hash.
`CloudSyncProofs` has the theorems, `MCCloudSync` the instance. `Card` is the
merged row of "My keyboards" (`mergeProjectEntries`): what the browser has and
what the server lists, whichever `preferEntry` likes better.

**`RenameMerge`** models what a boot does with drafts that earlier releases left
behind. Correspondence:

| Model | Code |
|---|---|
| `disk` | the `.v2` and `.v1` records and the index of `localStorage` |
| `reconciled` | the flag `ks.draftIndex.renameReconciled.v1` |
| `pc`, `todo`, `remaining` | where `runBootRenameReconciliation` and `reconcileProjectIndex` are; rows still to visit; `remainingKeys` |
| `stale`, `candidate`, `visited` | the row being visited and the walk of `resolveSurvivorKey` along its chain |
| `found`, `refused` | history variables: the storage as first found; whether a write was refused |

Every write to `localStorage` is a step, because the tab may die between two of
them (`Close`) and boots again; any write may be refused. Reads between two
writes belong to the step of the next write. An envelope is the key its own
working copy derives to and its time; the ids of one keyboard are a family.

**`ArtifactPipeline`** models `useKeyboardArtifact` as the survey, Output and
Compare use it. Correspondence:

| Model | Code |
|---|---|
| `screen`, `choice`, `stage` | the route, each screen's `startKeyboard`, the mounted hook's `stage` |
| `hook` | the refs of the mounted hook: `vfsRef`, the snapshot, what was fetched, whether a transform is due; `instantiatedForStartIdRef` |
| `runs` | the chains of awaits (engine, source, compile) that have not ended, with what each has read before its await |
| `superseded` (of a run) | its `runId` is no longer the hook's |
| `mounted` (of a run) | its hook is the one on screen: leaving a screen does not move `runId` |
| `pending`, `decision` | `pendingArtifactRef`; the recorded base-keyboard decision |
| `store` | the working copy: its base, its edits, whose license and start docs it holds |
| `strayed` | history variable: what superseded and left-behind runs were the last to replace: the file system or base under the `preview` since the screen's last fetch, the `license`, the `base` since the screen was opened |

What a file system holds is abstracted to the keyboard it was filled from,
whether it is a copy made by the scaffolder, and the revision projected onto it.

**`SurveyHistory`** models the position in the survey and the browser's history.
Correspondence:

| Model | Code |
|---|---|
| `active`, `history`, `visited`, `nav` | `activeStepId`, `history`, `visited`, `lastNavigation` of the session store |
| `seed`, `covered` | the recorded fork decision; whether the galleries cover every letter (it gates Next) |
| `entries`, `at` | the browser's entries (route and `ksStep`) and the one it is on |
| `prev` | `prevStepRef` of `useSurveyBrowserHistorySync` |
| `trail`, `tracked`, `plain` | history variables: the steps as walked; whether only Next and Back have moved since; whether nothing yet parted store and browser |

The walk is the Copy track with the steps that have rules of their own. Next,
Back, jumps and route changes are actions with everything their handler does, the
pushed entry included.

**`CrashReports`** models the crash service and the studio that talks to it.
Correspondence:

| Model | Code |
|---|---|
| `issues`, `last`, `comment` | the tracker: state, label, counters and times of each issue; which issue bears a report's comment |
| `rep` | one report: `submitCrashReport`, then `retractCrashReport`, at which call they are and what they have decided |
| `tab` | `send.ts`'s marks and the mounted `CrashNotice` of a session |
| `seen`, `past` | history variables: what a report's lookup and probe found; closes and reopens of an issue |

Every call on the tracker is a step. It may be refused, and one that writes may
succeed and lose its answer.

**`Publishing`** models the managed pull request from the panel to GitHub.
Correspondence:

| Model | Code |
|---|---|
| `branches`, `prs`, `master` | the staging repository, the bot's pull requests, how often master moved |
| `rows` | the rows of `managed_pr_rate_limit` |
| `req` | one request: at which statement or GitHub call, its parent, tree, commit and result |
| `ui` | a tab: `PublishHandover` and `ManagedPRSubmitPanel` (hidden, idle, submitting, ...), the testing store's builds and in-flight flag |
| `seen` | history variable: what the request's limits found |

A short hash is a number below `Hashes`, coarse on purpose, so that two commits
may want one branch name. All works are versions of one keyboard id, the case
in which names can meet. `PublishingProofs` holds the theorems.

**`DecisionReplay`** models how the working copy follows the author's decisions.
Correspondence:

| Model | Code |
|---|---|
| `start` | `startKeyboard`, `startIr` and `instantiationMode` of the working copy, and the recorded track, which Output's picker leaves behind |
| `decisions` | the records of `decisionStore`: value, provenance, `inactive` |
| `copy` | the working copy's `ir` (base and letters), `helpDocs`, `attribution` and carve |
| `trail`, `trailOurs` | `sessionTrail` of `rebuildWorkingCopy.ts`; whether `sessionTrailBase` is the present `startIr` |
| `settled` | history variable: since the last fold that began early enough, no extraction pass has written a record |

Completing a step is one action: record, apply, recalculate, replay from a
checkpoint, install. The registry is cut down to eight decisions, one for each way
a decision can act: answered and writing the IR, taken from the keyboard, defaulted
from another decision, opening a gate, standing behind it, composed from decisions
after it, composed from decisions before it, recorded without a fold. Their order is
the one `orderDecisions` gives them. Every opened keyboard has a description.

In all modules an operator that no specification uses and whose comment calls it
a mutant (or whose name says what it does wrong, as `FollowWithoutTimes`) is a
wrong version of the operator after it.

## 4. Runs

| Run | Instance | Checks |
|---|---|---|
| `DraftStoreOneTab` | 1 tab, 2 ids, 2 works, 2 edits each, storage works, the author waits for publish answers and does not reuse ids, fairness (557,946 states) | the properties of drafts below, edits reach storage |
| `DraftStoreTwoTabs` | 2 tabs, 2 ids, 1 work, no restriction on the author | lockstep, refinement of `DraftShelf` |
| `CloudSync` | 2 ids, 5 saves, 2 requests in flight, served in order, anything may be lost or fail (634,920 states) | content, skipped pushes, cards |
| `CloudSyncLiveness` | 2 ids, 4 saves, 2 requests, served in any order, nothing lost, fairness (259,093 states) | the server's copy moves forward, edits reach it |
| `RenameMerge` | 3 ids, 2 times, every profile, every order of rows, refused writes, a dying tab, fairness | newest content, submission, no mixing, the boot ends |
| `ArtifactPipeline` | 2 keyboards, 3 runs at once, 2 edits, 4 acts of the author, fairness (310,551 states) | what is shown, kept and committed; previews end |
| `SurveyHistory` | 6 moves, 2 detours, a draft resumed in any part of the walk (1,335,655 states) | Back and the browser against the store |
| `CrashReports` | 3 reports of 1 bug, 2 sessions, 3 issues, 1 tick, 1 close, 1 fault (2,241,852 states) | duplicates, cap, reopening, undo |
| `Publishing` | 1 tab and another author, 2 requests, 2 works, 2 builds, 1 tick, 1 merge, 1 fault (2,820,830 states) | commits, branches, limits, panel |
| `DecisionReplay` | 2 keyboards, 2 authors' names, 8 decisions, any number of steps (39,857 states) | rebuilding against a whole fold, gates |

What the passing properties say:

- `IndexLockstep`: a record exists exactly when its row does, and the next boot
  finds what the pointer names.
- `NoDuplicateFiling`: a work has one draft card.
- `DiscardedStaysGone`: started-over work does not come back.
- `NothingUnscheduled`: a mounted screen's content is saved, or about to be.
- `NoOverwriting`, `ListedWorkKept`: drafts are neither exchanged nor lost.
- `SubmittedContentKept`, `ShelfSpec`: publication is final.
- `EditReachesDisk`: liveness of the autosave.
- `ListingHasContent`: a row on the server has its content, at least as new as
  the row says, in the middle of every put and delete.
- `CloudNeverGoesBack`: in whatever order requests are served, a row is never
  replaced by older content, nor a submission by a draft, but by a request that a
  later one about that draft has overtaken.
- `CardNeverGoesBack`: neither is the merged card of a project the browser
  holds, whatever is in flight, unless a delete or a publication of an earlier
  project of that id is still on its way.
- `SkipsOnlyWhatIsStored`: a push that `lastPushedHash` suppresses would have
  stored what is there already, row and content; if a beacon set the hash, the
  beacon may still be on its way, or have been lost (section 5).
- `EditReachesCloud`: liveness of the sync.
- `NewestKept`, `FamiliesApart`, `SubmissionKept`: wherever the boot merge is cut
  off, the newest content of every keyboard is on disk, no content is under
  another keyboard's id, and a submission is still one (if nothing is refused).
- `BootEnds`: rows renamed in a circle do not hang the boot.
- `ShownIsCurrent`: a screen at rest shows the chosen keyboard, whatever ran before
  or still runs. It shows the newest edits too, unless a transform is due or a
  superseded or left-behind run has replaced the file system or the base since the
  screen's own last fetch.
- `LicenseIsOwn`: when Output is ready, the license kept for it is its base's, unless
  the last fetch to arrive was that of a superseded or left-behind run.
- `ConfirmedIsBase`: the keyboard confirmed in the survey is the base once its preview
  has settled, whatever was confirmed, edited or opened before: the click, the
  artifact and `instantiatedForStartIdRef` may come in any order and be of any age. The
  exception is a left-behind run of Output that has replaced the base since the screen
  was opened. Section 5 has the three exceptions (`strayed`).
- `PreviewSettles`: no preview waits for ever.
- `InLockstep`: while only Next, the browser's Back and the tabs have moved the
  author, the browser's entry names the step on screen, across reloads.
- `GateNotResurfaced`: a blocked Next leaves gate entries on the stack that no
  Back leads to.
- `BackRetraces`: Back leads to the step the author came from (but see section 5).
- `DuplicatesOnlyFromRaces`: a second issue for a bug is filed only by a report
  that could not read the tracker or read it before the first was filed.
- `CreationHadRoom`: the creation cap holds for what the probe could see,
  although pages shift under it.
- `ReopensWhenDue`: a recurrence the studio hears was received leaves the issue
  open unless it was closed since the lookup; reopening it again waits for the
  cooldown.
- `UndoIsOwn`: comments go and issues are closed only by a maintainer or by the
  undo of the very report that made them.
- `CommitsOwnFiles`: a commit's tree is laid on its parent's, so that merging it
  undoes nobody's work.
- `HeadIsOwnWork`: no pull request shows another request's work, and a panel that
  says "submitted" has one.
- `LimitsHadRoom`: what passed the limiter and the creation cap had room when it
  was counted.
- `LaterBuildKeepsPanel`: a test build does not take the waiting panel away, once
  there is a build and no earlier submission of the tab is out.
- `InstalledIsReplay`: the working copy is what a fold of the whole decision set
  over the present base gives, in every channel that fold writes, whether the
  rebuild resumed at a checkpoint or not, across carves, switches of the base, other
  projects of the session and reloads (`settled`: section 5 has the exception).
- `GatedAnswerFollowsGate`: an answer behind a gate is set aside exactly while the
  gate is closed, and is neither lost nor replaced.

Each has a mutant in `PROJECT.json` under which TLC finds it violated.

**Bounds.** Two works on two ids and one tab: the project on screen and another
one, in the list or new; two ids let a filing move and come back. Two edits
per work tell saved, scheduled and unsaved content apart; nothing in the
code depends on how many there are. Two tabs with one work already show every
pair of handlers meeting on pointer and records. The proofs of section 6 cover
all sizes for the theorems named there.

In `CloudSync` two ids let a project move, leave its row behind and come back;
five saves allow a first push, an edit, a publish and a second project after it. A
sixth lets that project take the first one's id while the publish is still on its way,
the case `OfEarlierProject` excepts: with six saves the same cfg passes as well
(3,930,864 states), but takes too long to be a run of the project. Two requests in flight are a push and what overtakes or follows it (the guard
`Room` is this bound, `Tick` that of the saves).

In `RenameMerge` three ids make a chain with a middle, a fork and a circle, and
two times decide each comparison both ways; order is the choice of the next row
in `todo`. In `ArtifactPipeline` two keyboards are the base and a candidate, and
three runs let one be left behind, one superseded and one current (`Slots` is
that bound, `MaxActs` and `MaxRev` the others). In `SurveyHistory` six moves
pass a gate or a fork and come back, and two detours combine any two of jump,
gallery return, start over, tab switch and reload; `Resumed` starts the walk
at the entry, before the fork, at the touch gallery, on the gate and past it,
where six moves from the beginning would not get. In `CrashReports` three reports are one that
files, one that races it and one that recurs; one tick lapses every window and a
report that has not ticked is within it; `CreateCap` 2 with one issue per page
makes the probe read two pages. In `Publishing` two requests are the smallest
race; `Cap` and `PerIp` are 1 so that the second meets them. `Global` is 2 and
never refuses before `PerIp` does with two requests: its conjunct of
`LimitsHadRoom` needs three. Bounds on actions stop these four models for good,
which is why their runs do not check deadlock.

`DecisionReplay` has no bound on its steps: a decision holds one of few values, and
two keyboards and two names are enough to tell a stale value from the present one.

**Fairness.** `TimerFires(t)` is weakly fair: the browser runs a due timer. An
author who never stops editing faster than the 500 ms debounce would starve it;
`MaxEdits` bounds that, so the liveness result is about an author who pauses.
The survey's remount after a switch is weakly fair: React renders the requested
generation. No author action is fair. In `CloudSync` the push timer is weakly fair
for the same reason, and so is every step of the API: a request that the network
delivers is served. `CloudSyncLiveness` has no losses, because a push that fails is
not retried before the next change. In `RenameMerge` the boot is weakly fair because
it is one synchronous call (`main.tsx`); a tab that dies has ended it too. In `ArtifactPipeline` each run's
next step is weakly fair: engine and source are wrapped in `withTimeout`, which
answers even if they do not, and effects run after a render.

**Assumed of the author.** `AuthorWaits` and `DistinctIds` make the run with one
tab about the behaviours in which the code keeps its promises: the author
stays on Output until a publish is answered, and chooses no id that another draft is filed under or
has for its own. They are constants
and not code: `DraftStoreTwoTabs` lifts them, and section 5 says what else
happens without them.

**Assumed of the network.** In the run `CloudSync`, `InOrder` lets the API work only
on the oldest request. Neither `fetch` nor a serverless function promises it; it holds
in practice when a request takes less time than there is between two of them.
`CloudSyncLiveness` has no such order, and neither has the theorem
`CloudMovesForward`. Section 5 says what else happens without it.

## 5. Where the code departs from its documents

Each is a run that TLC refutes, with the code's own sentence in `PROJECT.json`.

| Run | Property | What happens |
|---|---|---|
| `BackSkipsHelp` | `BackRetracesAll` | After help, html and icon by Next, two presses of Back lead to html and then past help: its entry, though walked, is dropped as stale. |
| `FirstBuildDropsPanel` | `BuildKeepsPanel` | The first test build recorded during a submission changes the element at the root of the hand-over: the waiting panel is unmounted and a fresh one offers to submit again. |

*Seen and not checked.* Other departures came up while modelling and have no run.
Where a file is quoted, its sentence says otherwise.

Drafts (`lib/draftPersistence.ts` unless said otherwise):

- A rename while storage is full: the new record is not written and the old one,
  the only copy, is deleted (:2082-2084, "only AFTER the new key's record is
  confirmed on disk").
- Publish, open the survey again, rename: the Submitted card is migrated away
  (:2250-2252, "it keeps appearing in \"My keyboards\" as a Submitted card").
- Publish, then switch or rename before the answer: `recordProjectSubmission`
  reads the pointer when the answer arrives and marks the other project (:2260).
- A fresh start keeps the decision log and the next keyboard is saved with it
  (`lib/freshSession.ts:5-8`, "resets every session store"); viewing another
  project's trail has the same effect (`ViewTrail` is an action of the model).
- Deleting the project the stores still hold, then opening the survey, files it
  again (:2234).
- A keyboard id that is in use, chosen for a second keyboard, overwrites the
  first one's draft (`NoOverwriting` fails without `DistinctIds`). It is not enough
  that no card shows the id: an id changed in the survey is filed at the next
  mount only, and a project that takes it before then is overwritten by it.
- An empty second tab that opens the survey pins the pending slot and its
  migration deletes the project the first tab pinned (`ListedWorkKept` fails with
  two tabs).
- Picking another base deletes the draft filed under the previous one, which a
  comment in `doCommit` says it does not.
- The switcher drops an edit still in the debounce window (the comment on the
  orphan guard calls the missed tick recoverable).
- Progress in the pending slot is cleared by the next commit when the author
  resumed another project in between.

Cloud:

- A publish while a push is in flight: if the push is stored last, the row is a
  draft again for good (:292, "autosave never downgrades a submitted project"). The
  same with two pushes leaves the older content, and the hash of the newer one keeps
  it from being sent again. A DELETE that overtakes a push leaves the draft on the
  server, or a row without content. All need requests served out of order; the first
  two are the exception of `CloudNeverGoesBack`, the third is why `ListingHasContent`
  has an order.
- A beacon is lost and the page stays, because the leave was called off or was a
  download: `lastPushedHash` names a record the server does not have, and nothing
  pushes it before the next edit (:2400-2401, "did the stored draft change since the
  last successful push?").
- A rename leaves the row of the old id on the server and a second card in the
  merged list (`components/MyKeyboardsList.tsx:65-66`, "A project present in both
  places shows once").
- A publication is on its way; the author opens the survey, commits another base and
  then one that leads to the first id again: when the publication is stored, the card
  of the new project shows the older, submitted copy.
- Saved answers and test reports reach `localStorage` and do not arm the push
  (`EditElsewhere`).

Boot merge (`RenameMerge`):

- The middle row of a rename chain, visited first, is merged away and leaves the
  base row without a survivor for good (:591-593, "so `base` resolves directly to
  `final` in the SAME pass `mid` does"); a base row newer than the final one
  blocks the chain in either order.
- A refused write of the index, then `clearDraft`: the submission is lost (why
  `SubmissionKept` says `~refused`).
- A newer stale record replaces a submitted survivor's content; a tab that dies
  between record and row leaves a row without a record, or a row with old
  metadata.

Preview (`hooks/useKeyboardArtifact.ts` unless said otherwise):

- After a pick on Output, previewing in the survey the keyboard confirmed there
  earlier commits it without a click (`StudioShell.tsx:1180-1182`, "what stops a
  preview of an UNCONFIRMED base from instantiating"): the decision of the earlier
  walk still stands.
- Output is left while it fetches a candidate, which becomes the base when the survey
  is mounted already: `instantiatedForStartIdRef` still names the base before, so
  confirming that one again does nothing (`StudioShell.tsx:875`). This is the
  exception of `ConfirmedIsBase`.
- Output previewing another keyboard and coming back leaves that keyboard's start
  docs in the working copy; Compare's run writes its license into it (:1235),
  although Compare must not write
  (`specs/_archive/057-bulletproof-navigation/spec.md:248`).
- A superseded scaffold replaces `vfsRef` of a newer run, which then fails to
  compile; deselecting does not move `runId`, so a late answer is shown with
  nothing selected; a declined rebase followed by a download carries the candidate's
  license.

Survey:

- `visited`'s comment is broken by the unfinished-gallery button before the
  galleries were reached, which also lands past gates.
- "Go finish" from Output pops an entry each time although none was pushed; an
  entry pushed on top of `#output` makes the first browser Back there do nothing.
- Gate, touch gallery, Back, chooser, Back leads to touch again; after a skipped
  fork the browser's Back from touch is absorbed for good.
- The browser's Forward can move the store back, and two in-app Backs absorb two
  browser clicks. `plain` excludes what parts store and browser: in-app Back,
  jumps, Forward inside the survey, passing html, skipping the fork.

Decisions (`decisions/`):

- The "more detail" gate records a boolean (`survey/flowWalk.ts:85-91`), routing
  reads a boolean as the empty text (`orderDecisions.ts:531-537`), so a rebuild
  takes every record of the battery for gated off and never restores it
  (`recalculate.ts:22-24`, "when the gate clears the flag is removed"). This is why
  the model has the select gate only.
- `helpDocsFromDecisions` ignores `inactive`: a gated-off answer is still in the help
  page when another help answer is folded (`replayKeyboard.ts:34-36`, "a gated-off
  decision contributes no apply").
- The extraction pass writes records behind the checkpoints, so a rebuild that
  resumes may differ from a whole fold, and from the one after a reload
  (`replayCheckpoints.ts:99`, "the fallback keeps the result honest"). `settled`
  excludes it.
- The history decision never folds: the replay starts without a history entry and
  `historyEntryStateFromDecisions` then writes nothing, so after a switch of the base
  the retained answer is without effect until Help is completed again.
- A description extracted from an opened keyboard is kept when Output's picker
  switches to a copy of another base, and goes into its help page.
- A carved family (`disabledFamilyIds`) is not reset by `instantiateFromStart`.

Crash reports (`utilities/oauth-backend/src/crash-report-pipeline.ts` unless said
otherwise):

- An issue reopened once keeps the regression label, so the first report after
  its second close is suppressed (:941, "The first hit after a close ALWAYS
  reopens"). `ReopensWhenDue` excludes it by `again`.
- The Undo of a "created" report closes the issue although others have reported
  the bug since; a token used again after a reopen closes it again.
- The mark of a sent bug is set when the answer comes, so one session can post it
  twice (`crash/send.ts:12-15`, "before a request is ever made").
- `CrashNotice` never resets its "retracted" state, and a second crash takes the
  first one's Undo away.
- Two hits on a closed issue can both reopen it; a reopen whose comment fails is
  answered as a failure; a capped hit has no comment, so its Undo does nothing;
  the Undo's own comment counts toward the cap.

Publishing:

- Leaving Output after a success and coming back offers the form again; so does
  a lost answer: the same work makes two pull requests. A failed last call leaves
  a branch without one, and the 409 of a retry says the keyboard was submitted.
- "Never throws" (`github-pipeline.ts`) does not hold of minting the token.
- Requests refused by the limiter are not recorded, and concurrent ones can pass
  it by as many as are between count and insert.

## 6. Proofs

`DraftStoreProofs` proves, for all sets of tabs, ids and works and for every
value of the four switches:

- `TypeCorrect`: `Spec => []TypeOK`. The inductive invariant is `TypeOK` itself.
  The primitives get one lemma each (a typed storage to a typed storage) and
  every action one step.
- `SubmittedContentIsKept`: `Spec => SubmittedContentKept`. `DraftStep(d, e)`
  classifies what a handler may do to the storage: every project keeps its
  record and status or is gone, except one that is rewritten while a draft, or
  one that is published. The primitives' lemmas compose to it, `NextDraftStep`
  shows it of every step, and the property follows.
- `ImplementsShelf`: `Spec => ShelfSpec`, from `DraftStep` under the mapping.

Assumptions of these three: the absent value is none of the works, ids or projects,
and the pending slot is no project id (`DraftStoreAssumption`,
`NoProjectAssumption`). Nothing restricts the author or the storage: they hold with
failing writes, reused ids and late answers as well.

- `IndexStaysInLockstep`: `Spec => []IndexLockstep` for storage that takes its
  writes, with any number of tabs. The invariant `LockstepInv` says that a project has
  a record just when it has a row, that an empty place has no row left over, and that
  the pointer names no project without a record.
- `OneDraftCard`, `DiscardedWorkStaysGone`, `UnsavedIsScheduled`, `ListedWorkIsKept`,
  `NothingIsOverwritten`: the five properties about one author, under `OneAuthor`
  (one tab, storage that takes its writes, `AuthorWaits`, `DistinctIds`), for any ids,
  works and edits. They share `AuthorInv`: the disk is in lockstep, the
  pending slot holds only work without an id, no id has two works and no work two
  drafts (`WellFiled`); work on disk has been begun and, unless it is submitted and
  left behind, it has not been discarded, nor has work on screen (`FateOnDisk`,
  `FateOnScreen`); and what a screen holds is saved, scheduled or frozen, under the
  key its subscription holds (`Screen`). None of the five is inductive: whether a save
  may duplicate or overwrite is decided where the id was chosen, several steps before
  it. The proof found the id changed in the survey and not filed yet (section 5):
  `DistinctIds` looked at cards only.

`CloudSyncProofs` proves, for every set of ids and every bound on saves and
requests in flight:

- `CloudTypeCorrect`: `Spec => []TypeOK`, whatever the network does.
- `ListedDraftsHaveContent`: if requests are served in order,
  `Spec => []ListingHasContent`.
- `CloudMovesForward`: `Spec => CloudNeverGoesBack`, in whatever order requests are
  served, lost or retried.
- `CardsMoveForward`: if requests are served in order, `Spec => CardNeverGoesBack`.
- `SkippedIsStored`: if requests are served in order,
  `Spec => []SkipsOnlyWhatIsStored`.

None but the first is inductive: what a PUT will do to the row depends on what it
carried when it was sent. The invariant of the third is `Ordered`: for each draft, the
PUTs in flight in sending order and the local record form one line in which none is
`Behind` the one before it, and the row is behind no PUT that is not `overtaken`. A
write of the row keeps it, since it marks what it passes (`WriteRowKeepsOrder`). For
requests served in order `Inv` adds that none is overtaken (`OneServed`), that the blob
is not newer than any PUT (`BlobInLine`), and that what the request being served has
written is where `HeadWritten` says. A handler
of the browser is a `ClientStep`: it keeps the server, refiles each record (as it
was, gone, or stamped with a newer time) and appends at most one request that
carries what is filed now. There is one lemma per storage primitive
(`SaveRefiles`, ...), one per group of handlers (`ScreensAreClientSteps`, ...), and
`ClientKeepsLine` for all of them. The API has one lemma per write
(`WriteBlobKeepsLine`, `WriteRowKeepsLine`) and one for a request that leaves.
That the freeze matters is seen in `Refiled`: a record keeps its time only if it
also keeps its submitted status. For the cards, `CardsShown` and
`OwnCopyMovesForward` reduce the merged card to its two copies; the proof attempt
gave the late publication of section 5, which the bound of five saves had hidden. For
the skipped pushes, `Stored` follows one content from the hash to the server: a
stamp names one content (`OneStamp`), the request at the head has written what its
phase says (`HeadStored`), an answered push is on the server, and a beacon's is, or is
on its way, or `basis` knows it is lost (`PushedIsStored`), and
deletes of other projects leave it there (`FiledOutlivesDeletes`).

`RenameMergeProofs` proves, for all ids, times, profiles and whether or not
writes are refused:

- `RenameTypeCorrect`: `Spec => []TypeOK`.
- `RenameKeepsNewest`: `Spec => []NewestKept`, and `RenameKeepsApart`:
  `Spec => []FamiliesApart`.
- `RenameKeepsSubmission`: `Spec => []SubmissionKept`.

None is inductive: what an erasing step may remove was decided several steps
earlier. The invariant adds what the walk knows at each `pc`: the candidate is
reached from the stale row along rows that derive to each other, so both are of
one family; once the survivor is chosen its content is at least as new as the
stale one or is about to be written; and before a stale row that was submitted
is erased, the survivor's row is, or a write was refused. The only assumption is
`RenameMergeAssumption`.

`CrashReportsProofs` proves, for any reports, sessions, bugs and limits:

- `CrashTypeCorrect`: `Spec => []TypeOK`.
- `CrashDuplicates`: `Spec => []DuplicatesOnlyFromRaces`.
- `CrashUndo`: `Spec => UndoIsOwn`.
- `CrashCreationHadRoom`: `Spec => []CreationHadRoom`, for any cap, page size and
  length of pages.
- `CrashReopensWhenDue`: `Spec => []ReopensWhenDue`.

The invariant is `TypeOK /\ Own /\ Looked /\ DuplicatesOnlyFromRaces`. `Own` says
that what a report's undo will act on is its own: a token for an issue is granted
only to the report that filed it. `Looked` says that a report on its way to
filing has found no issue of its bug among those its lookup could see, unless it
was blind; issues never disappear and never change their bug. Frame lemmas
(`PastStays`, `OthersStay`, `IdentityStays`) say what the steps of one report
leave alone for the others. The last two have invariants of their own on top of it.
`RoomInv` is about a list that is read page by page while issues are filed in front of
it: what has been counted, with what the pages still to come hold, is never less than
what the window held when the count began. `DueInv` follows the issue from the lookup
to the answer: who saw it closed, who reopened it when, and whether it was closed
since.

`PublishingProofs` proves, for any tabs, requests, limits, hash length and bounds:

- `PublishTypeCorrect`: `Spec => []TypeOK`.
- `PublishCommitsOwnFiles`: `Spec => []CommitsOwnFiles`.
- `PublishHeadIsOwnWork`: `Spec => []HeadIsOwnWork`.
- `PublishLimitsHadRoom`: `Spec => []LimitsHadRoom`.
- `PublishLaterBuildKeepsPanel`: `Spec => LaterBuildKeepsPanel`.

None but the type invariant is inductive, and `TypeOK` needs `Ready`: a request
about to open its pull request has the branch it made, with its own commit on
it. `Laid` adds the commits not yet on a branch. `Shown` adds that a pull request
belongs to an answered request, so no later step changes what it should show,
and that a success has one. For the limits, `Listed` says that the bot's list is
in order of time, which makes one page enough (`OnePage`, from `Cap <= PerPage`);
`Filed` says that the limiter's rows are the requests recorded but for those a
count found stale, so that its count is the count of all; `Probed` and
`CountedRoom` say that what a check found stays true of what it saw. Two lemmas
classify the steps: `RequestStep` what one may do to a request, `BranchStep` and
`ListStep` to the repository. The only assumption is `PublishingLimits`.

`ArtifactPipelineProofs` proves, for any keyboards, number of runs, edits and acts:

- `PipelineTypeCorrect`: `Spec => []TypeOK`.
- `PreviewIsCurrent`: `Spec => []ShownIsCurrent`.
- `LicenseIsOfBase`: `Spec => []LicenseIsOwn`.
- `ConfirmedBecomesBase`: `Spec => []ConfirmedIsBase`.

The invariant of the first three is `PipelineInv`: the types; `HookInv`, which says
that at most one run's answers are still taken, that it is a run of the mounted screen,
and that what was fetched before is gone while it fetches; and `Tracked`: the run and
the stage are of the selection (`Tracks`, whatever strays), they and the file system
are at its newest revision or have a transform due (`Newest`, unless
`strayed.preview`), and the license is the selected keyboard's once it is
fetched (unless `strayed.license`). The fourth has `ConfirmInv` on top of it: while the survey is
mounted, the ref of what was committed last names the base (unless `strayed.base`), a
click is on the candidate of the decision, and a preview that is ready has its artifact
pending or is of the base. None of the
properties is inductive: what a run brings was decided when it began, and what a
click leads to by the click before it. The only assumption is `ArtifactAssumption`.

`SurveyHistoryProofs` proves, for drafts resumed anywhere and any number of moves and
detours:

- `SurveyGateNotResurfaced`: `Spec => GateNotResurfaced`.
- `SurveyBackRetraces`: `Spec => BackRetraces`.
- `SurveyInLockstep`: `Spec => []InLockstep`.

`TypeInv` is inductive and enough for the first: what is popped off "html" has no help
on it. For the second, `TrailInv` says that the walked path goes up the walk and that
path and stack are the same but for helps; `CutPath` shows that a Back shortens both
alike, also where the fork was skipped. For the third, `PlainInv` says that the
author has a place (a step and a stack) for every entry up to the present one, such
that from one entry of the survey to the entry below it is one Back, and past an
entry of another route it is the same place; the listener's equality check then
accepts just the entry below. What `WithoutHelp` leaves of a sequence of any length is
proved by induction over a set of numbers.

`DecisionReplayProofs` proves, for any bases, names and answers:

- `RebuildIsReplay`: `Spec => []InstalledIsReplay`.
- `GateRulesItsAnswer`: `Spec => []GatedAnswerFollowsGate`.

`ReplayInv` has three parts. `DecisionInv`: the decisions are `Sound` and the gated one
is set aside with its gate. `TrailInv`: the checkpoints of the present start are
what the folds of the present decisions give, up to the place that is settled.
`CopyInv`: the working copy shows the replay. The lemmas say which decisions a fold
reads (`FoldReads`), so that a checkpoint before the earliest change still holds. The
replay is a recursive function; that there is one is shown by writing its nine
values out. The only assumption is `ReplayAssumption`.

Each of these invariants was also checked with TLC: most on the instance of their run
or beyond it, `AuthorInv` with three ids (3,070,047 states), `Ordered` with four saves
and three requests in flight served in any order (2,712,812), the two of
`CrashReportsProofs` with four reports, a cap of three and pages of two (539,887),
`PipelineInv` and `ConfirmInv` with five acts (4,593,214), `ReplayInv` without symmetry
(155,093), the survey's with drafts resumed at each of the eleven steps (908,294);
`Line` and `Stored`, whose quantifiers are slow, with three saves (6,974).

Only model-checked: `EditReachesDisk`, `EditReachesCloud`, `BootEnds` and
`PreviewSettles`, which are liveness under fairness and out of the prover's reach.
`BackRetracesAll` and `BuildKeepsPanel` do not hold (section 5).

## 7. What the model leaves out

- Records that are corrupt or of an older version, and their migration
  (`RenameMerge` has them as `Broken` and as legacy slots).
- The OAuth session snapshot layered on the draft after a redirect (the flush
  before it is modelled).
- The resume banner and restoring from the cloud, drafts too large to push,
  signing in after editing, several devices or tabs of one account, quotas,
  export and purge; a request refused for its token or form is one that dies.
- In `CloudSync`, a publish answer that arrives after the author left Output
  (`DraftStore` has it, unless `AuthorWaits`).
- The order of single `localStorage` calls of two tabs: a handler is atomic
  across tabs, which browsers do not promise.
- A "My keyboards" list that is older than the storage it shows.
- Stores other than working copy, session, decisions and decision log; the log
  stands for the stores a fresh session does not reset (testing and criteria
  records are the others).
- In `ArtifactPipeline`, the functional round trip (I2) and context tolerance,
  reload after a stale chunk, blob URLs, a license that does not parse, a
  transform that throws, a fetch that answers after its timeout, hand edits lost
  when a transform restores the snapshot.
- In `SurveyHistory`, the Open track and its tools menu, steps that skip
  themselves, revise-and-return, positions within a step; a reload restores the
  draft that was flushed on leaving the page.
- In `CrashReports`, capture, scrubbing and the text of fingerprints, failures of
  `sessionStorage`, a reload of the tab, the notice's timer.
- In `Publishing`, validation and path confinement, the token cache, titles and
  bodies, the standalone server's different order of parse and throttle, a build
  that ends after Output was left, people's pull requests crowding the page the
  probe reads.
- The engine, contracts, lint and content: pure functions and data, whose proofs
  would be round trips over unbounded text; the working copy's undo, staleness and
  cascades, which need a model of the keyboard IR.
- In `DecisionReplay`, the sort and the routing graph (their results are given),
  validation and offers, collections with a provenance per item, the boolean gate
  and its battery, history entries, the normalization step, the decision log.
- Everything in `PROJECT.json` under components with status `not_modelled`.
