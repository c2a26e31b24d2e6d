# Specification of r2-lfs

TLA+ modules about [r2-lfs](../src/README.md), a Git LFS server on Cloudflare Workers that keeps
objects in R2, and its command line. They model the parts of it whose mistakes lose data, hand data
to the wrong people, or leave somebody stuck, and that a test would hardly reach because they take
several actors, a lost answer or a crash at the wrong moment. TLC checks each module on a small
instance; TLAPS proves all the safety properties it checks for every value of the constants.

Paths below are relative to the repository's root, which is `src/` here: the Worker's `src/app/lfs.ts`
is `src/src/app/lfs.ts` in `PROJECT.json`, and the command line's files start with `cli/`.

- [The system](#the-system)
- [Modules](#modules)
- [Runs](#runs)
- [Proofs](#proofs)
- [Disagreements with the documentation](#disagreements-with-the-documentation)
- [What is not modelled](#what-is-not-modelled)
- [Plan](#plan)

## The system

Two programs share a bucket.

**The Worker** (`src/`) answers the Git LFS API and serves an admin UI. Cloudflare runs it in any
number of isolates, starts and stops them at will, and may stop a request between any two calls.
What it keeps is in R2 (no transactions; single-key reads and writes are strongly consistent;
conditional writes on an ETag) and, for file locks, in one Durable Object per repository (SQLite,
one call at a time). Everything an isolate has in memory is a cache.

**The command line** (`cli/`) runs on developers' machines and in CI: git's credential helper and
transfer agent, and the administrator's commands, which reach the bucket through R2's S3 API or
through the Worker.

| Component | State | Operations | What makes it hard | What makes it correct |
| --- | --- | --- | --- | --- |
| Object uploads (`app/lfs.ts`, `app/multipart.ts`, `infra/r2-*-store.ts`, `infra/s3-copier.ts`) | live objects, staging keys, membership markers of the shared layout, R2's multipart uploads, signed links | proxy upload, presigned upload and `verify`, multipart complete | uploads of one object share a staging key; R2 and the Worker may stop between any two calls; clients repeat what was not answered | stored content hashes to its oid; only who sent an object reads it; an accepted upload can be downloaded |
| Trash (`shared/trash.ts`, used by `app/repository-storage.ts` and `cli/infra/bucket-storage.ts`) | live keys and trash keys | trash, restore, tier, delete without trash | a move is a copy and a delete; lock rules refuse deletes; answers are lost; others upload, restore and expire meanwhile | an object is never under neither key; reported outcomes are true |
| Garbage collection (`cli/app/gc.ts`, `cli/domain/plan.ts`, `policy.ts`) | the clones' refs, the listing, the plan | fetch, list, plan, pick, fetch and plan again, trash, delete or tier | pushes move refs and upload objects all the time; several repositories with different policies share objects; a person takes hours to confirm | what a pushed ref needs stays; nothing young is touched |
| Transfer agent (`cli/app/transfer-agent.ts`, `cli/infra/multipart-uploads.ts`) | a file per interrupted upload, the parts on the server | start, part, complete, resume | lost answers, kills, dropped uploads, changed request sizes, expired tokens | success means stored; every byte goes over once; pushing again helps |
| File locks (`infra/repo-locks.ts`, `app/locks.ts`, `app/admin-locks.ts`) | rows of the Durable Object | create, list, verify, unlock, forced unlock | a call is retried when its answer is lost; listing takes many pages; an unlock looks first and removes later | who was told they hold a lock holds it; pages miss nothing and repeat nothing |
| Session key (`infra/session-tokens.ts`, `infra/r2-session-key.ts`) | the key object, a copy in each isolate | mint, verify, rotate | two isolates create the key at once; a slow read refills a cleared cache | a rotation ends all old tokens within a bound; isolates agree on one key |
| Access (`infra/host-permissions.ts`, `app/session.ts`, `app/authorize.ts`) | each isolate's memory of the host's answers, tokens in clients' hands | ask the host, open a session, sign a transfer, let in | a token is signed on an answer that is already old, and traded on | access ends within a bound of the host saying no |
| Repository identities (`infra/r2-repository-identities.ts`, `app/authorize.ts`) | which repository owns a name, a copy in each isolate | claim, check, delete the record | names are handed over while answers are remembered; two claims at once | only the owner of the record gets in, and it does |
| Stored tokens (`infra/token-directory.ts`, `infra/r2-tokens-file.ts`, `app/admin-tokens.ts`, `cli/app/token.ts`) | one JSON file, a copy in each isolate | create, revoke, check | the admin UI and the CLI edit at once; answers are lost | no edit undoes another; a revoked token opens nothing after a bound |
| Front door (`domain/config.ts`, `domain/access.ts`, `app/authorize.ts`, `http/router.ts`, `http/handler.ts`) | none; tokens in clients' hands | read the settings, authorize, route, refuse | many checks in an order, one set for each endpoint; tokens are traded for tokens | nobody exceeds their rights, however credentials and tokens are combined |
| Batches and quota (`domain/batch.ts`, `app/lfs.ts`, `infra/r2-object-store.ts`, `infra/transfer-links.ts`) | each isolate's memory of what a repository uses | batch | limits at several places; totals are a minute old, counted page by page, and do not know of uploads in flight | what is offered is not refused afterwards; a grant fits beside what had settled |
| Credential helper (`cli/app/credential.ts`, `cli/commands/credential.ts`, `cli/infra/session-cache.ts`) | a file with a session per repository | get, erase | git processes run side by side; logins change, the server's key is rotated, commands are interrupted | a rejected session is not handed out again; a session is the login's within a bound |
| setup (`cli/app/setup.ts`) | bucket, lifecycle and lock rules, the deployed Worker | a call of Wrangler for each | any call fails or loses its answer, and setup is run again with other options | what is deployed has its prefixes locked, and nothing else is |
| init, migrate, verify (`cli/app/migrate.ts`, `init.ts`, `verify.ts`) | a clone, its `.lfsconfig`, two servers | fetch, download, point, commit, push, verify | each step may be the last; the next run goes by what the files say; others push meanwhile | "every version is on the new server" is true; nothing is left behind on the old one |
| archive (`cli/app/archive.ts`, `cli/domain/tar.ts`, `cli/infra/tar-writer.ts`) | a draft release and its assets | plan the parts, write, upload, publish | a run stops and is tried again with other part sizes; planned sizes must be the written ones | a published release is whole and of one run |
| Admin UI: objects (`routes/[_]admin/repos.$owner.$name.tsx`, `app/admin-objects.ts`) | a page's listing, selection, runs and report | select, trash, restore, tier, undo | a run takes many requests, whose answers get lost; other tabs, the CLI and uploads work on the same objects | a report accounts for what was moved |
| Admin UI: locks and tokens (`routes/[_]admin/locks.tsx`, `tokens.tsx`) | lists and dialogs minutes old | release, revoke | rows come, go and look alike | only what the dialog named is taken away |
| Admin UI: audit log (`app/admin-audit.ts`, `infra/r2-audit-log.ts`, `routes/[_]admin/audit.tsx`) | an object per entry | record, page | a change and its record are two writes; entries land late while somebody pages | entries are true; paging shows each once, in order |
| Admin UI: storage report (`app/admin-storage.ts`, `routes/[_]admin/index.tsx`) | the last report | count, keep, show | a count lists the whole bucket while it changes, and stops after some pages | numbers lie between what was there all along and what was there at some time, and a lower bound says so |
| Signing keys (`infra/jwt.ts`, `infra/access-verifier.ts`, `infra/actions-oidc.ts`) | each isolate's memory of an issuer's keys | verify | keys are rotated; fetches fail, are late and out of order | a published key is not refused, a withdrawn one not taken for long |
| restore, usage, why, doctor; activity page | what git and the bucket keep | reports | | what they report is true |
| Entry points, answers, ranges | none | | | pure |

They meet in five places. Uploads put objects where the trash procedures and gc find them. gc moves
objects through the trash procedures. The transfer agent drives the Worker's multipart calls. Access,
identities, tokens and the session key decide, in this order of calls, whether a request gets to any
of it (`http/handler.ts`). The admin UI moves objects through the trash procedures beside the command line, and
records what it does in the audit log.

## Modules

Each component has a module (its state and actions, its properties at the end), an `MC` module that
adds what TLC needs (symmetry, small definitions). The proofs are in eight `Proofs` modules, some of which are about
several components that share lemmas. Two `MC` modules compose several: `MCAdmin` the admin UI with the trash procedures it calls, and `MCCommands` the commands, each in
scenes where the others rest. Beside
some definitions stands a variant of the same parameters, named for what it gets wrong
(`Fresh_Forever` beside `Fresh`): with it in the definition's place, TLC finds the property violated that
`PROJECT.json` names under `mutants`, for each property of each run that passes.

Where a component has settings, or where one instance cannot show everything, the module has a rigid
variable (`setting` in `Uploads`, `scene` in `Locks`, `Gc`, `TransferAgent` and `Server`) that `Init` picks
from a constant set and that no step changes. One run thereby covers several deployments, and the
theorems are about any set of them.

A request is a record in `call` (in `job`, `run`, `push` or `agent` where the code is not a request
handler) with the step it is at. One action is one call to R2, to the Durable Object, to the Git host
or to the server, with everything the code does until the next call; between two of them anybody
else may act. Time, where it matters, is a counter; `Patience` is the longest a request may take (`Longest` for a
batch) and `MaxTime` (`end` in a scene of `Server`) ends the run.

| Module | Code | How they correspond |
| --- | --- | --- |
| `Trash` | `moveToTrash`, `restoreFromTrash` of `shared/trash.ts`, with the `tier` and `delete` of both storages | `live` and `trash` are sets of objects; `job[m]` is a mover's place in the procedure. Each call to the bucket may be carried out and answered, refused (lock rule, not found) or carried out without an answer. A crash ends the mover. `Upload`, `Expire` are the environment. |
| `Uploads` | `upload`, `verify` of `app/lfs.ts`; `completeMultipart` of `app/multipart.ts`; the stores and copiers under them | `live`, `staging`, `member` are the keys of the bucket, `uploads` R2's multipart uploads, `links` the signed links. Contents are model values; one of them is the one that hashes to the oid. `Fail` stops a request anywhere. |
| `LockService`, `Locks` | `infra/repo-locks.ts`, `app/locks.ts`, `app/admin-locks.ts` | `LockService` is the promise: who holds each file, taken and freed in one step each. `Locks` has the rows, the calls with up to `Attempts` tries and lost answers, and the two steps of an unlock. Rows are the Durable Object's table; a call on it is one step because it handles one at a time. |
| `GcPlan`, `Gc` | `cli/domain/plan.ts`, `policy.ts`, `cli/app/common.ts` (pure, `GcPlan`); `cli/app/gc.ts`, `cli/commands/gc.ts` and pushes (`Gc`) | A history is a graph of commits with the objects their trees use. `Promised` says what a policy has to keep, `Plan` is what the code decides; the properties compare the two. A run fetches each repository, lists, lets the user pick, fetches again, plans again if a ref has moved, and changes objects one at a time. |
| `TransferAgent` | `cli/app/transfer-agent.ts`, `cli/infra/multipart-uploads.ts`, the Worker's multipart calls | One object of `Size` units. `saved` is the agent's file, `uploads` what R2 has. Faults are an option each: lost answers, throttling, expired tokens, kills, dropped uploads, raised or lowered request sizes. |
| `SessionKey` | `infra/session-tokens.ts`, `infra/r2-session-key.ts` | A token is the key that signed it. The key object, each isolate's copy with its expiry, and requests that mint, verify or rotate. |
| `Access` | `infra/host-permissions.ts`, `app/session.ts`, `http/handler.ts` | One account and one repository. Host credentials, session tokens and action tokens are a credential's kind and expiry; `Reach` says how far each may carry the host's last yes. |
| `Identities` | `infra/r2-repository-identities.ts`, `app/authorize.ts` | Repositories that have the same name in turn (`Handover`), the record in R2, and two caches per isolate. |
| `FrontDoor` | `domain/config.ts`, `domain/access.ts`, `app/authorize.ts`, `infra/host-permissions.ts`, `http/router.ts`, `http/handler.ts`, the guards of all handlers, `domain/batch.ts` | Operators without state: which settings are taken, what `Authorize` makes of a credential in a repository, which requests `Gate` lets in, what a batch decides. A pattern is the set of repositories that match it. |
| `Server` | `app/lfs.ts` (`batch`), `infra/r2-object-store.ts` (`usage`), and every other endpoint as far as batches see its effect | Accounts make the requests of a scene with everything they hold, `held` is what they were handed, `batches` the batches being answered. A batch looks its objects up in any order, asks for markers, then goes by what its isolate remembers or lists the repository, one object a page, while others upload and remove. |
| `Credential` | `cli/app/credential.ts`, `cli/commands/credential.ts`, `cli/infra/session-cache.ts` | A git gets a password, shows it to the server and has it erased when it is refused. The file is one entry, written in two steps (it is truncated first); sessions are the key that signed them, their login and end. |
| `Setup` | `cli/app/setup.ts` | A prefix is the set of keys under it. Each call of Wrangler may fail before or after it took effect; a run is a set of options, several follow each other. |
| `Migrate` | `cli/app/migrate.ts`, `init.ts`, `verify.ts`, `cli/infra/git.ts` | What the remote's refs need, what the clone has, what each server stores (another owner/name of the same Worker is a server of its own), and where `.lfsconfig` points in the tree, the commit and at first, and git's own configuration. Each step may be the last of a run. |
| `Tar`, `Archive` | `cli/domain/tar.ts`, `cli/infra/tar-writer.ts` (`Tar`); `cli/app/archive.ts`, `cli/infra/github-cli.ts` | `Tar` has the planned sizes and what the writer writes, byte for byte; `Archive` the release, whose assets are the number of the run that wrote them and whose parts are named by their numbers. The packing of entries into parts is a fold of one step per entry (`AddEntry`), as its loop is. |
| `AuditLog` | `infra/r2-audit-log.ts`, `app/admin-audit.ts`, `routes/[_]admin/audit.tsx` | An entry is its key: the time left and a random number. Entries are begun and land later. A page of the log is the set of the keys that come first behind its cursor, at most `PageLimit` of them, and a cursor is the last key of a page, or nothing. The page keeps the cursors of its way back in its URL. |
| `AdminPage` | `routes/[_]admin/repos.$owner.$name.tsx`, `-ui.tsx`, `app/admin-objects.ts`, `app/admin-audit.ts` | Extends `Trash` (a request is a mover) and `AuditLog`. `runOf` is the run in the browser, `request` what the Worker does for it, `page` what the person sees; a run outlives its table. |
| `AdminRows` | `routes/[_]admin/locks.tsx`, `tokens.tsx`, `app/admin-locks.ts`, `admin-tokens.ts`, `admin-audit.ts` | A row is an id and what a person reads; ids are never used again, what is read may be. |
| `SigningKeys` | `infra/jwt.ts`, `infra/access-verifier.ts` | Published and withdrawn keys, an isolate's memory of them, and verifications whose fetches take up to `Wait`. |
| `StorageReport` | `app/admin-storage.ts`, `infra/r2-bucket-lister.ts`, `infra/r2-storage-report.ts`, `routes/[_]admin/index.tsx` | `past` is the bucket after each change, so that a report can be compared with what was there from the time it names to its end. Keys have the order in which R2 lists them. |
| `TokenList`, `StoredTokens` | `infra/token-directory.ts`, `infra/r2-tokens-file.ts`, `app/admin-tokens.ts`, `cli/app/token.ts` | `TokenList` is the promise: a list of tokens, each edit one step on it, told of after it was made. `StoredTokens`: the file is a set of tokens, new at every write (its ETag); edits load, change and write if nothing else was written; checks go through each isolate's cache. |

## Runs

Each run is `tlc -config <run>.cfg <MC module>`. Sets of interchangeable values are declared as
symmetric where the instance does not tell them apart and no liveness property is checked.
`CHECK_DEADLOCK FALSE` stands only where time or identifiers run out, or where a push may be the last.

| Run | Instance | Question |
| --- | --- | --- |
| `admin` | eight scenes, below (1.7 M states) | While nobody removes an object that somebody else is removing, is any ever lost (`NeverInNeitherPlace`) or an outcome reported that is not so (`AnswersHold`), whoever moves it: CLI, page, several runs? Does the page's report account for what its run moved (`RunAccounted`)? Does the audit log tell what happened, and page right (`LogHolds`)? Is only what a dialog named taken away (`NamedRowOnly`)? Do rotations of signing keys go unnoticed and take effect (`KeysServe`)? Are the storage report's numbers within what was there (`ReportHolds`)? |
| `trash_race` | 1 object, 2 runs of the page | Without that? Objects are lost, from a single browser: see below. |
| `uploads` | 2 repositories, 2 requests, 1 multipart upload, five deployments: proxy and multipart uploads in the shared layout with gc at work; the same with content that does not hash to the oid; presigned uploads that are checked, of the right size and of another; presigned uploads that are taken as claims; multipart completes that are repeated in the per-repo layout (1.65 M states) | Is stored content right (`StoredContentHashes`)? Is everybody who may read an object somebody who sent it (`ReadersUploaded`)? Can who was told "accepted" download it (`AcceptedIsReadable`)? May a client repeat a complete, wherever the first one stopped (`RetryIsNotRefused`)? |
| `uploads_retry_shared` | 1 repository, 1 request, the shared layout | Violation; see below. |
| `locks` | two scenes: 2 people, one an admin, 1 file, 2 requests, 2 tries a call, 2 locks; and 1 person, 2 files, 3 locks and a client that lists in pages of one (504 k states) | Do holders hold (`HoldersHold`)? Do listings miss and repeat nothing (`ListingExact`)? Is it all an implementation of `LockService` (`ImplementsService`)? Is every request answered (`RequestsAnswered`)? |
| `gc` | 2 repositories with policies of their own, 3 commits on 2 branches, 1 run; two scenes: prompt pushes for 5 days, and pushes of any duration and content for 4 (688 k states) | With prompt pushes that send all they need, does everything pushed stay live (`PushedStaysLive`)? Whatever pushes do, is nothing young touched (`YoungStays`), and what the refs needed when gc last fetched spared (`RecheckSparesPushed`)? |
| `agent` | 5 units in parts of 1 to 3, 2 tries a call, 4 multipart uploads; two mixes of faults: up to 4 of what leaves an upload to be resumed, and up to 3 of what passes in the end (577 k states) | Is what is reported stored (`ReportedIsStored`), does a complete name every part (`CompletesWhole`), is nothing sent twice (`NothingSentTwice`) and no progress lost (`ProgressKept`)? Does whoever pushes again get the object over (`PushGoesThrough`)? |
| `session_key` | 2 isolates, 2 requests, 2 keys, all times 1 | Is a rotated key gone after its bound (`RotationRevokes`)? Does an isolate refuse the current key's tokens only while it may hold an old one (`SameKeyEverywhere`)? |
| `access` | 1 isolate, 1 request at a time, all lifetimes 1 | How far does the host's yes carry (`AccessEnds`)? |
| `identities` | 1 isolate, 2 requests, 2 repositories | Does only the recorded repository get in (`AccessFollowsRepository`), always (`OwnerIsLetIn`), and does one that lost the name long ago not take it back (`OnlyOwnersClaim`)? |
| `commands` | six scenes, below (2.2 M states) | Are edits of the tokens file as if one was made at a time (`EditsAreOneByOne`: `StoredTokens` implements `TokenList`), does every one that was reported stand (`NoEditUndone`), and does a revoked token open nothing after the bound (`RevocationTakesEffect`)? Is a rejected session handed out again, or one of another login (`PasswordsServe`)? Do all runs of setup together lock what is served and nothing else (`RulesHold`)? Is a completed migration complete, and one that was interrupted after its download resumable (`MigrationHolds`)? Is a published archive whole, and as large as planned (`ArchiveHolds`)? |
| `server` | 2 accounts, 2 repositories, an object that fits in one request or part and one that does not; six deployments over all Git hosts, both layouts, proxy and presigned transfers, workflows, operator's tokens, an object limit, and settings that exclude each other; and two with a quota, with one batch and removals, and with two batches at once (290 k states) | Does nobody exceed their rights (`NobodyOversteps`)? Is nothing offered that is refused afterwards (`OffersCanBeTaken`)? Does a batch keep to the quota as far as it can know (`QuotaHolds`)? |

The scenes of `admin`, in each of which only that part of the world moves:

- `trash`: 2 objects and any two of three movers at once, all four operations.
- `requests`: a run of two objects in two requests, with uploads and expiry. `runs`: two runs over one object, the
  first perhaps of a table that is gone. `shared`: a run, and somebody else at the same object.
- `log`: entries of two ticks with two random numbers each, pages of two. `rows`: two ids, two readings, two changes.
- `keys`: one key and two verifications; a memory of 2, fetches of up to 1, clocks 1 apart, tokens that have ended or end late.
- `storage`: seven keys of every kind in both layouts, pages of two, at most three pages (so that a full bucket is cut
  off), two changes while it lists: enough to move an object between two keys.

Those of `commands`: `tokens` (1 isolate, 2 requests, 2 tokens), `login` and `rotation` (one git at a
time and two logins; two gits and a rotation of the server's key), `setup` (4 patterns, two of which have rules of one
id, any number of runs with 26 sets of options),
`migrate` (2 objects; three servers, two of which are names of one Worker, and any of them in git's own configuration; any number
of runs, with `--from` naming the server that `.lfsconfig` named at first, or not given), `archive` (tags of files and links around a block's size, 3 part sizes, 2 runs).

**Why these sizes.** The hazards are between two actors on one thing: two movers and an uploader of
one object, two repositories with one object, two requests on one key or record. Each instance has
that many, and one more where a third party matters (a second object that must not be touched, a third
mover). Sizes of objects are in units, chosen so that a part size divides the size, does not divide it,
and exceeds it. Lifetimes are 1 and `Patience` is 1, so that a cached value can expire within a request
and a request can span an expiry; `MaxTime` lies beyond each bound a property names, so that the property
is evaluated after it. `MaxFaults`, `MaxLocks`, `MaxDay` and the bounds in the scenes (faults, locks, days, tokens held at once) limit histories; each is large enough for every
action, and every disjunct of the next-state relations, to be taken. The theorems hold without these bounds,
for any `MaxTime`, `MaxFaults` and so on.

`access` has one isolate and one request at a time: a second one only adds tokens, and the property is
about each token by itself. `identities` has one isolate, because with two the instance is too large; the
theorem holds for any number.

**Fairness.** Two runs check liveness.

- `RequestsAnswered` (run `locks`) assumes that each request that can take a step does so in the end (`WF` on the
  disjunction of the request's own steps, not on each outcome): a Worker goes on with a request or is stopped, and a
  lost call is one of the outcomes. Nothing makes a call succeed; after `Attempts` tries the request
  ends with an error (`infra/repo-locks.ts`).
- `PushGoesThrough` (run `agent`) assumes that the agent goes on with what it is doing and that whoever pushes does
  it again while the object is missing (`cli/app/transfer-agent.ts` keeps its file for that). Faults are finite in
  number and never forced to end one way. The property leaves a lowered request size out: see below.

## Proofs

`tlapm <module>Proofs.tla` checks each of them. Every theorem is about a component's specification with its
constants left open; the assumptions on constants are the `ASSUME`s of the modules, which TLC
evaluates for each instance.

| Module | Proved | Inductive invariant, and why the property alone is not enough |
| --- | --- | --- |
| `AdminProofs`, trash | `TypeOK`, `NeverInNeitherPlace`, `AnswersHold`, given `Exclusive` | `Inv` adds what each mover knows at its step (`Knows`): who is about to delete one copy has seen the other, and (`Exclusion`) nobody else may remove that one. |
| `AdminProofs`, page | `TypeOK` and `PageTypes`, `RunAccounted`, `EntriesTell`; `PageSpec => Spec` (every step of the page is one of the trash procedures or leaves the bucket alone), and so the theorems above for the page | `PageInv`: for each tab, its job, its request and its run fit together (`Fits`). What a run has moved is in its results, in its request's replies or in the one job under way; the rest is what a lost answer leaves open, which the report has as failed. A report shown fits the run it is of (`ReportOf`) while that goes on. |
| `AdminProofs`, lists | `NamedRowOnly`, `RowsRecorded` | `RowsInv`: ids are never given twice, so the row of an id that is both listed and there is the same row, and what the person was asked about is what that row says. |
| `AdminProofs`, audit log | `PagesMeet` (`PagesAreOne`), and with the theorems about the page and the lists all of `LogHolds` | `LogInv`: the cursors in the page's URL are a way (`Way`): each is the last key of the page before (`Closes`), pages come one after the other, and what was there when the first one was shown is on them or behind the cursor; the page shown goes on from there (`Arrived`). Keys are in one order (`KeysInOrder`), and a page is what comes first of a finite set (`PageIsFirst`), so what lands meanwhile moves nothing that was shown. |
| `AdminProofs`, types | `AdminTypes`: those of the page, the log, the lists, the signing keys and the storage report | Each is part of, or follows from, the invariant above; a report's cursor is the greatest key of a page (`PageEnds`). |
| `AdminProofs`, signing keys | `KeysServe` | `KeysInv`: what is remembered, and what a check was answered, held at a time that the clock still accounts for (`MemoryEnds`, `InWindow`, `Follows`), so a withdrawn key is gone from both after `Wait` and the memory's lifetime. |
| `UploadsProofs` | `TypeOK`, `ReadersUploaded`, `StoredContentHashes`, `AcceptedIsReadable`, `RetryIsNotRefused`, for any set of deployments. The properties themselves say where they are claimed: not where unverified presigned uploads are taken as claims (`TakesClaims`); for hashes, in proxy deployments and in checked ones where nobody rewrites an upload that is being verified; for retries, in the per-repo layout and proxy mode. | `SuppliedInv`: staged content, multipart uploads and the bodies in flight that hash to their oid were sent by their repository. `HashInv`: what a verification is about to copy is what it hashed, or gone. `Served`: what a request has seen or written is still there, or gc has trashed it. `RetryInv`: content that R2 has put together waits in the staging key until it is live (`Held`), and the one call in flight goes by that (`CarriesOn`). |
| `LocksProofs` | `TypeOK`, `HoldersHold`, `ListingComplete`, `ListedOnce` and both as `ListingExact`, and `Spec => ImplementsService` | One row per path, ids never given twice, requests past their look are entitled (`Entitled`), and readers have seen everything up to their cursor (`SeenSoFar`). The refinement maps the table to its holders and requests past their look to requests of the service. |
| `GcProofs` | `TypeOK` and `RecheckSparesPushed` for every history, policy and number of runs and pushes; `YoungStays` with one run; `PushedStaysLive` with one run and some `min_age_days` above 0, for prompt pushes | `AllSpare`: what a run has chosen is spared by the plan it came from. That a plan spares what is promised is a lemma about `GcPlan` alone, which rests on the two assumptions about graphs: ancestors are closed, and every object of a commit was written by one of its ancestors. `AllRipe`: what is chosen is live and old enough, and stays so, because only the run itself could remove it. `LiveInv`: what a push's commit needs it has yet to send, has sent since it began, or is promised to the refs (`AllProvided`), and a run that has fetched a second time chooses nothing that the refs need unless it knows that they do (`AllKnow`): an object that a push leads to after that was sent after the run's listing, and is too young. |
| `CommandLineProofs`, agent | `TypeOK`, `ReportedIsStored`, `CompletesWhole`, `NothingSentTwice`, `ProgressKept`, whose premise (`Gentle`) leaves throttling, expired tokens and failures in a complete out | The agent's file is the agent's state (`Remembered`), the server has each acknowledged part under its etag (`Acknowledged`), and steps are taken when due (`Due`). Arithmetic lemmas say that the parts of a file cover each byte. |
| `CommandLineProofs`, commands | `MigrationHolds`, `RulesHold`, `PasswordsServe` | `MigrateInv`: at each step a run has gathered what the remote needed when it began (`Gathered`), and a run that has downloaded points at nothing that is not at hand (`AtHandBefore`), whatever servers `lfs.url` names. `SetupInv`: what a step of setup comes after is done (`DoneBy`) and stays so whatever other runs were told, because no prefix to be locked holds anything that may not be (`Served`). `CredentialInv`: a kept session is of a login (`Recent`) and a key (`KnowsKeys`) that were current so lately that the bounds account for it. |
| `CommandLineProofs`, archive | `ArchiveHolds`: the release, the parts and the PAX records | `ArchiveInv`: of the assets that a run has to upload, what is not left to do is on the draft and of this run (`Done`), `SHA256SUMS` once it is there lists all the others, and a run that gets this far knows of no published release (`NotAgain`). That the parts fit and are full is a lemma about `SplitParts` for entries and limits of any size (`PartsHold`): after each entry what was packed so far is in order, fits as written, and no part could have taken the next part's first entry (`Sound`). Planned and written sizes are the same sum (`WrittenAppend`), and a record's length counts its own digits (`RecordCounts`). |
| `CommandLineProofs`, types | `TypesOK` | Each command's types are part of its invariant. |
| `CommandLineProofs`, tokens file | `TokensSpec => EditsAreOneByOne`, `NoEditUndone`, `RevocationTakesEffect` | `TokensInv`: a token is made once and nowhere before it is written (`MadeOnce`); an edit writes over nothing but what it read (`EditsStand`); and what an isolate remembers it read `Patience` after a revocation at the latest (`Remembers`). The refinement maps the file to the list and the times of revocations to what was removed; what is told of a new token is true because a token that was written is in the file or was revoked since (`Noted`). |
| `SessionKeyProofs` | `TypeOK`, `RotationRevokes`, `SameKeyEverywhere` | Whoever holds a key, in a request or a cache, holds the one in the bucket or one that was there at a moment the holder's clock still accounts for (`Live(k, t)`). |
| `WorkerProofs`, access | `TypeOK`, `AccessEnds`, and `TokensEnd`, which bounds the tokens themselves and is only proved | Each credential, lookup and request is within its `Reach` of the host's last yes. |
| `WorkerProofs`, server | `ServerTypes`, `NobodyOversteps`, `OffersCanBeTaken` | `ServerInv`: a token says no more than its account may, and has been checked for what it is good for (`TokenOK`); a batch offers nothing beyond its account's rights or the limits (`BatchOK`). That the gate then lets the requests in is a lemma about `FrontDoor` for each kind of action. |
| `WorkerProofs`, quota | `QuotaHolds` | `QuotaInv`: a count, finished and remembered (`UsageOK`) or under way up to its page (`CountOK`), lies between the size of what has stayed since before it began and of what was ever there since (`Counts`). What ends the proof is about sums: they grow with their sets, and of uploads granted one after the other while they fit, all fit (`QuotaKeeps`). |
| `WorkerProofs`, storage report | `ReportHolds` | `ReportInv`: a count that goes on has listed nothing but what was there at some time since it began and, up to its cursor, all that was there the whole time (`SoFar`); what is kept or shown is of such a count (`Between`). |
| `IdentitiesProofs` | `TypeOK`, `AccessFollowsRepository`, `OwnerIsLetIn`, `OnlyOwnersClaim` | What requests and caches know of the record is true, or the record was deleted recently (`For`, `Against`); what they know of the host was true recently (`Shown`). |

The sums are the community modules' `MapThenSumSet`, a fold over a function that is its own recursion. That there is
such a function on the subsets of a finite set, that it is the only one and that it is in order with inclusion is proved
in `WorkerProofs` from the well-foundedness of the numbers, by the smallest set on which it would fail: a form of induction
that needs no operator as a parameter.

The folds over sequences (`FoldLeft`, over the entries of an archive and the chunks of a tar) are reasoned about in the same
way: there is a function on 0 to the length whose every value follows from the one before, and the fold is its last
value (`Adds`, `Joins`, `Writes`, `Splits`); what holds of it is shown by the least number at which it would not.

The types of the modules with proofs are proved with their invariants; those of the first eight (`TypeOK`) and of the
commands (`TypesOK`, which stands with its theorem in `CommandLineProofs`) are no longer part of a run. `AdminTypes` is the types of the modules of `admin`, with the audit page's
way back as long as what was shown.

Only model-checked: `RequestsAnswered` and `PushGoesThrough` (liveness under fairness is out of the prover's reach), and the
violations.

### What the proofs and runs assume

- `Exclusive` (trash, and nothing else of the page): nobody moves, restores or deletes an object while somebody else removes it. The code does
  not enforce it; an administrator who runs one gc or restore at a time does, and waits for a run of the page before
  leaving its table.
- Clients are "calm" (uploads, checked presigned deployment): a client with a signed link does not write to it again
  while `verify` runs. The code does not enforce it either.
- Clients are "alone" (uploads, the deployment for retries): one complete of an upload at a time. Completes that
  overlap may be refused, one by the other's success.
- gc is left out of the deployments with forged content and with presigned uploads: an object that gc has just
  trashed is missing for whoever was told that it is there, which the run `gc` is about.
- One run of gc (`YoungStays`, `PushedStaysLive`; `OneRun` in the theorems) and, for `PushedStaysLive`, pushes that end
  within each `min_age_days` above 0, send every object they need and drop no commit that a push under way builds on
  (`anyPush` is `FALSE`). Some repository has such a `min_age_days` (`SomeoneWaits`): a policy of 0 everywhere lets gc take
  what a push has just sent.
- A prefix that names an owner, or the shared one, has nothing under it that must not be locked (`KeysAssumption`).
- One agent per object (`cli/infra/multipart-uploads.ts:74` relies on it too).
- In `server`, the sizes that clients claim are those of the objects, and a refused request changes nothing. A bucket has
  finitely many objects, listed in one order each once (`ListAssumption`); so has a page (`AdminPageAssumption`) and a
  storage report (`KeyOrder`).
- An archive's entries are files and links whose name, size and target are some numbers of bytes (`ArchiveAssumption`).
- The signing keys' issuer answers within `Wait`, and clocks are `Skew` apart (`KeysServe`).
- Requests end within `Patience`. The Workers platform bounds them; the bounds in the properties name `Patience`
  so that a reader can put in any figure.
- A call without an answer has happened or not by the time the caller goes on; it does not take effect later.

## Disagreements with the documentation

Two runs of TLC find three of them.

- `trash_race`: a move to the trash and a restore of the same object can both succeed and leave it under
  neither key; `shared/trash.ts:37` says never. The run shows it from one browser: whether a task is running is kept by the
  objects' table (`-ui.tsx:58`), which another tab or page of the listing mounts anew (`repos.$owner.$name.tsx:78`),
  while the run of the table before it goes on unseen. `-ui.tsx:52` says that changes are made one at a time.
- `uploads_retry_shared`: in the shared layout a complete that stops between dropping the staged object and marking
  the repository makes every retry fail; `app/multipart.ts:81` says a retry carries on.

The others are limits of properties that hold otherwise. Lifting the condition named here shows each of them.

- A signed link stays valid while `verify` runs, so content that does not hash to its oid can be stored;
  `README.md:412` says that stored content always does. (`uploads`: clients "any" in `StagedShared`, and
  `StoredContentHashes` without its premise.)
- Two runs of gc can remove an object on the day it was uploaded; `README.md:131` says never.
  (`gc`: `Run = {g1, g2}`.)
- Any refusal of a complete makes the agent forget the upload, an expired token included;
  `cli/app/transfer-agent.ts:81` means refusals of the content. (`agent`: `ProgressKept` without its premise.)
- Once `PROXY_MAX_UPLOAD_MB` is lowered, an interrupted upload is refused on every push; `README.md:271` says it
  continues. (`agent`: `PushGoesThrough` for the scene with "lowered".)
- A check that read the tokens before a revocation fills its isolate's cache after it; `infra/r2-tokens-file.ts:22`
  says this isolate sees the change at once. (`commands`: `RevocationTakesEffect` with a bound of nothing
  for the isolate that made the edit.)
- A batch offers a multipart upload for an object that needs more than 10,000 parts of the server's request size, and
  the start of that upload refuses it (`app/multipart.ts:37`); `domain/batch.ts:89` says that these uploads are only
  bounded by R2's object size. (`server`: `Instructed` without the limit of parts.)
- `migrate` compares only the origin of `lfs.url` with the server (`cli/app/migrate.ts:48`), so a repository at another
  owner/name of the same Worker is taken for migrated: the first run downloads nothing, points `.lfsconfig` at the new name
  (`init.ts:86`) and leaves what the clone does not have on the old one alone; the upload or the verification fails, and so
  does every run after it without `--from`. The same goes for a git configuration that names the new server before the
  first run (`git.ts:45`). `migrate.ts:31` says that every object is copied, with all versions fetched from the current
  endpoint before the repository is pointed, and `README.md:71` that it comes from any LFS server. `PointedIsAtHand` is
  therefore about runs that have downloaded; `CompleteIsComplete` holds in all cases. (`commands`: `PointedIsAtHand` without
  `pointed.from # "none"`.)
- A release that `gh` fails to show is taken for none (`cli/infra/github-cli.ts:28`), so a run of `archive` may put its
  parts over those of a published release that is not immutable; `cli/app/archive.ts:63` refuses such a release and
  `:95` relies on it. (`commands`: `PublishedIsWhole` without `release.unseen`.)
- The caption of a run's report (`repos.$owner.$name.tsx`) calls what failed "Objects that did not change"; a change
  whose answer was lost may have happened, and so may one that the audit log has as failed.
- `countStorage` says that a failure to keep the count does not lose it (`app/admin-storage.ts:79`); the Overview shows what
  is kept, so then all that is left of the count is the number of objects in a message (`StorageReport`: `Keep`, `ShowKept`).

What the code does not promise, and the properties therefore leave out:

- The report of a run whose table is gone is never shown, and an Undo that fails forgets which objects it was for
  (`AdminPage`: `Reporting`, `Begin`).
- Of two counts of storage at once the one that ends last is kept, be its numbers older; and an object that is trashed
  while a count runs may be counted under both keys or under neither, by the order of the keys.
- Parts of an earlier try with another part size stay on a draft release, beside those that `SHA256SUMS` lists.
- Rules of lock prefixes whose names differ only in what `setup.ts:201` replaces share an id: the second one is taken to exist.

Two batches in flight can both fit in the quota and exceed it together. Nothing documents the contrary, and
`QuotaHolds` is about one batch.

## What is not modelled

Within the modelled components:

- Uploads: encryption, and streaming of bodies; an upload is there or not, as in R2.
- Trash: how the bucket is listed. What a command lists may be out of date when it acts on it; the model lets every
  object be acted on at any time, whatever was listed.
- gc: the policy file's parser, the glob matcher (a policy is given per path), keys that are not objects, dry runs,
  `--no-fetch`, incomplete clones (refused) and the shared layout without all its repositories (refused, unless the user insists).
  The listing of a second plan belongs to the day it is made. A push's upload does not model the shared
  layout's upload of an object that another repository has stored, nor a presigned upload over a stored one.
- Transfer agent: progress messages, downloads, a changed URL or size (a new upload), and its installation.
- Access: one account, repository and level of permission; GitHub Actions' own tokens, whose lifetime is GitHub's.
- Front door: the syntax of settings, URLs, headers and bodies; failures of a Git host; repositories that changed hands (`Identities`); tokens stored in the bucket
  (`StoredTokens`).
- Session key: the tokens' encoding, and a key object that is not a key (every request fails).
- Admin UI: the gate's checks of a single request, creating a token and rotating the key from the page (their effects are
  in `StoredTokens` and `SessionKey`), the difference between failed, missing and (of a tier) locked, what pages look like; claims of a JWT other than its key and its end.
- Commands: progress, prompts, dry runs, `verify --deep`, what init writes into the user's git configuration, two spellings of one
  origin (which `migrate` takes for two servers), the shared layout in `migrate`, and the bytes of an archived file.
- Stored tokens: labels, scopes, and the tokens of `AUTH_TOKENS`, which never change.

Components without a module: `restore`, `usage`, `why` and `doctor` (restore's moves are in `Trash`; the rest reads
and reports), the Overview's settings and the activity page (a query), entry points, answers and ranges (functions of
one request), and terminal output.

## Plan

The order was by what is lost when the code is wrong: objects first (trash, uploads, gc), then work (transfer
agent, locks), then access (session key, access, identities, stored tokens), then the commands and the admin UI. Next:

1. Composition: gc's changes through the trash procedures and uploads against both, with `PushedStaysLive` as the
   property; the lifetimes of access, identities and the session key in one bound, which lets one run take the place
   of `access` and `identities`.
2. gc through the Worker (`cli/infra/server-storage.ts`): batches of changes, some of them answered.
3. Pure functions as operators checked against a reference over bounded inputs: `parseRange`, `fillTimeline`,
   `repoPatternMatches`, the policy file.
