# A formal model of keystone-spassword

keystone-spassword is a plugin of OpenStack Keystone: it refuses weak and
expired passwords, blocks an account after too many bad logins, adds a second
factor (a code mailed to the user) and lets users recover a password by mail.
This directory holds TLA+ modules translated from its source, configurations
that model-check them with TLC, and proofs checked by TLAPS.

Paths below are relative to `src/keystone_spassword/contrib/spassword/` unless
they name another directory.

## 1. Inventory

| part | state | operations | interacts with |
|---|---|---|---|
| table `spassword` (`backends/sql.py`, `SPasswordModel`) | one row per user: creation time, count and time of login attempts, black-list flag, second factor columns, email columns | – | written by the driver and by `authenticate` |
| driver `SPassword` (`backends/sql.py`) | none | `remove_user`, `set_user_creation_time`, `update_user_modification_time`, `set_user_sndfa_code`, `modify_sndfa`, `modify_black`, `check_sndfa_code`, `set_check_email_code`, `check_email_code`, `already_email_checked`, getters | each: a query, Python code, then a transaction of its own |
| driver `Identity` (`backends/sql.py`) | none | `authenticate`, `_check_password` | reads and writes the row; calls the manager for a new code; sends mail |
| `SPasswordManager` (`core.py`) | none | callbacks of user created, updated, deleted; pass-through calls | called by Keystone's notifications after Keystone committed its change |
| resources (`spassword.py`) | none | recover and reset password, check email, second factor, black list, user and SCIM CRUD, change password, project roles | manager, Keystone's identity API, mail |
| `SendMail` (`mailer.py`) | none | `send_email` | SMTP server |
| `CheckPassword` (`checker.py`) | none | `strong_check_password` | cracklib |
| auth plugin (`core.py`) | none | `authenticate` | identity API |
| identity mapping driver (`src/docker/sql_ldap.py`) | table `id_mapping`: one row per user or group of a directory | `get_public_id`, `create_id_mapping`, `get_id_mapping`, `delete_id_mapping`, `purge_mappings`, `get_domain_mapping_list` | Keystone's identity API asks for an id and creates it when there is none; reads Keystone's table of groups |
| migration, docker image, patches, scripts, docs | – | deployment | – |

Keystone runs several workers and nothing in the plugin locks. What is hard:

* every method of the driver is *query, compute, write* in two transactions, so
  two requests may compute on the same old row; SQLAlchemy then writes the
  columns that were changed on the object and leaves the others;
* a login is a chain of five or more transactions, and a nested call writes the
  same row with another object;
* one stored code serves email verification, recovery and reset;
* mails may be lost although reported sent, or sent although an error is raised;
* callbacks run after Keystone's own commit: a worker may die in between;
* blocks, passwords, codes and second factors all expire by time;
* two workers may create the mapping of one user at once, with ids that need not
  agree, while others delete mappings.

What makes each part correct:

* *attempts*: a bad password counts once, a block starts at the documented
  number and lasts its time, nobody is blocked without bad passwords, no row
  makes a login fail with an exception;
* *second factor*: a token needs a code that was mailed and sent back within the
  window; the code mailed is the one compared; a user who keeps trying gets in;
* *email and recovery*: verified and reset only with a mailed code; a recovery
  leaves the email verified;
* *life cycle*: a user who exists keeps the row, a deleted one loses it; only
  strong passwords are stored, and a changed one lasts its time;
* *identity mapping*: everybody who asks for an entity gets the same id, it leads
  back to that entity, and asking and creating are as if in one step.

`PROJECT.json` lists the hazards line by line with the properties that cover
them.

## 2. Modules

| module | models |
|---|---|
| `SPasswordModel` | the row, the settings, the rows a method inserts, and the tests made on a row (`OverTries`, `StillBlocked`, `Expired`, `SecondFactorFresh`, `CodeReusable`) |
| `SPasswordDriver` | the variables; the driver's methods; `StrongCheckPassword`; `SendEmail`; the clock; crashes |
| `Identity` | `authenticate` and `_check_password`, one action per transaction, as a login and `POST password` run them |
| `SPasswordApi` | the resources of second factor, email, recovery and black list |
| `UserLifecycle` | creation of users, update (by `PATCH users` and by that of the SCIM resource), deletion, and the callbacks |
| `SPasswordSystem` | the composition, `Spec`, the fair specifications and the properties |
| `Lockout` | the abstract policy about bad passwords: which logins are refused by the block, what each verdict on a password does to the count |
| `LockoutRefinement` | the refinement mapping from the row and the requests to `Lockout` |
| `MCSPassword` | symmetry for TLC |
| `SPasswordProofs` | type correctness and the frame lemmas the other proofs use |
| `AttemptProofs`, `LifecycleProofs`, `CodeProofs` | theorems about the count, the life cycle, the codes |
| `SerialProofs`, `LockoutProofs` | theorems about requests that do not overlap, the refinement of `Lockout` among them |
| `IdMapping` | the identity mapping driver, with the properties about it |
| `Directory` | the abstract mapping of entities to ids |
| `MCIdMapping`, `IdMappingProofs` | its symmetry for TLC, its theorems |

State: `row` is the row of table `spassword` (or `NoRow`), `user` that of
Keystone's table (status, password, email address), `req[r]` the local variables
of the handler of request `r`, `inbox` the mails that arrived, `now` the clock.
Three history variables: `badTries`, the wrong passwords counted (also the bound
on logins); `proved`, the last time a client sent back a second factor code it
had been mailed; `renewed`, the last time a callback for a change of the user
went well.

One step of a request is one transaction (or mail) with the code around it that
touches nothing shared. `pc` names the step a request is at; the methods of the
driver have two steps, the query (`GetSPasswordSession`, which puts the row in
`ref`) and the write. The write follows SQLAlchemy: a column is in the UPDATE
only when the value assigned differs from the value loaded (`Written`); an
UPDATE of a row deleted meanwhile, and an INSERT of one that exists, are errors
of the request. A `Crash` ends a request at any step.

How the steps of `authenticate` correspond to `backends/sql.py`:

| action | lines |
|---|---|
| `Authenticate`, `ChangePassword` (`BlockCheck`) | 382-397 |
| `LoadUser`, `CheckPassword` | 398-402, 351-377 |
| `RecordAttempt` | 404-450 |
| `Challenge`, `StoreChallenge` | 451-453 (with 172-197) |
| `MailChallenge` | 454-470 |
| `Commit` | 510-512, the assignments of 410-415 and 426 |
| `Register`, `InsertLogin` | 479-512 |
| `Answering` | 514-517 |

`StorePassword` follows a granted `ChangePassword`: Keystone stores the new
password and notifies the callback.

Abstractions: one user, since no operation relates two; passwords, addresses and
codes are model values; a generated code or password is none of those anybody
holds (six hexadecimal digits may collide in reality); hours, minutes and days are
ticks; `extra` is the flag `black` or nothing; names, domains, messages and
`extras` of the answer are left out, as are authorization (`ENFORCER`), which is
Keystone's, and Keystone's cache of `get_user`. `CONF.spassword.enabled` is true:
without it the plugin does nothing but pass calls on. cracklib is the set
`Strong`. A client types codes from the user's mails, or a wrong one. A body with
a null password or email is not modelled.

`Lockout` has the clients' view: the stage of each call, from "trying" by a
verdict ("wrong" or "right") to its answer, the number of bad tries in a row, and
the time since the last login that was counted. A wrong password is answered
"refused" by the step that counts it and by no other, whoever is told "blocked" is
blocked, and whoever is blocked gets no further than that. What shows nothing there is a
stutter: a write that leaves count, time and stages alone. The refinement mapping
reads a stage from the step a request is at; a login is judged (`Judged`) from its
second query, which dates the attempt, to the write of it.

In `IdMapping` a call of Keystone is `Resolve`, one action per query
(`QueryGroup`, `QueryMapping`), and `CreateIdMapping`, whose unique constraint
(`Clash`) may send it back to a second lookup (`UseOther`). An id is a hash of
the entity or a UUID the directory gave: it belongs to one entity, and workers
may use different generators. `disturbed` marks calls whose entity lost its
mapping, whose group Keystone created or deleted, or whose failed query was
taken for an answer, while they ran; the properties are about the others.

## 3. Runs

| run | instance | shows |
|---|---|---|
| `passwords` | 1 request, every call that changes the user but the reset; 5 ticks, 4 bad tries | `TypeOK`, `ImplementsLockout`, `BlockEnds`, `StrongPasswords`, `DeletedUserLosesRow` |
| `lifecycle` | 2 requests: creation, update, deletion, change of password, logins; 2 ticks, 2 bad tries | `AttemptsStamped`, `NoSpuriousBlock`, `RenewalLasts`, `PresentUserKeepsRow` |
| `second_factor` | 2 requests, 2 codes, 1 tick | `ChallengeComplete`, `MailsCarryCodes`, `TokenNeedsMailedCode`, `VerifiedOnlyByMailedCode` |
| `second_factor_live` | 1 request, 3 codes, window 1 of 2 ticks, `LoginSpec` | `MailedCodeIsStored`, `ChallengeRetriesCode`, `TokenNeedsMailedCode`, `EnrolledUserGetsIn` |
| `recovery` | 1 request, 3 codes, 3 passwords, `RecoverySpec` | `ResetNeedsMailedCode`, `VerifiedOnlyByMailedCode`, `RecoverKeepsVerified`, `PersistentUserRecovers` |
| `id_mapping` | 3 workers, 2 generators, a user and a group of one name | `TypeOK`, `OneId`, `Resolved`, `AnswersAreMapped`, `ImplementsDirectory` |

Bounds. The runs of the plugin say `CHECK_DEADLOCK FALSE` because the clock
(`MaxTime`), the logins (`MaxBad`) and the supply of `Codes` and `Passwords` are
bounded: a model at its bounds stops where the system goes on. `id_mapping` has
no bound and checks for deadlock. Two requests are enough for every race named
in the inventory: the row is the only thing shared, and a stale write needs one
other writer; a third worker in `id_mapping` sees what two that race have left.
Limits of 1 try and windows of 1 or 2 ticks make blocks, expiry and renewal all
happen within the clock's bound. Enrolment takes one code and a challenge
another, so two codes already let a login be challenged; three let it be
challenged again after a window. Three passwords allow two resets.

`ImplementsLockout`, `MailedCodeIsStored`, `ChallengeRetriesCode`,
`RecoverKeepsVerified` and `DeletedUserLosesRow` hold for one request at a time
only: with two, a bad try is lost (`lost_try`), or an account just unlocked is
blocked again by a login that read the old count; two logins mail a code each and
the second replaces the first; a recovery may take the verification away
(`recover_race`), and a login brings back a row (`resurrected_row`). Their runs
have a single request; the proofs (section 5) cover any number of requests that do
not overlap, and show that without overlap these races cannot happen.

What the properties that hold do not say: `NoSpuriousBlock` bounds the count from
above, so lost tries are not its subject; `VerifiedOnlyByMailedCode` and
`ResetNeedsMailedCode` accept the code of any mail, old ones and those of another
kind included; `DeletedUserLosesRow` and `PresentUserKeepsRow`
excuse a worker that dies before the callback, which then leaves the row for
ever. With two codes, `second_factor` has a single challenge at a time; that two
challenges never leave code and time apart is proved (`CodesAreDated`).

### Where code and documents disagree

Each of these runs has one property that says what a document or comment says,
and TLC shows a behaviour of the code that violates it.

| run | what happens |
|---|---|
| `lost_try` | two wrong logins at once are counted as one (README.md:64-65) |
| `max_tries` | one bad try more than `pwd_max_tries` is let through (README.md:59) |
| `stale_code` | a second factor code never expires (docs/second_factor_auth.md:81) |
| `recover_race` | a recovery overtaken by another request takes the verification away (`spassword.py:219`) |
| `unverified_address` | after a change of the user's email, a recovery mails its link to an address nobody verified (README.md:266) |
| `resurrected_row` | a login in progress brings back the row of a user deleted meanwhile: the callback is over, the deletion answered, and no later callback removes the row, since ids are not used again (`spassword.py:147`) |

Another disagreement has no run, being plain in the code: the code mailed to
verify an email is compared with the same column (`spassword.py:257`), so it
resets the password without a recovery, and without a verified email, where
README.md:272 asks for the code "sent by email when user performs previous
request", the recovery. `ResetNeedsMailedCode` holds of it all the same.

Two more observations contradict no document. A login between the creation of a
user and its callback registers the row first, so that the branch
`backends/sql.py:136` asks about ("TODO: Never reached?") is reached. In the
mapping driver, a database error during the lookup of a group counts as "no such
group" (`sql_ldap.py:87`), so a mapping may be created beside the id of Keystone's
own group.

## 4. Fairness

`Spec` has none: safety holds whatever stops. The liveness properties are checked
under three specifications, all with weak fairness on `Continue(r)`: a worker
goes on with the request it has. That a worker does not die is never assumed for
a single request; two properties have as a premise that crashes stop at some
point, and `DeletedUserLosesRow` allows for one.

* `FairSpec` (`passwords`): time passes as well. Nothing is assumed of clients.
* `LoginSpec` (`second_factor_live`): strong fairness on logging in, on a mail
  arriving and on clicking its link. This describes a user who does not give up,
  and a mail server that does not lose every mail.
* `RecoverySpec` (`recovery`): the same for one who asks for a recovery, clicks
  its link and reads the new password.

The code promises neither such users nor such a mail server: the properties say
what it gives them. The premises `OutOfCodes` and `OutOfPasswords` only leave out
behaviours in which a handler needs a new code or password and the bounds have
none left. `EnrolledUserGetsIn` assumes that the enrolment stays, and
`PersistentUserRecovers` that the email stays verified, except while a recovery
itself unverifies it: a wrong code sent by anybody to an open URL ends both, and
then only a new verification helps.

## 5. Proofs

| theorem | says | argument |
|---|---|---|
| `TypeInvariant` | `Spec => []TypeOK` | `Typed` = `TypeOK` and `GeneratedCodes`: a request that generates codes never carries a client's wrong code. Without it `TypeOK` is not inductive: such a code could be stored or mailed. One lemma per action over lemmas on `Goto`, `Answer`, `Flush`, `Insert` and each method |
| `AttemptsAreStamped` | `Spec => []AttemptsStamped` | `OnlyLoginsCount`: every step but the two writes of `authenticate` keeps count and time together or sets the count to 0; `CountedRow`: those two write a time |
| `NoBlockWithoutTries` | `Spec => []NoSpuriousBlock` | `Counted` adds that a request past `RecordAttempt` with a wrong password carries a count at least one below `badTries`. Needed because what `Commit` writes was computed steps before, on a row that may be gone since |
| `PresentUserKeepsItsRow` | `Spec => PresentUserKeepsRow` | `InOrder`: a request at `remove_user` means the user is deleted already, one at a callback that the user was created |
| `ChangedPasswordLasts` | `Spec => []RenewalLasts` | `Renewals`: while the user exists, the row was created no earlier than the last renewal |
| `StoredPasswordsAreStrong` | `Spec => StrongPasswords` | `StrongNew`: a change of password carries a strong one from its first step to the last |
| `VerificationNeedsMail`, `CodesAreDated`, `ResetsComeFromMails`, `NoEmptyMails` | `VerifiedOnlyByMailedCode`, `ChallengeComplete`, `ResetNeedsMailedCode`, `MailsCarryCodes` | `CodesInOrder`: clients send codes of mails or wrong ones (`ClientCodes`); every handler has what its later steps need, an accepted code among it (`AllEquipped`); a login about to store a code has one that is neither in the row, nor in the object it loaded, nor with another login (`Unstored`), or the UPDATE could write the time without the code |
| `TokensNeedMailedCodes` | `Spec => TokenNeedsMailedCode` | `Separate`: second factor codes and email codes never coincide, so that an accepted code can only have come with a second factor mail; `StampProved`: `sndfa_last` is never later than `proved` |
| `SerialStays` | `Spec /\ []OneAtATime => []Serial` | the invariant of the next five rows, see below |
| `MailedIsStored`, `RetriesKeepCode` | `[]OneAtATime` implies `MailedCodeIsStored`, `ChallengeRetriesCode` | `LoginSound`: a login that goes on to a new code saw a row without a reusable one, and one that mails a code has it in the row |
| `RecoveriesKeepVerified`, `RecoveriesNeverUnverify` | `[]OneAtATime` implies `RecoverKeepsVerified`, `RecoverNeverUnverifies` | `RecoverSound`: the code a recovery checks is the one it stored; `RecoverMailsNext`: it gets to its mail in no other way |
| `BadTriesCount` | `[]OneAtATime` implies `EveryBadTryCounts` | `Recorded`: the count a login is about to write one more than is the row's |
| `DeletedStayOut`, `DeletedRowsGo` | `[]OneAtATime` implies `DeletedUserStaysOut`, and `RowOfDeleted` if the worker of the callback survives | `InsertsForUser`: whoever inserts a row has seen the user, and the user is still there; `RemovalGoesOn`: the callback removes the row it finds |
| `LockoutImplemented` | `[]OneAtATime` implies `ImplementsLockout` | `BlockCheckIsPolicy`: the block check is Lockout's. Then every step is one of Lockout or a stutter, for which the lemmas only need the stages it leads from and to (`Rests`, `Others`, `Fails`, `StaysJudged`): the clock is `Pass`, the second query of `authenticate` `Judge` (`RecordAttemptFollows`), its two writes `CountWrong` or `CountRight` (`CountsFollow`, by `CountedInSerial`: the count a judged login carries is the row's, and the account is not blocked), a callback `Forgive` or `Forget`. `Verdict` (a judged login gets a token only for a right password) is kept beside, or a wrong password could be answered with a token |
| `IdTypeCorrect`, `EveryoneGetsOneId`, `EveryCallResolves`, `IdsLeadBack` | `TypeOK`, `OneId`, `Resolved`, `AnswersAreMapped` of `IdMapping` | `IInv`: a mapping is the only one of its entity and of its id, and a call that nothing disturbed still has what it found (`Holds`): no group of Keystone's own once it went on to the mappings, a mapping of its entity once it looks a second time |
| `DirectoryImplemented` | `Spec => ImplementsDirectory` | from `IInv`, one lemma per action: each maps to a step of `Directory` or to a stutter |

The theorems hold for any set of requests, any settings, codes, passwords,
entities and bounds, from the assumptions of the modules only: the settings are
natural numbers or Booleans, and the null values lie outside the data.

`OneAtATime` says that of any two requests one is not being handled. It is an
assumption about the environment and not about the code, which takes no lock:
behaviours that satisfy it are those of a user who waits for each answer and an
administrator who does not interfere, however many workers there are. `Serial`
is what such a request may rely on: while it holds an object (`ref`), that is the
row; from the second query of `authenticate` to its write, the account is not
blocked, the count recorded is the row's, and the time recorded is between the
row's and the clock's; a request about to insert a row has a user who exists. None
of this is inductive by itself: the clock must end blocks and never begin one
(`TickInTouch`, which needs `AttemptsStamped`), and a step of one request must
leave the others in touch, which it does because they are free, or because a
step of a request that stays free writes nothing (`OthersInTouch`, `FreeStep`).

Only model-checked: liveness under fairness, which is outside this prover's reach:
`BlockEnds`, `DeletedUserLosesRow`, `EnrolledUserGetsIn` and
`PersistentUserRecovers`. Two of them have their safety half proved: no login
prolongs a block (a consequence of `LockoutImplemented`: while `LockedOut`, no
login is counted, and only counting one lowers `age`), and the row of a deleted
user stays no longer than its callback (`DeletedRowsGo`).

## 6. Not modelled

* Calls that only report: `get_sndfa`, `get_black`, `get_pwd_expiration`,
  `get_domain_mapping_list`, the project roles resource. They change nothing and
  nothing is decided by them.
* `already_sndfa_signed`, which nothing calls, and the branches for a row without
  a column `sndfa` (`backends/sql.py`, 185-195 and 334-345): the model class has
  the column, so they are never taken.
* `PUT` of the SCIM user resource calls `self.patch_`, which does not exist. Its
  `post`, with a check of the password's strength, is not reached: the resource is
  routed at `/OS-SCIM/Users/<user_id>` only (`spassword.py`, 517-523), with an
  argument `post` does not take.
* The migration, which creates the table before the service runs; the image's
  scripts and patches of Keystone; the scripts under `docs/` and `scripts/`, which
  an administrator runs once by hand against LDAP or a new host.
* The SMTP dialogue: `SendEmail` has its outcomes.
* Keystone itself: its tables are modelled as far as the plugin reads and writes
  them, its authorization, caching and tokens are not.
