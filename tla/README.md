# A TLA+ model of the workspace backend

TLA+ specifications of the backend in `src/`: an API gateway, an auth service and a
user service (FastAPI, PostgreSQL, Redis, HTTP between them), TLC configurations that
check them on small instances, and TLAPS proofs of what matters most.

    tlc -config <run>.cfg <Module>.tla      a run; PROJECT.json names its module
    tlapm <Component>Proofs.tla             the proofs of a component

Short names used below: AS = `src/services/auth_service/src/auth_service`,
US = `src/services/user_service/src/user_service`, GW = `src/gateway/src/gateway`.

## 1. The system

Every service is one asyncio process (or several behind a balancer). Inside a process a
handler runs without interruption from one `await` to the next, so a step of a model is
the code between two awaits, together with the effect of the round trip it awaits. A
PostgreSQL transaction takes effect at its commit, a Redis command or `MULTI` at once.

| Component | State it keeps | Operations | Hard behaviour | What makes it correct |
|---|---|---|---|---|
| Registration saga (AS `application/services.py`, `idempotency.py`, US internal API) | `user_auths` rows, idempotency records in Redis, `users` rows | register, bind_password; create, activate and delete profile | four stores without a common transaction; crashes, timeouts, late handlers, retries, overlapping keys | an account is usable only when complete; the record tells the truth; a retry registers nobody twice |
| Refresh tokens (AS `cache/refresh_tokens.py`) | session per token and index per user in Redis, each with a time to live | login, refresh, logout, logout-all | read-check-write over several round trips, stale copies, an index that expires | a used or revoked token is dead; one successor per token; logout-all reaches every session |
| Login limiter (AS `cache/login_limiter.py`) | a counter per user name and per address | check_limits, record_failure, clear_failures | logins side by side, a crash between INCR and EXPIRE, window edges | failures are bounded, locks end, an address is not cleared by a success |
| Rate limiter (GW `core/rate_limit.py`) | a bucket per client and service, in process | check | window edges | bounded bursts, no undue refusal |
| Proxy and circuit breaker (GW `core/proxy.py`, `circuit_breaker.py`) | a circuit per service, in process | before_call, record_success, record_failure; the request pipeline | outcomes recorded late and out of order, probes that record nothing | a dead service is shielded, a recovered one is reached again, services are independent |
| Permissions: check (GW `core/permissions.py`, US `api/deps.py`) and RBAC (US `application/services.py`, `api/v1/rbac.py`) | `user_roles`, `role_menus`, `is_admin`; `permission:user:{id}` in Redis | both checks; assign, replace and remove roles and menus; delete a role or a user | a key filled by two services and cleared by four changes out of ten; fills that race with clears; lists of users read before the commit | a revoked permission stops working within a bounded time; the next request sees a change when nothing overlaps |
| Audit log (US `application/services.py`) | rows, only added | written after four of the changes | a second transaction after the change; a tenant it may not have | no entry without its change; every change has one |
| User profiles (US `application/services.py`, `domain/models.py`) | `users` rows, `user:{id}` in Redis | ten operations, public and internal | a row loaded, changed and compared with a second read; copies set and dropped after the commit | a deleted user stays deleted; a copy is the row |
| Departments (US `application/services.py`, `api/v1/depts.py`) | rows with a parent and a path of ancestors | create, update, delete, tree | checks that race with commits; a tree built from what is listed | paths tell the truth; nobody visible is missing from the tree |
| Roles and data scope (US) | rows with key, scope, tenant | create, update, delete; the rows a user is shown | a key looked up and then added; a scope chosen by number | one key per tenant; more roles never show less |
| Tenants (US `application/tenants.py`) | rows with a status | create, update, delete | provisioning that stops half way | all or nothing |
| Authentication (GW `core/auth.py`) | none | verify a JWT | | |
| Persistence adapters, configuration, logging | none of their own | load, save, commit | the second read of `save` | |

How they interact: a client request passes, in the gateway, the JWT check, the rate
limiter, the breaker (`before_call`), the permission check (Redis, or a GET to the user
service that the breaker does not see), then the upstream service; the outcome is
recorded in the breaker. The auth service calls the internal API of the user service
for `create_user`, `activate_user` and `delete_user`. Gateway and user service share
the permission keys in Redis. Inside the user service profiles, departments, roles and
tenants share one unit of work: rows of one kind name rows of another (`dept_id`,
`tenant_id`, `parent_id`), and no foreign key looks at `deleted_at`.

## 2. Modules

| Component | Specification | Abstract | Instance | Proofs |
|---|---|---|---|---|
| Registration saga | `Registration` | `Accounts` | `MCRegistration` | `RegistrationProofs` |
| Refresh tokens | `RefreshTokens` | | `MCRefreshTokens` | `RefreshTokensProofs` |
| Login limiter | `LoginLimiter` | | `MCLoginLimiter` | `LoginLimiterProofs` |
| Rate limiter | `RateLimiter` | | `MCRateLimiter` | `RateLimiterProofs` |
| Proxy and breaker | `CircuitBreaker` | | (itself) | `CircuitBreakerProofs` |
| Permissions and audit log | `Permissions` | | `MCPermissions` | `PermissionsProofs` |
| Transactions of the user service | `UnitOfWork` | | with `Directory` | |
| User profiles and their copies | `UserProfiles`, extends `UnitOfWork` | | with `Directory` | |
| Departments, roles, data scope, tenants, with the users | `Directory`, extends `UserProfiles` | | `MCDirectory` | `DirectoryProofs`, `DepartmentProofs` |

PROJECT.json maps every definition to the lines it stands for. A definition introduced
by the comment *Variant* or *Mutant* is not part of the system: it is a plausible bug,
put in the place of the definition next to it to see that a property notices.

### Registration

`pc[r]` is the await at which the coroutine of request `r` is suspended and `rpc[r]` the
user-service handler that works for it, or the answer it left. The two move
independently: a coroutine may give up (`CallTimesOut`, `AuthServiceCrashes`) while its
handler goes on. The stores are `idem` (Redis), `credential` (`user_auths`) and `profile`
(`users`). A profile id is a fresh uuid4, so the request stands for it. `create` has two
steps, since the handler looks the identity up before it inserts; only the unique
indexes decide the race, and they count deleted rows. Normalisation matters: e-mail
addresses are lowered and stripped and user names stripped in the user service, while
`bind_password` compares the names as spelled. `Other` is a password row of another
origin. A created profile is answered with the id of its row, so the error that `register`
has for an answer without a valid id (`services.py:102`) is left out: the user service gives none. `env` is the environment of a behaviour, chosen at its start and kept: the
kinds of failure that may happen (`Faults`: Redis errors with or without effect, database
errors, errors of the user service, timeouts, crashes, expiring keys) and whether clients
repeat a key before they have an answer (`Overlap`). Properties that need a kinder
environment say so, and one run covers several.

`Accounts` is the promise behind it: an account is opened for identities that nobody
else has, gets a password, is activated and then confirmed, and an account given up was
never active. `Registration` implements it under the refinement `Lifecycle`.

### RefreshTokens

A slot is a request in progress; its steps are the round trips of `refresh`,
`logout` and `logout-all` (`Get`, `Reread`, `SaveRevoked`, `Issue`, `Collect`, `Exec`).
A session key always expires with its JWT, so it has no expiry of its own here; the
index has one, which every save sets anew, and this is where it goes wrong.
`retired`, `ended` and the parent and root of a token are history variables.

### LoginLimiter

`record_failure` is two `MULTI`s: `RecordFailure` (INCR of both counters) and `Expire`.
`Check` reads both counters and a slot then verifies the password, so logins side by
side all pass. A counter that is there has counted (`Counter`): only INCR makes one, and
`clear_failures` deletes it. `Die` ends a login between any two steps. `failures` is the history of
failures of each name (since its last success) and each address.

### RateLimiter, CircuitBreaker

`RateLimiter.check` has no await and is one step: it opens a window, counts or refuses.
`admitted` is the history of admissions. In `CircuitBreaker` a slot is a request between
`before_call` and its outcome; it may end in the permission check or, by a client that goes
away or an error httpx does not know, in the call (`Lost`) without recording anything. The
clock is kept as the cooldown left, which makes the state finite without a bound. `wasted`
is history: the failures recorded of a service since its last success or since its circuit
last went half open. `Reliable` names services that never fail.

### Permissions

The composition of both checks with every change of what they read. `slot[p]` is a request:
`Arrive` is the look of the gateway at the key, `LookUp`, `Read` and `Fill` are
`get_user_permissions` of the user service (`leg` says for whom it runs: the gateway, the
check of the user service, or nobody, after the gateway gave up or for an answer that
lists the permissions of a user), `Store` is the second fill by the gateway. An admitted
request makes one of nine changes (`AssignRole` ... `DeleteUser`), or none. The changes whose
only write is their last step are one step with their commit: `Audited` for the two of
them that go on to clear keys and write an entry, `Plain` for the five that answer at once. The two
bulk replacements have a step for their statements and one for the commit (`Replacing`,
`Commit`), since under READ COMMITTED a second one deletes only the rows it saw, and two at
once leave the union. Afterwards `Clear` deletes the keys one user after the other, from a
list made before the commit, and `AddAuditLog` writes the entry in a transaction of its
own. Roles that were deleted still count in `GetMenusByUserId`, as in the query, which
does not join `roles`. `since` and `trail` are history; the trail holds of every change, the
five included, who called what and whether it was committed, logged and answered.

### UnitOfWork, UserProfiles, Directory

`row[x]` is the row of a user, department, role or tenant, and `slot[p]` a request between
its first read and its end: the row it `loaded`, its copy `new`, and `base`, the row that
`save` compares the copy with. `Load`, `Add`, `Mark`, `Save`, `Commit` are the parts every
service operation is made of; `save` gets the row again, from the session or anew, and
`Written` is the row with the columns in which copy and base differ. This is why a save
can bring a deleted row back, and why `DeletedStaysDeleted` has its exception.

`UserProfiles` adds the domain object, the unique columns and the copies in Redis
(`SetCache`, `DeleteCache`, `Expire`), `Directory` the other three kinds of row and
what a user is shown of them: `WidestScope`, `VisibleUsers`, `VisibleDepts` and the tree of
`_build_tree`. An endpoint is an action (`CreateDepartment`), the service operation it calls
an operator (`CreateDepartmentService`). Two operations never succeed and end in `Fails`:
`update_role`, after its check of the key, calls `save` on a repository without one (US `application/services.py:222`), and
`create_tenant` calls `flush` on a unit of work without one (`application/tenants.py:75`); the API
reference documents both (`src/docs/api-reference.md:151` and `:257`).

## 3. What is checked

| Run | Shows | Instance |
|---|---|---|
| `reg_saga` | no failure at any await makes a half-made account usable; answers and records tell the truth; requests for one identity, or with one key, are told one user; a recorded success is kept; a password row outlives its profile only if a store of the auth service failed; `Accounts` is implemented | 2 requests, 2 keys, an address in two spellings, 2 names, three environments |
| `reg_live` | every request is answered although the user service need not move; without failures every pending profile is activated or deleted, clashes included | 2 requests, 1 key, all failures or none |
| `tok_races` | a retired token is dead and a revocation lasts, in every interleaving | 3 tokens, 2 slots, either may die |
| `tok_serial` | rotation, logout-all and the index hold for requests one by one | 4 tokens, 2 users, 1 slot |
| `login_limit` | bounded overshoot, locks that end, addresses that are not cleared | 1 name, 1 address, 2 slots, 1 crash, two windows |
| `rate_limit` | bounded bursts, no undue refusal | 2 clients, limit 3, four ticks, three windows at most: every alignment of two |
| `breaker` | the state of a circuit follows its count, services are independent, an outage costs a bounded number of failed calls between two probes, a service that is back for good is reached again | 2 services, 3 slots, threshold 3 |
| `permissions` | a revoked permission is used no longer than `MaxStale` and one request more, whatever overlaps; requests one by one see a change at once; each of the four audited changes has its entry, or a reason to have none; keys become right once changes stop | 2 users, 2 roles, 2 slots, nine environments |
| `directory` | copies are exact and the checks before a write suffice when nothing overlaps; a deleted row comes back only by an overlapping save; paths, trees and scopes show what they should, also under overlap | 2 users, 3 departments, 2 roles, 2 tenants, 2 slots, ten environments |

Three runs end in a counterexample, each against a sentence of the documentation quoted in
PROJECT.json `findings`:

* `reg_v_retry`: a retry whose record says `activation_pending` starts over and is refused
  as a duplicate, where the plan of the feature says it repeats only the activation.
* `tok_v_rotation`: two refreshes of one token that overlap both get a new token, where
  the documentation says that rotation prevents replay.
* `perm_v_next`: a fill that read the tables before an assignment and sets the key after the
  assignment has cleared it keeps the old permissions for a whole time to live, where the
  endpoint says that the next request reflects the new role.

What the code does not promise, which the preconditions of the properties leave room for:

* With clients that overlap, a second request with the same key overwrites a recorded
  success, and two payloads under one key may both succeed (`CompletedIsKept` and
  `OneUserPerKey` ask for `~Overlap`).
* A Redis or database error after the bind compensates the profile and may leave its
  password row behind (`NoOrphanCredential`).
* A failed activation leaves the profile pending, and a compensated registration keeps its
  address and name taken, because the unique indexes count deleted rows
  (`PendingSettles` asks for no failures).
* A single logout saves the index with the life of the session it revokes, which may be
  shorter than that of others; and a refresh that is under way when logout-all lists the
  sessions survives it (`tok_serial` has no single logout and no two requests at once).
* Both limiters count fixed windows that start with a request, where the documents call
  them sliding: `BurstIsBounded` and `AddressFailuresAreSpaced` allow for twice the limit
  where two windows meet.
* A change may be overtaken by a fill, so a key is wrong for longer than its time to live:
  a request that read before the change hands its answer to one that found the key
  missing, which hands it to the gateway, and every clear meanwhile lets one more in.
  `MaxStale` adds one request for each. Only four of the ten changes clear keys; the others
  take effect when the keys expire (`SerialRequestsReflect` is about the four).
* Deleting a role leaves its permissions in effect for the users who have it, with no time
  limit: the query of the permissions does not look at `roles`.
* An audit entry may be missing after a failure, and is when neither the subject nor the
  actor has a tenant. Five of the nine changes write no entry at all: only lines 107, 132,
  160 and 467 of US `application/services.py` call `_add_audit_log`, so a menu assigned to a role
  or removed from it, a deleted role, a changed or disabled and a deleted user leave none,
  where `src/docs/api-reference.md:220` and `src/todo/rbac_production_hardening.md:42` say that
  changes of permissions and the disabling of users are audited. `AuditFollows` is about the
  four, and says that the log holds entries of no other.
* With requests that overlap, a save brings a deleted row back, a copy in Redis may be the
  old row until it expires, a department may be created below one that is being deleted,
  and one key may be given to two roles (`UserCacheIsExact` and `ChecksSuffice` ask for
  `~env.overlap`, so they say nothing of these races; paths and trees hold regardless). The last
  is against `src/docs/register-login.md:198`, by which the key is unique in a tenant: two
  creations that overlap both find it free, and there is no index.
* The scope CUSTOM filters nothing although its number is the highest, so that a role with DEPT
  or SELF narrows it, against `services.py:36`, "the widest data scope among all roles"
  (`ScopeIsWidest` leaves CUSTOM out and would be violated with it). A parent may be of another tenant; the
  tree then shows the child as a root.

### Bounds, and why they are enough

*Registration.* Every conflict is between two requests: over a key, an address, a name or
a row; the theorems cover the rest. One name in `credential` per spelling is enough for
the binding race. *RefreshTokens.* A rotation
race needs a token and two successors; two slots give every pairwise interleaving.
`tok_races` has a lifetime of one tick, so tokens expire between any two steps;
`tok_serial` has a lifetime of two ticks and a clock of four, so the index is renewed and
expires. In `tok_serial` a request takes no time (`Quick`), since a lifetime is days.
*LoginLimiter.* Limits of 3 and 2 are the least with a counter below its limit, and
windows of two and locks of three ticks end within the clock of four. The lock of a
counter ends only if the limit is above one and one login dies at most: two deaths at the
INCRs that matter leave a counter without expiry. *RateLimiter.* Windows of two ticks
and a clock of four hold two full windows and the seam between them at any tick. *CircuitBreaker.* The
threshold is the least that leaves room for a late success, and three slots for a
probe with an old call on each side; `wasted` has no bound of its own, since
`OutageCostIsBounded` is one and is reached.

*Permissions.* A race is
between a fill and a change, or between two changes, so two slots are enough for it; the
bulk replacements meet in one environment each. `Ttl` is two ticks and a request takes at
most one (`Patience`): the bound of `StalenessIsBounded` is computed from both and is not
special to them, as long as a key outlives a request (`Patience < Ttl`, which `TimeAssumption`
says and the code gives: 300 seconds against calls that end after ten). With shorter keys
the bound is wrong: TLC finds, for a `Ttl` of 1 and a `Patience` of 2, a chain of requests
that hand on old permissions while the key they came from expires. That a request takes a bounded time is an assumption: the calls
between services have a timeout, those to PostgreSQL and Redis depend on the deployment.
`MaxChanges` is two, and each environment has the smallest limit at which its changes meet.
The two users differ in what matters, an administrator with a tenant and a user
without; the roles are those of the seed script. *Directory.* Three departments make
a path of three and a parent with two children; two roles and two tenants make every clash of
keys; a second user gives clashes of the unique columns, of which one value is
enough. Ids are interchangeable where nothing names one (`Symmetry`: departments, roles,
tenants; not the users, of whom one exists at the start). The environments choose the
calls that meet, since users, departments, roles and tenants share no row but
`dept_id`, for which the last two have users and departments together.

`CHECK_DEADLOCK` is left on, save in `directory`: its ids are never handed out twice, so a
bounded instance stops when all are used and deleted. Registration and RefreshTokens say in
`Quiet` and `Exhausted` that a bounded instance has used up its requests or its token ids.

### Fairness

`Registration!Spec` is weakly fair to every coroutine: an event loop resumes what can go
on, and httpx ends a call after ten seconds (AS `main.py`), so `CallTimesOut` is among
the steps of a coroutine. Nothing is assumed of the user service, save by `PendingSettles`,
which names the fairness of its handlers as its premise. `CircuitBreaker!LiveSpec` is
weakly fair to time and to requests in progress (calls have a timeout) and strongly fair
to arrivals, to a request leaving the permission check and to a call that ends with an
outcome: clients keep asking, not every check fails and not every call is lost. These
three are assumptions about the environment.
`Permissions!Spec` is weakly fair to time and to the steps of a request once it is there
(`Proceed`); it is not fair to arrivals or changes, and `Converges` needs neither. The other
specifications state no fairness and no liveness is claimed of them.

## 4. What is proved

All theorems hold for every value of the constants that meets the named assumptions of
the modules (`NormalAssumption`, `LimitAssumption`, ...), with unboundedly many requests,
tokens, clients and services unless said otherwise.

* **RegistrationProofs.** `TypeCorrect`, `InductiveInvariant`, `NoActiveUserWithoutPassword`,
  `SuccessesAreUsable`, `RecordsAreTruthful`, `IdentitiesAreUnique`, `RetriesAgree` and
  `RegistrationImplementsAccounts`. None of the promises is inductive: what a
  late handler may do depends on where its coroutine was when it gave up. `Stage`
  says so: the activation is only ever called after the bind committed, the delete only
  before any activation, and a handler never overtakes its coroutine. With the unique
  rows and the finality of a compensation it makes `IInv`.
  `OneKeyOneUser` and `CompletedStays` rest on `KeyInv`: a client that waits has one request
  past its look at the record of a key, and none while the record is completed; so the
  answers are the user of the record (`Replayed`). `NoPasswordIsOrphaned` rests on `Kept`: once
  the password row is there, only an error of the stores of the auth service turns the
  saga back, and such a request is not on its way to a delete.
* **RefreshTokensProofs.** `TypeCorrect`, `RetiredTokensAreDead`, `RevocationsLast`. Ids are
  never handed out twice, so a slot that saves a copy saves one of a token that existed;
  a slot that is about to answer trades a token that is already dead
  (`TradesDeadToken`). Three more under the hypotheses that their properties need, `Alone`
  (one request at a time) or `Steady` (a request takes no tick, none fails, no single
  logout): `ExchangedOnce` (`Alone`; the token of a refresh under way has no successor yet), `IndexIsComplete`
  (`Steady`, with any number of slots: the index lives as long as the longest of its tokens,
  save between the two saves of a refresh, the second of which is bound to come in the same
  tick), and `LogoutAllIsFinal` (both: a logout-all has collected or still finds in the
  index each live token that goes back to its logins).
* **LoginLimiterProofs.** `TypeCorrect`, `GuessesAreBounded`. Each counter leaves room for
  the logins past their check (`RoomForPending`): count plus pending stays within the
  limit less one plus the slots. Assumes finitely many slots. `LocksEnd` assumes what its
  property needs, one death at most and limits above one, or no death: two logins see to the
  time to live of a counter, the one that raised it to one and the one that raised it to
  its limit, and one of them is left (`Seen`). `GuessesOfAnAddressTakeTime`: a counter is made
  when the one before it has expired, the shortest window or more after its first failure,
  and none holds more than `GuessesAreBounded` says (`Spaced`).
* **RateLimiterProofs.** `TypeCorrect`, `BurstsAreBounded`, `RefusalsAreDue`. The bucket
  counts the last admissions, which lie within its window, and everything earlier is
  older than its start (`BucketCounts`, `EarlierIsOld`).
* **CircuitBreakerProofs.** `TypeCorrect`, `StateFollowsCount`, `CircuitsAreIndependent` and
  `OutagesAreCheap`. The last rests on `CostInv`: a closed circuit has counted what was
  wasted, a half open one has wasted nothing yet, and of an open one, which admits nobody,
  what was wasted and the requests still in progress stay together within the bound.
  Assumes finitely many slots (`SlotAssumption`).
* **PermissionsProofs.** Every action has one of a few effects on the requests (`Checked`,
  `Changed`, ...), the tables and the keys. `TypeCorrect` needs what a request is about to write
  to be of the kind of its subject (`NewFits`). `EntriesFollowChanges`: each number of a change
  belongs to one request or to none (`Numbered`), and the stage of the request tells how
  far its entry is; of a change that clears keys nobody answers before its entry is tried. `RevocationsTakeEffect`: for each user there is a set of changes that have
  cleared the key and an age of the key, counted from when it was last missing, that bound how
  long ago the permissions in the key, or on their way to it on any leg of a request, were
  taken away (`Aged`); a clear drops the key but not what a request carries to it, so each
  adds the time of one request. `OneByOneReflects`: what is on its way to a key is what the
  user holds, and a change that is about to commit has on its list every user it affects.
* **DirectoryProofs.** `DeletionsLast`, `ChecksHold`, `CopiesAreExact` and `TypeCorrect`, for any
  numbers of rows and of requests. Every action has one of four effects on rows and requests (`Starts`, `Ends`,
  `Saves`, `Commits`), one lemma for the users and one for the rest. What a request loaded
  was not deleted; without overlap it is still the row when it commits (`Unmoved`), so
  what is `Written` is the copy; and the copy, put in its place, keeps the rows `Fine`,
  which each operation's check makes true when it starts (`Sound`, a lemma per operation).
  Without overlap and failures a request about to set a copy has the row it sets, and a
  copy that differs from its row belongs to the only request, which drops it.
  Assumes that ids of different kinds differ (`IdAssumption`).
* **DepartmentProofs.** `DepartmentsAreTrees` and `RolesAddToTheScope`, for any numbers of
  departments, tenants, roles and requests, overlapping or not. The invariant, `PathInv`, says
  nothing of descendants or trees: a path is true when every department on it is there, as
  deep as it stands in the path and with the path up to it (`TruePath`), and what a request
  carries to a department that is there has the same two columns, `parent` and `ancestors`
  (`Bears`), so no write changes them. Hence a path repeats no department and does not come
  back to its own (`Chain`), and is no longer than there are departments. `Above` and `Shown`
  are recursive functions: the proof exhibits the function (the last n of the path; the
  departments that have n listed ones above them, or fewer), shows that it meets the equation,
  and that no other does, by induction over a set of numbers (`AllNumbers`, from the
  well-foundedness of `<`). So the tree shows all it is given (`ShownAll`), and the widest
  scope shows most because the least of a set of scopes is one of them. Assumes that
  departments are finitely many (`DirectoryAssumption`: their ids are UUIDs).

Only model-checked: liveness (`RequestIsAnswered`, `PendingSettles`, `Recovers`, `Converges`),
since fairness and ENABLED are outside what TLAPS proves. Every other property of a run
that passes is a theorem.

## 5. Not modelled

JWT contents and signatures, password hashing, HTTP headers and bodies, SQL and the
ORM, validation of fields, paging, logging, configuration and error formatting are
abstracted to what the properties tell apart, or left out. Wrong passwords and right ones
are a free choice of the client. Gateway authentication keeps no state and is left out.

Of the user service: the columns nothing depends on (names, order, phone, avatar); the
menus, which the seed script creates and no endpoint changes; the tenant filter of the list
of users, which the endpoint passes on as it gets it; and `create_tenant` after the line at
which it stops. `get_descendants` has no caller and is modelled as the reader that
`PathsAreTrue` is about.

The web front end, migrations, demo data, the scratch checks and vendored code are not part
of it. Of the scripts `seed_rbac` counts: its result is the initial state of `Permissions`
and a second run of it an action.

## 6. Plan

Every stateful component is modelled, and every safety property of the runs is proved.
The four liveness properties stay with TLC. What could be added is listed with its reason in
section 5.
