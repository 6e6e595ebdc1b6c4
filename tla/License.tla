------------------------------- MODULE License -------------------------------
(***************************************************************************)
(* The professional edition of one instance: the license an admin          *)
(* activates, refreshes and gives back (api/routes/admin_license.py), the  *)
(* two files that remember it (services/license_runtime.py and             *)
(* services/pro_artifacts.py), the extension loaded from them into the     *)
(* process (core/pro_extensions.py) and what the API shows and lets pass   *)
(* (core/license_status.py, main.py).                                      *)
(*                                                                         *)
(* A handler runs alone from one await to the next; it waits for the       *)
(* license provider, for the two downloads and for the database.  What the *)
(* process keeps in memory is lost when it stops, the files are not, and   *)
(* it may stop between the writing of two files.                           *)
(***************************************************************************)
EXTENDS Naturals

CONSTANTS Handler,      \* requests of admins that run at the same time
          MaxTokens     \* licenses the provider signs; a bound of the model

ASSUME MaxTokensAssumption == MaxTokens \in Nat

Token   == 1..MaxTokens
NoToken == 0

VARIABLES
    local,      \* whether a package lies beside the application (LOCAL_PRO_BACKEND_PATH)
    license,    \* license-state.json: the signed license, or NoToken
    artifacts,  \* pro-artifacts.json: the status of the two parts
    expired,    \* signed licenses whose time is over
    ext,        \* _extension_state: "unset", or what the last load led to
    routes,     \* whether the routes of the extension are in the application
    s,          \* the handlers: operation, where it waits, license received
    seat,       \* the provider counts this instance as activated
    signed,     \* licenses signed so far
    off         \* a deactivation or rollback ended, and nothing that could
                \* bring the license back was running, nor a new activation started

vars == <<local, license, artifacts, expired, ext, routes, s, seat, signed, off>>

Inactive == [backend |-> "inactive", frontend |-> "inactive"]
Fetched(frontend) == [backend |-> "ready", frontend |-> frontend]
Idle == [op |-> "none", at |-> "idle", token |-> NoToken]

Granting == {"activate", "refresh"}
Ending   == {"deactivate", "rollback"}

-----------------------------------------------------------------------------
(* What is read off the files and the process.                             *)

\* load_license_state and evaluate_cached_license.  A license on file was
\* verified for this instance before it was written, so it never is "invalid".
LicenseStatus ==
    IF license = NoToken THEN "inactive"
    ELSE IF license \in expired THEN "expired" ELSE "active"

\* get_effective_backend_extension_path: a package that lies beside the
\* application goes first, whatever the files say; an expired license loads as well.
Loadable(beside, token, files) == beside \/ (token # NoToken /\ files.backend = "ready")

\* initialize_backend_extensions, for a process that has not loaded yet: the
\* import may fail, and the failure is remembered like a success.
Loads(beside, token, files) == IF Loadable(beside, token, files) THEN {"loaded", "failed"} ELSE {"base"}

\* get_backend_extension_state and guard_pro_routes: which requests below /pro
\* are let through.  The first one makes the process load the extension.
WritesPass == LicenseStatus = "active" /\ ext = "loaded"
ReadsPass  == WritesPass \/ (LicenseStatus = "expired" /\ ext = "loaded")

\* build_license_overview; "pro" is enabled when a load was tried, so it is
\* loaded or failed.
Overview ==
    IF ext = "failed" THEN "ERROR"
    ELSE IF ext = "loaded" /\ LicenseStatus = "active" THEN "ACTIVE"
    ELSE IF LicenseStatus = "expired" THEN "EXPIRED"
    ELSE IF ext = "loaded" THEN "PENDING" ELSE "BASE"

-----------------------------------------------------------------------------
(* The process.                                                            *)

\* main.py at import: load what the files say, mount its routes.  A package
\* beside the application comes and goes with a deployment, that is, a restart.
Starts(token, files) ==
    /\ local' \in BOOLEAN
    /\ ext' \in Loads(local', token, files)
    /\ routes' = (ext' = "loaded")
    /\ s' = [h \in Handler |-> Idle]

Restart ==
    /\ Starts(license, artifacts)
    /\ UNCHANGED <<license, artifacts, expired, seat, signed, off>>

\* A request to the guard, the status page, the dashboard or the capabilities
\* after a reset: the extension is loaded again, its routes are not mounted.
Look ==
    /\ ext = "unset"
    /\ ext' \in Loads(local, license, artifacts)
    /\ UNCHANGED <<local, license, artifacts, expired, routes, s, seat, signed, off>>

Expire(t) ==
    /\ t <= signed /\ t \notin expired
    /\ expired' = expired \cup {t}
    /\ UNCHANGED <<local, license, artifacts, ext, routes, s, seat, signed, off>>

-----------------------------------------------------------------------------
(* Activation and refresh.                                                 *)

\* Faulty: a refresh is sent to the provider in any case.
RefreshAnyway == TRUE

\* refresh_admin_license: nothing to refresh without a license on file.
MayRefresh == license # NoToken

Ask(h, op) ==
    /\ s[h] = Idle
    /\ op = "refresh" => MayRefresh
    /\ op = "rollback" => license # NoToken
    /\ op = "deactivate" => license # NoToken
    /\ s' = [s EXCEPT ![h] = [Idle EXCEPT !.op = op, !.at = "asked"]]
    /\ off' = (off /\ op # "activate")
    /\ UNCHANGED <<local, license, artifacts, expired, ext, routes, seat, signed>>

\* The provider answers with a license that verify_signed_license accepts and
\* a complete description of the artifacts; the download of the first begins.
\* (External: it refreshes only what is activated.)
Granted(h) ==
    /\ s[h].op \in Granting /\ s[h].at = "asked"
    /\ s[h].op = "refresh" => seat
    /\ signed < MaxTokens
    /\ signed' = signed + 1
    /\ seat' = TRUE
    /\ s' = [s EXCEPT ![h].at = "backend", ![h].token = signed']
    /\ UNCHANGED <<local, license, artifacts, expired, ext, routes, off>>

\* It refuses, cannot be reached, its answer is lost after it acted, or what
\* it sent fails a check: an error, and nothing changes here.
NotGranted(h) ==
    /\ s[h].op \in Granting \cup {"deactivate"} /\ s[h].at = "asked"
    /\ seat' \in {seat, CASE s[h].op = "activate"   -> TRUE
                          [] s[h].op = "refresh"    -> seat
                          [] s[h].op = "deactivate" -> FALSE}
    /\ s' = [s EXCEPT ![h] = Idle]
    /\ UNCHANGED <<local, license, artifacts, expired, ext, routes, signed, off>>

\* The backend part is downloaded, checked, unpacked and validated.
FetchedBackend(h) ==
    /\ s[h].at = "backend"
    /\ s' = [s EXCEPT ![h].at = "frontend"]
    /\ UNCHANGED <<local, license, artifacts, expired, ext, routes, seat, signed, off>>

\* A download, a digest or the manifest is wrong: ProArtifactError or
\* ValueError, before the state file is written.
FetchFails(h) ==
    /\ s[h].at \in {"backend", "frontend"}
    /\ s' = [s EXCEPT ![h] = Idle]
    /\ UNCHANGED <<local, license, artifacts, expired, ext, routes, seat, signed, off>>

\* Faulty: the extension that was loaded before stays.
ReloadIfUnset(token, files) ==
    IF ext = "unset" THEN Loads(local, token, files) ELSE {ext}

\* reset_backend_extensions and include_extension_routes.
Reload(token, files) == Loads(local, token, files)

\* save_license_state, for cache_remote_license and
\* update_cached_license_refresh: the file is written anew, whatever it held.
WriteLicense(token) == license' = token

\* The frontend part is there too: the state file of the artifacts is written,
\* then that of the license, and the extension is loaded from them.  The state
\* file was read before the downloads, but both its parts are overwritten.
Store(h) ==
    /\ s[h].at = "frontend"
    /\ artifacts' = Fetched("ready")
    /\ WriteLicense(s[h].token)
    /\ ext' \in Reload(license', artifacts')
    /\ routes' = (routes \/ ext' = "loaded")
    /\ s' = [s EXCEPT ![h] = Idle]
    /\ UNCHANGED <<local, expired, seat, signed, off>>

\* The frontend has no entry that can be served: its state is kept as
\* "cached" and _ensure_synced_artifacts_ready refuses.
StoreRefused(h) ==
    /\ s[h].at = "frontend"
    /\ artifacts' = Fetched("cached")
    /\ s' = [s EXCEPT ![h] = Idle]
    /\ UNCHANGED <<local, license, expired, ext, routes, seat, signed, off>>

\* The process stops between the two files.
DieStoring(h) ==
    /\ s[h].at = "frontend"
    /\ artifacts' = Fetched("ready")
    /\ Starts(license, artifacts')
    /\ UNCHANGED <<license, expired, seat, signed, off>>

-----------------------------------------------------------------------------
(* Deactivation and rollback.                                              *)

\* rollback_to_free deletes and commits; it does not tell the provider.
Deleted(h) ==
    /\ s[h].op = "rollback" /\ s[h].at = "asked"
    /\ s' = [s EXCEPT ![h].at = "deleted"]
    /\ UNCHANGED <<local, license, artifacts, expired, ext, routes, seat, signed, off>>

\* A row outside what it deletes, a ticket or a VOD request of a customer,
\* still refers to one of those rows: the transaction fails.
DeletionFails(h) ==
    /\ s[h].op = "rollback" /\ s[h].at = "asked"
    /\ s' = [s EXCEPT ![h] = Idle]
    /\ UNCHANGED <<local, license, artifacts, expired, ext, routes, seat, signed, off>>

\* The provider has taken the license back, or the deletion is committed.
MayClear(h) ==
    \/ s[h].op = "deactivate" /\ s[h].at = "asked"
    \/ s[h].at = "deleted"

\* clear_cached_license: load_license_state takes a license on file for an
\* activation, whatever activation_present says.
ClearLicense == NoToken

\* Faulty: clear_active_pro_artifacts comes first.
FirstCleared == license' = license /\ artifacts' = Inactive

\* The file that is already written when the process stops between the two.
FirstWritten == license' = ClearLicense /\ artifacts' = artifacts

NothingGrants(h) == \A g \in Handler \ {h} : s[g].op \notin Granting

\* clear_cached_license, clear_active_pro_artifacts, reset_backend_extensions.
Clear(h) ==
    /\ MayClear(h)
    /\ license' = ClearLicense
    /\ artifacts' = Inactive
    /\ ext' = "unset"
    /\ seat' = (seat /\ s[h].op # "deactivate")
    /\ off' = NothingGrants(h)
    /\ s' = [s EXCEPT ![h] = Idle]
    /\ UNCHANGED <<local, expired, routes, signed>>

\* Deactivation without a license on file asks nobody.
ClearNothing ==
    /\ license = NoToken
    /\ \E h \in Handler : s[h] = Idle /\ off' = NothingGrants(h)
    /\ artifacts' = Inactive
    /\ ext' = "unset"
    /\ UNCHANGED <<local, license, expired, routes, s, seat, signed>>

\* The process stops between the two files, or before the first one.
DieClearing(h) ==
    /\ MayClear(h)
    /\ \/ FirstWritten /\ off' = TRUE
       \/ UNCHANGED <<license, artifacts, off>>
    /\ seat' = (seat /\ s[h].op # "deactivate")
    /\ Starts(license', artifacts')
    /\ UNCHANGED <<expired, signed>>

-----------------------------------------------------------------------------
Init ==
    /\ license = NoToken /\ artifacts = Inactive /\ expired = {}
    /\ local \in BOOLEAN
    /\ ext \in Loads(local, license, artifacts) /\ routes = (ext = "loaded")
    /\ s = [h \in Handler |-> Idle]
    /\ seat = FALSE /\ signed = 0 /\ off = TRUE

Next ==
    \/ Restart \/ Look \/ ClearNothing
    \/ \E t \in Token : Expire(t)
    \/ \E h \in Handler :
          \/ \E op \in Granting \cup Ending : Ask(h, op)
          \/ Granted(h) \/ NotGranted(h)
          \/ FetchedBackend(h) \/ FetchFails(h)
          \/ Store(h) \/ StoreRefused(h) \/ DieStoring(h)
          \/ Deleted(h) \/ DeletionFails(h)
          \/ Clear(h) \/ DieClearing(h)

Spec == Init /\ [][Next]_vars

-----------------------------------------------------------------------------
(* What it promises.                                                       *)

HandlerState ==
    [op : Granting \cup Ending \cup {"none"},
     at : {"idle", "asked", "backend", "frontend", "deleted"},
     token : Token \cup {NoToken}]

\* The files and the process hold one of the values the code gives them.
TypeOK ==
    /\ local \in BOOLEAN
    /\ license \in 0..signed /\ signed \in 0..MaxTokens
    /\ artifacts \in {Inactive, Fetched("ready"), Fetched("cached")}
    /\ expired \subseteq 1..signed
    /\ ext \in {"unset", "base", "loaded", "failed"} /\ routes \in BOOLEAN
    /\ s \in [Handler -> HandlerState]
    /\ seat \in BOOLEAN /\ off \in BOOLEAN

\* Whatever overlaps and wherever the process stops, a license on file has a
\* backend to load: artifacts are stored before it and dropped after it
\* (admin_license.py, activate, deactivate).
LicensedHasArtifacts == license # NoToken => artifacts.backend = "ready"

\* What the process loaded, however long ago, still agrees with the files: the
\* overview is BASE exactly while there is neither a license on file nor a
\* package beside the application, PENDING only for such a package without a
\* license, and what it calls ACTIVE has its routes mounted (license_status.py,
\* guard_pro_routes).
StatusIsTruthful ==
    ext # "unset" =>
        /\ Overview = "BASE" <=> license = NoToken /\ ~local
        /\ Overview = "PENDING" => license = NoToken /\ local
        /\ Overview = "ACTIVE" <=> WritesPass
        /\ ReadsPass => routes

\* A license that was given back stays away, through restarts, failed attempts
\* and requests in between, until somebody activates anew, and what was loaded
\* from it is gone; a package beside the application is loaded again.  (An
\* activation or a refresh that was waiting when the license was given back does
\* bring it back.)
DeactivationHolds == off => license = NoToken /\ (ext = "loaded" => local)

\* What makes these hold from step to step: a handler that downloads has a
\* license in hand, the process knows of the license on file, and while it is
\* off nobody is on the way to bring one.
LicenseInvariant ==
    /\ TypeOK
    /\ LicensedHasArtifacts
    /\ \A h \in Handler :
          /\ s[h].at \in {"backend", "frontend"} =>
                s[h].op \in Granting /\ s[h].token \in 1..signed
          /\ s[h].at = "deleted" => s[h].op = "rollback"
          /\ off => s[h].op \notin Granting
    /\ license # NoToken => ext \in {"loaded", "failed"} /\ (ext = "loaded" => routes)
    /\ ext # "unset" => (ext \in {"loaded", "failed"} <=> license # NoToken \/ local)
    /\ off => license = NoToken

=============================================================================
