----------------------------- MODULE LookupCaches -----------------------------
(***************************************************************************)
(* The caches in front of single rows: client keys by their secret, also   *)
(* the secrets that are not found (client-keys.ts), settings by their key  *)
(* (settings.ts), and the reports of the admin API by their query, which a *)
(* flush of the log queue outdates at once (api/admin/cache.ts).           *)
(*                                                                         *)
(* A query of a report is reduced to the rows it counts.  All ages are in  *)
(* the same ticks; an entry lives for one.                                 *)
(***************************************************************************)
EXTENDS Integers

CONSTANTS
  EMPTY,
  ClientKey,
  SettingValue,
  MaxFlushes      \* bounds the batches that are written

ASSUME CachesAssumption == MaxFlushes \in Nat

VARIABLES
  keys,           \* client_keys: "none", "on" or "off"
  keyCache,       \* EMPTY, or whether a key was found, and whether this has expired
  setting,        \* one row of settings: EMPTY or its value
  settingCache,   \* EMPTY, or a value and whether it has expired
  rows,           \* the batches of log rows written
  cacheVersion,   \* of the admin cache
  report          \* one entry of it: EMPTY, or rows, version and whether it has expired
cacheVars == <<keys, keyCache, setting, settingCache, rows, cacheVersion, report>>

CachesInit ==
  /\ keys = [k \in ClientKey |-> "none"] /\ keyCache = [k \in ClientKey |-> EMPTY]
  /\ setting = EMPTY /\ settingCache = EMPTY
  /\ rows = 0 /\ cacheVersion = 0 /\ report = EMPTY

Live(entry) == IF entry = EMPTY THEN FALSE ELSE ~entry.expired
Entry(value) == [value |-> value, expired |-> FALSE]

-----------------------------------------------------------------------------
(* Client keys: every change of the table drops the whole cache.            *)

KeyAnswer(k) == IF Live(keyCache[k]) THEN keyCache[k].value ELSE keys[k] = "on"
UseKey(k) ==
  /\ ~Live(keyCache[k])
  /\ keyCache' = [keyCache EXCEPT ![k] = Entry(keys[k] = "on")]
  /\ UNCHANGED <<keys, setting, settingCache, rows, cacheVersion, report>>

\* Mutant of ClearKeys: only what was found is dropped.
ClearFound == keyCache' = [k \in ClientKey |->
  IF Live(keyCache[k]) /\ keyCache[k].value THEN EMPTY ELSE keyCache[k]]
ClearKeys == keyCache' = [k \in ClientKey |-> EMPTY]

\* Create, enable, disable and delete; disabling what is deleted does nothing.
ChangeKey(k) ==
  /\ \/ keys[k] = "none" /\ keys' = [keys EXCEPT ![k] = "on"]
     \/ keys[k] # "none" /\ \E to \in {"on", "off", "none"} : keys' = [keys EXCEPT ![k] = to]
  /\ ClearKeys
  /\ UNCHANGED <<setting, settingCache, rows, cacheVersion, report>>

-----------------------------------------------------------------------------
(* Settings: a missing row is not cached; getAllSettings fills as getSetting. *)

SettingAnswer == IF Live(settingCache) THEN settingCache.value ELSE setting
ReadSetting ==
  /\ ~Live(settingCache) /\ setting # EMPTY
  /\ settingCache' = Entry(setting)
  /\ UNCHANGED <<keys, keyCache, setting, rows, cacheVersion, report>>

SetSetting ==
  /\ \E value \in SettingValue : setting' = value
  /\ settingCache' = EMPTY
  /\ UNCHANGED <<keys, keyCache, rows, cacheVersion, report>>

-----------------------------------------------------------------------------
(* Reports. *)

ReportLive == Live(report) /\ report.version = cacheVersion
ReportAnswer == IF ReportLive THEN report.value ELSE rows
ReadReport ==
  /\ ~ReportLive
  /\ report' = [value |-> rows, expired |-> FALSE, version |-> cacheVersion]
  /\ UNCHANGED <<keys, keyCache, setting, settingCache, rows, cacheVersion>>

FlushRows ==
  /\ rows < MaxFlushes
  /\ rows' = rows + 1 /\ cacheVersion' = cacheVersion + 1
  /\ UNCHANGED <<keys, keyCache, setting, settingCache, report>>

-----------------------------------------------------------------------------
Expire(entry) == IF entry = EMPTY THEN EMPTY ELSE [entry EXCEPT !.expired = TRUE]
CachesTick ==
  /\ keyCache' = [k \in ClientKey |-> Expire(keyCache[k])]
  /\ settingCache' = Expire(settingCache) /\ report' = Expire(report)
  /\ UNCHANGED <<keys, setting, rows, cacheVersion>>

CachesNext ==
  \/ \E k \in ClientKey : UseKey(k) \/ ChangeKey(k)
  \/ ReadSetting \/ SetSetting \/ ReadReport \/ FlushRows \/ CachesTick

CachesSpec == CachesInit /\ [][CachesNext]_cacheVars

-----------------------------------------------------------------------------
CachesTypeOK ==
  /\ keys \in [ClientKey -> {"none", "on", "off"}]
  /\ \A k \in ClientKey : keyCache[k] # EMPTY => {keyCache[k].value, keyCache[k].expired} \subseteq BOOLEAN
  /\ setting \in SettingValue \cup {EMPTY} /\ rows \in 0 .. MaxFlushes
  /\ settingCache # EMPTY => settingCache.value \in SettingValue
  /\ report # EMPTY => report.value \in 0 .. rows

(* No cache is asked for what a write has made untrue: a key that is        *)
(* disabled or deleted is refused at once, and one that was refused is      *)
(* accepted as soon as it is enabled again; a setting holds from the next   *)
(* request on; a report counts every row that was flushed.                  *)
CachesCurrent ==
  /\ \A k \in ClientKey : KeyAnswer(k) <=> keys[k] = "on"
  /\ SettingAnswer = setting
  /\ ReportAnswer = rows
==============================================================================
