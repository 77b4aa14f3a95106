---------------------------- MODULE Certificates ----------------------------
(***************************************************************************)
(* How XrayR gets and renews the TLS certificate of a domain: package      *)
(* mylego, around the lego library.  All nodes of a process, and the       *)
(* process that follows it, share one directory: an ACME account (its key  *)
(* and its registration) and a certificate with its private key, each in a *)
(* file of its own that is written in place.                               *)
(*                                                                         *)
(* A job is one call of DNSCert or HTTPCert ("obtain", when an inbound is  *)
(* built) or of RenewCert ("renew", by the certificate monitor).  Jobs run *)
(* concurrently, nothing locks the files, and the process may end at any   *)
(* moment.  A panic of a job is recovered and is an error.                 *)
(***************************************************************************)
EXTENDS Naturals

CONSTANTS
    Jobs,    \* goroutines that may work on the certificate
    KeyIds,  \* bound: account keys told apart
    CertIds, \* bound: certificates told apart; each has a private key of its own
    None,    \* no such file, no such value
    Torn     \* a file that was opened for writing and not written

ASSUME CertConstants ==
    /\ KeyIds \subseteq Nat
    /\ CertIds \subseteq Nat
    /\ None # Torn
    /\ {None, Torn} \cap (KeyIds \cup CertIds) = {}

VARIABLES
    accountKey,  \* accounts/<server>/<email>/keys/<email>.key
    account,     \* account.json: the key its registration is for
    crt, key,    \* certificates/<domain>.crt and .key
    due,         \* the certificate in crt has at most 30 days left
    job,         \* what each job is doing
    met,         \* history: saving jobs whose save met another one
    spoiled,     \* history: a save was cut or met another one, and no
                 \* undisturbed one has been completed since
    rekeyed      \* history: a job replaced the account key of another one

files    == <<accountKey, account, crt, key>>
history  == <<met, spoiled, rekeyed>>
certVars == <<files, due, job, history>>

NoJob == [pc |-> "idle", kind |-> "none", key |-> None, reg |-> None,
          cert |-> None]

At(j, pc)     == job[j].pc = pc
Idle(j)       == At(j, "idle")
Become(j, r)  == job' = [job EXCEPT ![j] = r]
Goto(j, pc)   == Become(j, [job[j] EXCEPT !.pc = pc])
\* The job returns, its error is in kind.
Over(j, kind) == Become(j, [NoJob EXCEPT !.kind = kind])
Fail(j)       == Over(j, "failed") /\ UNCHANGED <<files, due, history>>

\* Jobs that have begun to write a pair and are not done.
Saving == {j \in Jobs : job[j].pc \in {"crtBytes", "key", "keyBytes"}}

KeysInUse  == {accountKey, account} \cup {job[j].key : j \in Jobs}
                 \cup {job[j].reg : j \in Jobs}
CertsInUse == {crt, key} \cup {job[j].cert : j \in Jobs}
\* A new one takes the first number that nothing refers to.
NewIn(v, Ids, used) == v \in Ids \ used /\ \A w \in Ids \ used : v <= w

CertInit ==
    /\ accountKey = None /\ account = None
    /\ crt = None /\ key = None
    /\ due = FALSE
    /\ job = [j \in Jobs |-> NoJob]
    /\ met = {} /\ spoiled = FALSE /\ rekeyed = FALSE

-----------------------------------------------------------------------------
(* Beginning.                                                              *)

\* checkCertFile: both files are there, whatever is in them.
CertFilesExist == key # None /\ crt # None

\* DNSCert, HTTPCert.  The files are there, or Run is called.
Obtain(j) ==
    /\ Idle(j)
    /\ IF CertFilesExist THEN Over(j, "done")
       ELSE Become(j, [NoJob EXCEPT !.pc = "stat", !.kind = "obtain"])
    /\ UNCHANGED <<files, due, history>>

\* RenewCert calls Renew.
Renew(j) ==
    /\ Idle(j)
    /\ Become(j, [NoJob EXCEPT !.pc = "stat", !.kind = "renew"])
    /\ UNCHANGED <<files, due, history>>

-----------------------------------------------------------------------------
(* setup: the account.                                                     *)

\* Mutant of LoadKey: a new key is made whether or not there is one.
LoadNoKey(j) ==
    /\ At(j, "stat")
    /\ accountKey \in KeyIds
    /\ \E k \in KeyIds :
          /\ NewIn(k, KeyIds, KeysInUse)
          /\ Become(j, [job[j] EXCEPT !.pc = "load", !.key = k])
    /\ UNCHANGED <<files, due, history>>

\* GetPrivateKey: a key that is there is loaded.
LoadKey(j) ==
    /\ At(j, "stat")
    /\ accountKey \in KeyIds
    /\ Become(j, [job[j] EXCEPT !.pc = "load", !.key = accountKey])
    /\ UNCHANGED <<files, due, history>>

\* pem.Decode finds no block in an empty file and its result is used.
LoadKeyFails(j) == At(j, "stat") /\ accountKey = Torn /\ Fail(j)

KeyMissing(j) ==
    /\ At(j, "stat")
    /\ accountKey = None
    /\ Goto(j, "create")
    /\ UNCHANGED <<files, due, history>>

\* generatePrivateKey: os.Create, then pem.Encode.
CreateKey(j) ==
    /\ At(j, "create")
    /\ \E k \in KeyIds :
          /\ NewIn(k, KeyIds, KeysInUse)
          /\ Become(j, [job[j] EXCEPT !.pc = "createBytes", !.key = k])
    /\ accountKey' = Torn
    /\ rekeyed' = (rekeyed \/ accountKey # None)
    /\ UNCHANGED <<account, crt, key, due, met, spoiled>>

WriteKey(j) ==
    /\ At(j, "createBytes")
    /\ accountKey' = job[j].key
    /\ Goto(j, "load")
    /\ UNCHANGED <<account, crt, key, due, history>>

\* LoadAccount, or a new Account without a registration.
LoadAccount(j) ==
    /\ At(j, "load")
    /\ account # Torn
    /\ \/ /\ job[j].kind = "obtain"
          /\ Become(j, [job[j] EXCEPT !.reg = account,
                          !.pc = IF account = None THEN "register" ELSE "acme"])
       \/ /\ job[j].kind = "renew" /\ account # None
          /\ Become(j, [job[j] EXCEPT !.reg = account, !.pc = "check"])
    /\ UNCHANGED <<files, due, history>>

\* An account.json that cannot be parsed; a renewal without an account.
LoadAccountFails(j) ==
    /\ At(j, "load")
    /\ account = Torn \/ (account = None /\ job[j].kind = "renew")
    /\ Fail(j)

Register(j) ==
    /\ At(j, "register")
    /\ Become(j, [job[j] EXCEPT !.pc = "account", !.reg = job[j].key])
    /\ UNCHANGED <<files, due, history>>

RegisterFails(j) == At(j, "register") /\ Fail(j)

\* AccountsStorage.Save: os.WriteFile truncates, then writes.
SaveAccount(j) ==
    /\ At(j, "account")
    /\ account' = Torn
    /\ Goto(j, "accountBytes")
    /\ UNCHANGED <<accountKey, crt, key, due, history>>

WriteAccount(j) ==
    /\ At(j, "accountBytes")
    /\ account' = job[j].reg
    /\ Goto(j, "acme")
    /\ UNCHANGED <<accountKey, crt, key, due, history>>

-----------------------------------------------------------------------------
(* The certificate.                                                        *)

\* needRenewal looks at the certificate only.
NeedRenewal(j) ==
    /\ At(j, "check")
    /\ crt \in CertIds /\ due
    /\ Goto(j, "acme")
    /\ UNCHANGED <<files, due, history>>

NoRenewal(j) ==
    /\ At(j, "check")
    /\ crt \in CertIds /\ ~due
    /\ Over(j, "done")
    /\ UNCHANGED <<files, due, history>>

\* ReadCertificate: no file, or no certificate in it.
ReadFails(j) == At(j, "check") /\ crt \in {None, Torn} /\ Fail(j)

\* The ACME server issues a certificate, with a new private key, to who
\* signs with the key the registration is for.
Issue(j) ==
    /\ At(j, "acme")
    /\ job[j].reg = job[j].key
    /\ \E v \in CertIds :
          /\ NewIn(v, CertIds, CertsInUse)
          /\ Become(j, [NoJob EXCEPT !.pc = "crt", !.kind = job[j].kind,
                                     !.cert = v])
    /\ UNCHANGED <<files, due, history>>

IssueFails(j) == At(j, "acme") /\ Fail(j)

\* SaveResource writes the certificate, then its private key (then metadata
\* that nobody reads).
SaveCrt(j) ==
    /\ At(j, "crt")
    /\ crt' = Torn /\ due' = FALSE
    /\ Goto(j, "crtBytes")
    /\ met' = IF Saving = {} THEN met ELSE met \cup Saving \cup {j}
    /\ spoiled' = (spoiled \/ Saving # {})
    /\ UNCHANGED <<accountKey, account, key, rekeyed>>

WriteCrt(j) ==
    /\ At(j, "crtBytes")
    /\ crt' = job[j].cert /\ due' = FALSE
    /\ Goto(j, "key")
    /\ UNCHANGED <<accountKey, account, key, history>>

\* Mutant of SaveKey: the private key in place is kept.
SaveKeyIfMissing(j) ==
    /\ At(j, "key")
    /\ IF key = None THEN key' = Torn /\ Goto(j, "keyBytes")
                     ELSE Over(j, "done") /\ UNCHANGED key
    /\ UNCHANGED <<accountKey, account, crt, due, history>>

SaveKey(j) ==
    /\ At(j, "key")
    /\ key' = Torn
    /\ Goto(j, "keyBytes")
    /\ UNCHANGED <<accountKey, account, crt, due, history>>

\* An undisturbed save makes up for what an earlier one left.
WriteKeyFile(j) ==
    /\ At(j, "keyBytes")
    /\ key' = job[j].cert
    /\ Over(j, "done")
    /\ met' = met \ {j}
    /\ spoiled' = (spoiled /\ j \in met)
    /\ UNCHANGED <<accountKey, account, crt, due, rekeyed>>

-----------------------------------------------------------------------------
\* Time passes: the certificate in place comes within 30 days of its end.
Age ==
    /\ crt \in CertIds /\ ~due
    /\ due' = TRUE
    /\ UNCHANGED <<files, job, history>>

\* The process ends, killed or not: its jobs do not.
Cut ==
    /\ job' = [j \in Jobs |-> NoJob]
    /\ met' = {}
    /\ spoiled' = (spoiled \/ Saving # {})
    /\ UNCHANGED <<files, due, rekeyed>>

JobSucceeds(j) == Register(j) \/ Issue(j)
JobFails(j) == RegisterFails(j) \/ IssueFails(j)
JobWorks(j) ==
    \/ LoadKey(j) \/ LoadKeyFails(j) \/ KeyMissing(j) \/ CreateKey(j)
    \/ WriteKey(j) \/ LoadAccount(j) \/ LoadAccountFails(j) \/ SaveAccount(j)
    \/ WriteAccount(j) \/ NeedRenewal(j) \/ NoRenewal(j) \/ ReadFails(j)
    \/ SaveCrt(j) \/ WriteCrt(j) \/ SaveKey(j) \/ WriteKeyFile(j)
JobStep(j) == JobSucceeds(j) \/ JobFails(j) \/ JobWorks(j)
=============================================================================
