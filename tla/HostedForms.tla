---------------------------- MODULE HostedForms -----------------------------
\* The forms of the dialogs that the registry mounts anew each time.
EXTENDS FormKinds

\* Dialogs that only ask.
ConfirmationDialog == HostedPlain

\* Connections to providers: the record that is edited comes from the row.
StorageProviderEdit == HostedEdit
SourceControlEdit == HostedEdit
DnsProviderEdit == HostedEdit
ServerProviderEdit == HostedEdit
NotificationChannelEdit == HostedEdit

\* Servers.
DataRetention == HostedEdit
DatabaseUserEdit == HostedEdit
DatabaseUserLink == HostedEdit
PhpExtensions == [Hosted EXCEPT !.effect = "runs"]
FirewallRule == HostedBoth
ServerAddress == Hosted
Fail2ban == HostedEdit
CertificateActivation == [Hosted EXCEPT !.effect = "runs"]
ServerFeatureAction == [Hosted EXCEPT !.effect = "runs"]

\* Backups: a server has to be chosen first.
BackupCreate == [Hosted EXCEPT !.lock = {"processing", "incomplete"}]
BackupEdit == HostedEdit
BackupRestore == [Hosted EXCEPT !.effect = "runs"]

\* Files and variables read from the server when the dialog opens.  The ones that
\* are files can be saved once the request ended, even if it failed.
PhpIni == [Hosted EXCEPT !.effect = "saves", !.seed = "query",
           !.lock = {"processing", "fetching"}]
ServiceConfigFile == [Hosted EXCEPT !.effect = "saves", !.seed = "query",
                      !.lock = {"processing", "fetching"}]
WorkerEnv == [Hosted EXCEPT !.effect = "saves", !.seed = "query",
              !.lock = {"processing", "unfetched", "incomplete"}]

\* Sites.
CronJobForm == HostedBoth
WorkerForm == HostedBoth
HostedDomainCreate == [Hosted EXCEPT !.enter = "free"]
HostedDomainEdit == [HostedEdit EXCEPT !.enter = "free"]
CommandEdit == [HostedEdit EXCEPT !.enter = "free"]
RedirectEdit == HostedEdit
SiteFeatureAction == [Hosted EXCEPT !.effect = "runs"]
PhpSettings == HostedEdit

\* Domains, scripts and networks.
DnsRecord == [HostedBoth EXCEPT !.enter = "free"]
ScriptForm == [HostedBoth EXCEPT !.enter = "free"]
NetworkCreate == [Hosted EXCEPT !.done = {"close", "reset"}]
NetworkServerAdd == [Hosted EXCEPT !.done = {"close", "reset"}]
NetworkServerEdit == HostedEdit
NetworkFirewallRule == HostedBoth
NetworkPeer == [Hosted EXCEPT !.done = {"close", "reset"}]

\* Applications.
EnvironmentCreate == Hosted
TargetDelete == [Hosted EXCEPT !.effect = "removes",
                 !.lock = {"processing", "incomplete"}]
ComponentAdd == [Hosted EXCEPT !.lock = {"processing", "incomplete"}]
ComponentDelete == [Hosted EXCEPT !.effect = "removes"]
Variable == HostedBoth
EnvironmentScript == HostedEdit
EnvironmentDomain == [HostedBoth EXCEPT !.lock = {"processing", "incomplete"},
                      !.frozen = TRUE]
ResourceAttach == [Hosted EXCEPT !.lock = {"processing", "incomplete"}, !.frozen = TRUE]

HostedCatalogue ==
  {ConfirmationDialog, StorageProviderEdit, SourceControlEdit, DnsProviderEdit,
   ServerProviderEdit, NotificationChannelEdit, DataRetention, DatabaseUserEdit,
   DatabaseUserLink, PhpExtensions, FirewallRule, ServerAddress, Fail2ban,
   CertificateActivation, ServerFeatureAction, BackupCreate, BackupEdit, BackupRestore,
   PhpIni, ServiceConfigFile, WorkerEnv, CronJobForm, WorkerForm, HostedDomainCreate,
   HostedDomainEdit, CommandEdit, RedirectEdit, SiteFeatureAction, PhpSettings,
   DnsRecord, ScriptForm, NetworkCreate, NetworkServerAdd, NetworkServerEdit,
   NetworkFirewallRule, NetworkPeer, EnvironmentCreate, TargetDelete, ComponentAdd,
   ComponentDelete, Variable, EnvironmentScript, EnvironmentDomain, ResourceAttach}
=============================================================================
