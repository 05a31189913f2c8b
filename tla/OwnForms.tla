------------------------------ MODULE OwnForms ------------------------------
\* The forms of the dialogs that keep their own open state and stay mounted.
EXTENDS FormKinds

\* Dialogs that only ask.
AutoDeployment == [OwnPlain EXCEPT !.effect = "saves"]
SiteDeploy == OwnPlain
CronJobsSync == OwnPlain
DatabaseUsersSync == OwnPlain
DatabasesSync == OwnPlain
DnsRecordsSync == OwnPlain
TwoFactorDisable == [OwnPlain EXCEPT !.effect = "removes"]
TwoFactorRegenerate == OwnPlain
ProjectLeave == [OwnPlain EXCEPT !.effect = "removes"]
ProjectUserRemove == [OwnPlain EXCEPT !.effect = "removes"]
TemplateDelete == [OwnPlain EXCEPT !.effect = "removes"]
StatsResync == OwnPlain
StatsToggle == [OwnPlain EXCEPT !.effect = "saves"]
UserDelete == [OwnPlain EXCEPT !.effect = "removes"]
WorkflowDelete == [OwnPlain EXCEPT !.effect = "removes"]
GithubAppRemove == [OwnPlain EXCEPT !.effect = "removes", !.lock = {}]

\* Dialogs that create something: only some reset what was typed after a success.
ApiKeyCreate == [Own EXCEPT !.enter = "free", !.done = {}, !.turn = "resetsOnClose"]
CommandCreate == [Own EXCEPT !.enter = "free"]
DatabaseUserCreate == OwnReset
DatabaseCreate == [OwnReset EXCEPT !.enter = "free"]
DnsDomainAdd == [OwnReset EXCEPT !.enter = "off",
                 !.lock = {"processing", "incomplete"}, !.turn = "resetsOnOpen"]
ProjectInvite == Own
ProjectForm == [Own EXCEPT !.seed = "either", !.enter = "free"]
RedirectCreate == OwnReset
ServerLogForm == [OwnReset EXCEPT !.seed = "either"]
SshKeyDeploy == [Own EXCEPT !.effect = "runs"]
CertificateCreate == [OwnReset EXCEPT !.turn = "resetsOnOpen"]
TemplateSave == [OwnReset EXCEPT !.seed = "item", !.enter = "reloads"]
ServiceInstall == OwnReset
SshKeyAdd == [Own EXCEPT !.enter = "free"]
UserCreate == OwnClick
WorkflowCreate == [OwnReset EXCEPT !.enter = "free"]
TwoFactorConfirm == [Own EXCEPT !.effect = "saves"]

\* Connections to providers: the fields depend on the provider.
DnsProviderConnect == OwnClick
NotificationChannelConnect == OwnClick
ServerProviderConnect == OwnClick
SourceControlConnect == OwnClick
StorageProviderConnect == OwnClick

\* Dialogs whose submit handler lets the browser submit as well.
CommandExecute == [Own EXCEPT !.effect = "runs", !.enter = "native"]
ScriptExecute == [Own EXCEPT !.effect = "runs", !.enter = "native"]
PluginInstall == [OwnReset EXCEPT !.effect = "runs", !.enter = "native"]

\* Settings of a site or a server: the first values are those of the page when it
\* was loaded, except where the form rereads them.
SiteDeploymentScript == OwnEdit
BasicAuth == [OwnEdit EXCEPT !.turn = "rereads"]
BranchChange == OwnEdit
PhpVersionChange == OwnEdit
PortChange == OwnEdit
SourceControlChange == OwnEdit
StartCommandChange == [OwnEdit EXCEPT !.lock = {"processing", "incomplete"},
                       !.turn = "resetsOnClose"]
WebDirectoryChange == OwnEdit
VHostTemplate == [Own EXCEPT !.effect = "saves", !.seed = "query",
                  !.lock = {"processing", "fetching"}]
UserEdit == [OwnEdit EXCEPT !.enter = "off", !.done = {}]
ServerTransfer == OwnEdit

\* Dialogs that end what they are about, or replace everything.
ProjectDelete == [Own EXCEPT !.effect = "removes"]
ServerDelete == [Own EXCEPT !.effect = "removes",
                 !.lock = {"processing", "incomplete"}, !.turn = "resetsOnClose"]
SiteDelete == [Own EXCEPT !.effect = "removes", !.done = {}]
VitoImport == [Own EXCEPT !.effect = "runs", !.done = {}]

OwnCatalogue ==
  {AutoDeployment, SiteDeploy, CronJobsSync, DatabaseUsersSync, DatabasesSync,
   DnsRecordsSync, TwoFactorDisable, TwoFactorRegenerate, ProjectLeave,
   ProjectUserRemove, TemplateDelete, StatsResync, StatsToggle, UserDelete,
   WorkflowDelete, GithubAppRemove, ApiKeyCreate, CommandCreate, DatabaseUserCreate,
   DatabaseCreate, DnsDomainAdd, ProjectInvite, ProjectForm, RedirectCreate,
   ServerLogForm, SshKeyDeploy, CertificateCreate, TemplateSave, ServiceInstall,
   SshKeyAdd, UserCreate, WorkflowCreate, TwoFactorConfirm, DnsProviderConnect,
   NotificationChannelConnect, ServerProviderConnect, SourceControlConnect,
   StorageProviderConnect, CommandExecute, ScriptExecute, PluginInstall,
   SiteDeploymentScript, BasicAuth, BranchChange, PhpVersionChange, PortChange,
   SourceControlChange, StartCommandChange, WebDirectoryChange, VHostTemplate,
   UserEdit, ServerTransfer, ProjectDelete, ServerDelete, SiteDelete, VitoImport}
=============================================================================
