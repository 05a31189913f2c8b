----------------------------- MODULE PageForms ------------------------------
\* The forms and submitting buttons of the pages themselves.
EXTENDS FormKinds

\* Buttons that submit at once.
BackupToggle == [PageButton EXCEPT !.effect = "saves"]
BackupRun == [PageButton EXCEPT !.lock = {}]
PluginUpdatesCheck == PageButton
PluginQuickInstall == PageButton
ServerUpdatesCheck == [PageButton EXCEPT !.lock = {}]
ServerConnectionCheck == [PageButton EXCEPT !.lock = {}]
ServerStatusCheck == [PageButton EXCEPT !.lock = {}]
ServicesRefresh == PageButton
GithubAppSync == PageButton
TwoFactorEnable == PageButton
ProjectSwitch == [PageButton EXCEPT !.effect = "saves", !.lock = {}]
ServerSwitch == [PageButton EXCEPT !.effect = "saves", !.lock = {}]
SiteSwitch == [PageButton EXCEPT !.effect = "saves", !.lock = {}]

\* Signing in: what is secret is cleared when the submission ends.
PasswordConfirm == [Page EXCEPT !.effect = "runs", !.done = {"finish"}]
PasswordForgot == [Page EXCEPT !.effect = "runs"]
Login == [Page EXCEPT !.effect = "runs", !.done = {"finish"}]
PasswordReset == [Page EXCEPT !.effect = "saves", !.done = {"finish"}]
TwoFactorChallenge == [Page EXCEPT !.effect = "runs", !.done = {"finish"}]
PasswordUpdate == [Page EXCEPT !.effect = "saves", !.done = {"reset", "finish"}]

\* Pages that edit a record.
ProfileUpdate == PageEdit
LoadBalancer == [PageEdit EXCEPT !.enter = "off"]
ServerSettings == [PageEdit EXCEPT !.lock = {"clean"}, !.enter = "free"]
AutoUpdates == [PageEdit EXCEPT !.enter = "off"]
GithubAppManual == [Page EXCEPT !.effect = "saves", !.done = {"reset"}]

\* Pages that follow the record while they are clean.
NetworkSettings == [PageSynced EXCEPT !.lock = {"clean"}, !.enter = "free",
                    !.frozen = FALSE]
ApplicationSettings == PageSynced
EnvironmentSettings == PageSynced
ReleaseSettings == PageSynced
Capabilities == PageSynced
Backends == PageSynced

PageCatalogue ==
  {BackupToggle, BackupRun, PluginUpdatesCheck, PluginQuickInstall, ServerUpdatesCheck,
   ServerConnectionCheck, ServerStatusCheck, ServicesRefresh, GithubAppSync,
   TwoFactorEnable, ProjectSwitch, ServerSwitch, SiteSwitch, PasswordConfirm,
   PasswordForgot, Login, PasswordReset, TwoFactorChallenge, PasswordUpdate,
   ProfileUpdate, LoadBalancer, ServerSettings, AutoUpdates, GithubAppManual,
   NetworkSettings, ApplicationSettings, EnvironmentSettings, ReleaseSettings,
   Capabilities, Backends}
=============================================================================
