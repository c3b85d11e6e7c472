-------------------------- MODULE AdminPagesProofs --------------------------
(* For any pages, requests, losses and slow reads: an open page shows what *)
(* was changed on it, and its badges count it (AdminPages).  While a cache *)
(* is behind on a change, it is being read or a dialog still owes the read.*)
EXTENDS AdminPages, SequenceTheorems, TLAPS

-----------------------------------------------------------------------------
(* What the dialogs of every page read again covers what their requests    *)
(* may change, but for what AdminPages says they forget, dialog by dialog. *)

\* What a request may have changed, answered or refused.
Touches(request) == request.changes \cup request.halfway

\* The dialog reads again the caches it makes stale, of those given, or forgets them; and
\* has the issues read again if they depend on what it changes.
Followed(caches, dialog) ==
  /\ dialog.reads \in Seq(SUBSET Caches)
  /\ dialog.request.issues \in BOOLEAN
  /\ dialog.request.issues \/ Touches(dialog.request) \cap getTournamentIssues = {}
  /\ \A k \in caches \ {"issues"} : Shows[k] \cap Touches(dialog.request) # {} =>
       Forgets(dialog, k) \/ \E i \in 1..Len(dialog.reads) : k \in dialog.reads[i]

\* The same of the caches it reads, whatever the order.
Reached(caches, dialog, again) ==
  /\ again \subseteq Caches
  /\ dialog.request.issues \in BOOLEAN
  /\ dialog.request.issues \/ Touches(dialog.request) \cap getTournamentIssues = {}
  /\ \A k \in caches \ {"issues"} :
       Shows[k] \cap Touches(dialog.request) # {} => Forgets(dialog, k) \/ k \in again

\* The caches and what they show (adapter.tsx), written out.
LEMMA Catalog ==
  /\ Caches = {"clubs", "tournaments", "tournament", "courts", "playersPage", "teamsPage",
       "teams", "stages", "rankings", "inputs", "freePlayers", "anyPlayers", "issues"}
  /\ Shows["clubs"] = {"clubs"}
  /\ Shows["tournaments"] = {"tournament"}
  /\ Shows["tournament"] = {"tournament"}
  /\ Shows["courts"] = {"courts"}
  /\ Shows["playersPage"] = {"players", "player names", "members", "teams"}
  /\ Shows["teamsPage"] = {"roster", "teams", "members", "players", "player names"}
  /\ Shows["teams"] = {"roster", "teams", "members", "players", "player names"}
  /\ Shows["stages"] = {"stages", "stage names", "items", "inputs", "matches", "referees", "teams"}
  /\ Shows["rankings"] = {"rankings"}
  /\ Shows["inputs"] = {"roster", "teams", "stages", "items", "inputs"}
  /\ Shows["freePlayers"] = {"players", "player names", "members"}
  /\ Shows["anyPlayers"] = {"players", "player names"}
  /\ Shows["issues"] = getTournamentIssues
BY DEF Caches, Shows, getTournamentIssues, getPlayers, getAvailableStageItemInputs,
  getClubs, getCourts, getPlayersPaginated, getRankings, getStages, getTeams,
  getTeamsPaginated, getTournamentById, getTournaments

\* A dialog that reads once, like most, and one that reads twice.
LEMMA OneRead ==
  ASSUME NEW caches, NEW dialog, NEW first, dialog.reads = <<first>>,
         Reached(caches, dialog, first)
  PROVE  Followed(caches, dialog)
<1>1. first \in SUBSET Caches
  BY DEF Reached
<1>2. dialog.reads \in Seq(SUBSET Caches) /\ Len(dialog.reads) = 1 /\ dialog.reads[1] = first
  BY <1>1
<1> QED BY <1>2 DEF Followed, Reached

\* See OneRead.
LEMMA TwoReads ==
  ASSUME NEW caches, NEW dialog, NEW first, NEW second, dialog.reads = <<first, second>>,
         Reached(caches, dialog, first \cup second)
  PROVE  Followed(caches, dialog)
<1>1. first \in SUBSET Caches /\ second \in SUBSET Caches
  BY DEF Reached
<1>2. /\ dialog.reads \in Seq(SUBSET Caches)
      /\ Len(dialog.reads) = 2 /\ dialog.reads[1] = first /\ dialog.reads[2] = second
  BY <1>1
<1> QED BY <1>2 DEF Followed, Reached

\* The dialogs of HomePage.
LEMMA HomePageFollowed == \A d \in HomePage.offers : Followed(HomePage.caches, d)
<1> DEFINE ks == {"tournaments", "clubs"}
<1>1. Followed(ks, TournamentModal)
  <2>1. /\ TournamentModal.reads = <<{"tournaments"}>>
        /\ Touches(TournamentModal.request) = {"tournament"}
        /\ TournamentModal.request.issues = FALSE
    BY DEF Touches, TournamentModal, Dialog, createTournament, Request
  <2>2. Reached(ks, TournamentModal, {"tournaments"})
    BY <2>1, Catalog DEF Reached, getTournamentIssues
  <2> QED BY <2>1, <2>2, OneRead
<1> QED BY <1>1 DEF HomePage, Page

\* The dialogs of ClubsPage.
LEMMA ClubsPageFollowed == \A d \in ClubsPage.offers : Followed(ClubsPage.caches, d)
<1> DEFINE ks == {"clubs"}
<1>1. Followed(ks, ClubModalCreate)
  <2>1. /\ ClubModalCreate.reads = <<{"clubs"}>>
        /\ Touches(ClubModalCreate.request) = {"clubs"}
        /\ ClubModalCreate.request.issues = FALSE
    BY DEF Touches, ClubModalCreate, Dialog, createClub, Request
  <2>2. Reached(ks, ClubModalCreate, {"clubs"})
    BY <2>1, Catalog DEF Reached, getTournamentIssues
  <2> QED BY <2>1, <2>2, OneRead
<1>2. Followed(ks, ClubModalUpdate)
  <2>1. /\ ClubModalUpdate.reads = <<{"clubs"}>>
        /\ Touches(ClubModalUpdate.request) = {"clubs"}
        /\ ClubModalUpdate.request.issues = FALSE
    BY DEF Touches, ClubModalUpdate, Dialog, updateClub, Request
  <2>2. Reached(ks, ClubModalUpdate, {"clubs"})
    BY <2>1, Catalog DEF Reached, getTournamentIssues
  <2> QED BY <2>1, <2>2, OneRead
<1>3. Followed(ks, ClubDelete)
  <2>1. /\ ClubDelete.reads = <<{"clubs"}>>
        /\ Touches(ClubDelete.request) = {"clubs"}
        /\ ClubDelete.request.issues = FALSE
    BY DEF Touches, ClubDelete, Dialog, deleteClub, Request
  <2>2. Reached(ks, ClubDelete, {"clubs"})
    BY <2>1, Catalog DEF Reached, getTournamentIssues
  <2> QED BY <2>1, <2>2, OneRead
<1> QED BY <1>1, <1>2, <1>3 DEF ClubsPage, Page

\* The dialogs of SettingsPage.
LEMMA SettingsPageFollowed == \A d \in SettingsPage.offers : Followed(SettingsPage.caches, d)
<1> DEFINE ks == {"clubs", "courts", "tournament", "issues"}
<1>1. Followed(ks, GeneralTournamentForm)
  <2>1. /\ GeneralTournamentForm.reads = <<{"tournament"}>>
        /\ Touches(GeneralTournamentForm.request) = {"tournament", "limits", "matches"}
        /\ GeneralTournamentForm.request.issues = TRUE
    BY DEF Touches, GeneralTournamentForm, Dialog, updateTournament, Request
  <2>2. Reached(ks, GeneralTournamentForm, {"tournament"})
    BY <2>1, Catalog DEF Reached
  <2> QED BY <2>1, <2>2, OneRead
<1>2. Followed(ks, ArchiveTournamentButton)
  <2>1. /\ ArchiveTournamentButton.reads = <<{"tournament"}>>
        /\ Touches(ArchiveTournamentButton.request) = {"tournament"}
        /\ ArchiveTournamentButton.request.issues = FALSE
    BY DEF Touches, ArchiveTournamentButton, Dialog, archiveTournament, Request
  <2>2. Reached(ks, ArchiveTournamentButton, {"tournament"})
    BY <2>1, Catalog DEF Reached, getTournamentIssues
  <2> QED BY <2>1, <2>2, OneRead
<1>3. Followed(ks, UnarchiveTournamentButton)
  <2>1. /\ UnarchiveTournamentButton.reads = <<{"tournament"}>>
        /\ Touches(UnarchiveTournamentButton.request) = {"tournament"}
        /\ UnarchiveTournamentButton.request.issues = FALSE
    BY DEF Touches, UnarchiveTournamentButton, Dialog, unarchiveTournament, Request
  <2>2. Reached(ks, UnarchiveTournamentButton, {"tournament"})
    BY <2>1, Catalog DEF Reached, getTournamentIssues
  <2> QED BY <2>1, <2>2, OneRead
<1>4. Followed(ks, TournamentLogoDropzone)
  <2>1. /\ TournamentLogoDropzone.reads = <<{"tournament"}>>
        /\ Touches(TournamentLogoDropzone.request) = {"tournament"}
        /\ TournamentLogoDropzone.request.issues = FALSE
    BY DEF Touches, TournamentLogoDropzone, Dialog, uploadTournamentLogo, Request, Uncaught
  <2>2. Reached(ks, TournamentLogoDropzone, {"tournament"})
    BY <2>1, Catalog DEF Reached, getTournamentIssues
  <2> QED BY <2>1, <2>2, OneRead
<1>5. Followed(ks, RemoveTournamentLogo)
  <2>1. /\ RemoveTournamentLogo.reads = <<{"tournament"}>>
        /\ Touches(RemoveTournamentLogo.request) = {"tournament"}
        /\ RemoveTournamentLogo.request.issues = FALSE
    BY DEF Touches, RemoveTournamentLogo, Dialog, removeTournamentLogo, Request, Uncaught
  <2>2. Reached(ks, RemoveTournamentLogo, {"tournament"})
    BY <2>1, Catalog DEF Reached, getTournamentIssues
  <2> QED BY <2>1, <2>2, OneRead
<1> QED BY <1>1, <1>2, <1>3, <1>4, <1>5 DEF SettingsPage, Page, TournamentPage

\* The dialogs of PlayersPage.
LEMMA PlayersPageFollowed == \A d \in PlayersPage.offers : Followed(PlayersPage.caches, d)
<1> DEFINE ks == {"playersPage", "tournament", "issues"}
<1>1. Followed(ks, SinglePlayerTab)
  <2>1. /\ SinglePlayerTab.reads = <<{"playersPage"}>>
        /\ Touches(SinglePlayerTab.request) = {"players"}
        /\ SinglePlayerTab.request.issues = TRUE
    BY DEF Touches, SinglePlayerTab, Dialog, createPlayer, Request
  <2>2. Reached(ks, SinglePlayerTab, {"playersPage"})
    BY <2>1, Catalog DEF Reached
  <2> QED BY <2>1, <2>2, OneRead
<1>2. Followed(ks, MultiPlayerTab)
  <2>1. /\ MultiPlayerTab.reads = <<{"playersPage"}>>
        /\ Touches(MultiPlayerTab.request) = {"players"}
        /\ MultiPlayerTab.request.issues = TRUE
    BY DEF Touches, MultiPlayerTab, Dialog, createMultiplePlayers, Request
  <2>2. Reached(ks, MultiPlayerTab, {"playersPage"})
    BY <2>1, Catalog DEF Reached
  <2> QED BY <2>1, <2>2, OneRead
<1>3. Followed(ks, PlayerUpdateModal)
  <2>1. /\ PlayerUpdateModal.reads = <<{"playersPage"}>>
        /\ Touches(PlayerUpdateModal.request) = {"player names"}
        /\ PlayerUpdateModal.request.issues = FALSE
    BY DEF Touches, PlayerUpdateModal, Dialog, updatePlayer, Request
  <2>2. Reached(ks, PlayerUpdateModal, {"playersPage"})
    BY <2>1, Catalog DEF Reached, getTournamentIssues
  <2> QED BY <2>1, <2>2, OneRead
<1>4. Followed(ks, PlayerDelete)
  <2>1. /\ PlayerDelete.reads = <<{"playersPage"}>>
        /\ Touches(PlayerDelete.request) = {"players", "members"}
        /\ PlayerDelete.request.issues = TRUE
    BY DEF Touches, PlayerDelete, Dialog, deletePlayer, Request
  <2>2. Reached(ks, PlayerDelete, {"playersPage"})
    BY <2>1, Catalog DEF Reached
  <2> QED BY <2>1, <2>2, OneRead
<1> QED BY <1>1, <1>2, <1>3, <1>4 DEF PlayersPage, Page, TournamentPage

\* The dialogs of TeamsPage.
LEMMA TeamsPageFollowed == \A d \in TeamsPage.offers : Followed(TeamsPage.caches, d)
<1> DEFINE ks == {"teamsPage", "stages", "freePlayers", "anyPlayers", "tournament", "issues"}
<1>1. Followed(ks, SingleTeamTab)
  <2>1. /\ SingleTeamTab.reads = <<{"teamsPage"}, {"freePlayers"}>>
        /\ Touches(SingleTeamTab.request) = {"roster", "members"}
        /\ SingleTeamTab.request.issues = TRUE
    BY DEF Touches, SingleTeamTab, Dialog, createTeam, Request, Uncaught
  <2>2. Reached(ks, SingleTeamTab, {"teamsPage"} \cup {"freePlayers"})
    BY <2>1, Catalog DEF Reached
  <2> QED BY <2>1, <2>2, TwoReads
<1>2. Followed(ks, MultiTeamTab)
  <2>1. /\ MultiTeamTab.reads = <<{"teamsPage"}>>
        /\ Touches(MultiTeamTab.request) = {"roster", "members", "players"}
        /\ MultiTeamTab.request.issues = TRUE
    BY DEF Touches, MultiTeamTab, Dialog, createTeams, Request, Uncaught
  <2>2. Forgets(MultiTeamTab, "freePlayers") /\ Forgets(MultiTeamTab, "anyPlayers")
    BY DEF Forgets
  <2>3. Reached(ks, MultiTeamTab, {"teamsPage"})
    BY <2>1, <2>2, Catalog DEF Reached
  <2> QED BY <2>1, <2>3, OneRead
<1>3. Followed(ks, TeamUpdateModal)
  <2>1. /\ TeamUpdateModal.reads = <<{"teamsPage"}, {"freePlayers"}>>
        /\ Touches(TeamUpdateModal.request) =
             {"teams", "members", "referees", "inputs", "matches", "items"}
        /\ TeamUpdateModal.request.issues = TRUE
    BY DEF Touches, TeamUpdateModal, Dialog, updateTeam, Request, Uncaught, Reconciled
  <2>2. Forgets(TeamUpdateModal, "stages")
    BY DEF Forgets
  <2>3. Reached(ks, TeamUpdateModal, {"teamsPage"} \cup {"freePlayers"})
    BY <2>1, <2>2, Catalog DEF Reached
  <2> QED BY <2>1, <2>3, TwoReads
<1>4. Followed(ks, TeamDelete)
  <2>1. /\ TeamDelete.reads = <<{"teamsPage"}, {"freePlayers"}>>
        /\ Touches(TeamDelete.request) = {"roster", "members"}
        /\ TeamDelete.request.issues = TRUE
    BY DEF Touches, TeamDelete, Dialog, deleteTeam, Request
  <2>2. Reached(ks, TeamDelete, {"teamsPage"} \cup {"freePlayers"})
    BY <2>1, Catalog DEF Reached
  <2> QED BY <2>1, <2>2, TwoReads
<1>5. Followed(ks, DropzoneButton)
  <2>1. /\ DropzoneButton.reads = <<{"teamsPage"}>>
        /\ Touches(DropzoneButton.request) = {"teams"}
        /\ DropzoneButton.request.issues = FALSE
    BY DEF Touches, DropzoneButton, Dialog, uploadTeamLogo, Request, Uncaught
  <2>2. Forgets(DropzoneButton, "stages")
    BY DEF Forgets
  <2>3. Reached(ks, DropzoneButton, {"teamsPage"})
    BY <2>1, <2>2, Catalog DEF Reached, getTournamentIssues
  <2> QED BY <2>1, <2>3, OneRead
<1>6. Followed(ks, RemoveTeamLogo)
  <2>1. /\ RemoveTeamLogo.reads = <<{"teamsPage"}>>
        /\ Touches(RemoveTeamLogo.request) = {"teams"}
        /\ RemoveTeamLogo.request.issues = FALSE
    BY DEF Touches, RemoveTeamLogo, Dialog, removeTeamLogo, Request, Uncaught
  <2>2. Forgets(RemoveTeamLogo, "stages")
    BY DEF Forgets
  <2>3. Reached(ks, RemoveTeamLogo, {"teamsPage"})
    BY <2>1, <2>2, Catalog DEF Reached, getTournamentIssues
  <2> QED BY <2>1, <2>3, OneRead
<1> QED BY <1>1, <1>2, <1>3, <1>4, <1>5, <1>6 DEF TeamsPage, Page, TournamentPage

\* The dialogs of RankingsPage.
LEMMA RankingsPageFollowed == \A d \in RankingsPage.offers : Followed(RankingsPage.caches, d)
<1> DEFINE ks == {"rankings", "stages", "tournament", "issues"}
<1>1. Followed(ks, AddRanking)
  <2>1. /\ AddRanking.reads = <<{"rankings"}>>
        /\ Touches(AddRanking.request) = {"rankings"}
        /\ AddRanking.request.issues = FALSE
    BY DEF Touches, AddRanking, Dialog, createRanking, Request
  <2>2. Reached(ks, AddRanking, {"rankings"})
    BY <2>1, Catalog DEF Reached, getTournamentIssues
  <2> QED BY <2>1, <2>2, OneRead
<1>2. Followed(ks, EditRankingForm)
  <2>1. /\ EditRankingForm.reads = <<{"rankings"}>>
        /\ Touches(EditRankingForm.request) = {"rankings", "inputs", "matches", "items"}
        /\ EditRankingForm.request.issues = TRUE
    BY DEF Touches, EditRankingForm, Dialog, editRanking, Request, Uncaught, Reconciled
  <2>2. Forgets(EditRankingForm, "stages")
    BY DEF Forgets
  <2>3. Reached(ks, EditRankingForm, {"rankings"})
    BY <2>1, <2>2, Catalog DEF Reached
  <2> QED BY <2>1, <2>3, OneRead
<1>3. Followed(ks, RankingDeleteButton)
  <2>1. /\ RankingDeleteButton.reads = <<{"rankings"}>>
        /\ Touches(RankingDeleteButton.request) = {"rankings"}
        /\ RankingDeleteButton.request.issues = FALSE
    BY DEF Touches, RankingDeleteButton, Dialog, deleteRanking, Request
  <2>2. Reached(ks, RankingDeleteButton, {"rankings"})
    BY <2>1, Catalog DEF Reached, getTournamentIssues
  <2> QED BY <2>1, <2>2, OneRead
<1> QED BY <1>1, <1>2, <1>3 DEF RankingsPage, Page, TournamentPage

\* The dialogs of StagesPage.
LEMMA StagesPageFollowed == \A d \in StagesPage.offers : Followed(StagesPage.caches, d)
<1> DEFINE ks == {"stages", "teams", "rankings", "inputs", "tournament", "issues"}
<1>1. Followed(ks, CreateStageButton)
  <2>1. /\ CreateStageButton.reads = <<{"stages"}, {"inputs"}>>
        /\ Touches(CreateStageButton.request) = {"stages"}
        /\ CreateStageButton.request.issues = FALSE
    BY DEF Touches, CreateStageButton, Dialog, createStage, Request
  <2>2. Reached(ks, CreateStageButton, {"stages"} \cup {"inputs"})
    BY <2>1, Catalog DEF Reached, getTournamentIssues
  <2> QED BY <2>1, <2>2, TwoReads
<1>2. Followed(ks, CreateStageButtonLarge)
  <2>1. /\ CreateStageButtonLarge.reads = <<{"stages"}>>
        /\ Touches(CreateStageButtonLarge.request) = {"stages"}
        /\ CreateStageButtonLarge.request.issues = FALSE
    BY DEF Touches, CreateStageButtonLarge, Dialog, createStage, Request
  <2>2. Forgets(CreateStageButtonLarge, "inputs")
    BY DEF Forgets
  <2>3. Reached(ks, CreateStageButtonLarge, {"stages"})
    BY <2>1, <2>2, Catalog DEF Reached, getTournamentIssues
  <2> QED BY <2>1, <2>3, OneRead
<1>3. Followed(ks, UpdateStageModal)
  <2>1. /\ UpdateStageModal.reads = <<{"stages"}>>
        /\ Touches(UpdateStageModal.request) = {"stage names"}
        /\ UpdateStageModal.request.issues = FALSE
    BY DEF Touches, UpdateStageModal, Dialog, updateStage, Request
  <2>2. Reached(ks, UpdateStageModal, {"stages"})
    BY <2>1, Catalog DEF Reached, getTournamentIssues
  <2> QED BY <2>1, <2>2, OneRead
<1>4. Followed(ks, StageDelete)
  <2>1. /\ StageDelete.reads = <<{"stages"}, {"inputs"}>>
        /\ Touches(StageDelete.request) = {"stages", "inputs", "matches", "items"}
        /\ StageDelete.request.issues = TRUE
    BY DEF Touches, StageDelete, Dialog, deleteStage, Request, Reconciled
  <2>2. Reached(ks, StageDelete, {"stages"} \cup {"inputs"})
    BY <2>1, Catalog DEF Reached
  <2> QED BY <2>1, <2>2, TwoReads
<1>5. Followed(ks, SetStageRankingModal)
  <2>1. /\ SetStageRankingModal.reads = <<{"stages"}>>
        /\ Touches(SetStageRankingModal.request) = {"inputs", "matches", "items"}
        /\ SetStageRankingModal.request.issues = TRUE
    BY DEF Touches, SetStageRankingModal, Dialog, setRankingForStageItems, Request, Reconciled
  <2>2. Forgets(SetStageRankingModal, "inputs")
    BY DEF Forgets
  <2>3. Reached(ks, SetStageRankingModal, {"stages"})
    BY <2>1, <2>2, Catalog DEF Reached
  <2> QED BY <2>1, <2>3, OneRead
<1>6. Followed(ks, CreateFromTemplateModal)
  <2>1. /\ CreateFromTemplateModal.reads = <<{"stages"}, {"inputs"}>>
        /\ Touches(CreateFromTemplateModal.request) = {"stages", "inputs", "matches", "items"}
        /\ CreateFromTemplateModal.request.issues = TRUE
    BY DEF Touches, CreateFromTemplateModal, Dialog, createStagesFromTemplate, Request,
      Uncaught, Reconciled
  <2>2. Reached(ks, CreateFromTemplateModal, {"stages"} \cup {"inputs"})
    BY <2>1, Catalog DEF Reached
  <2> QED BY <2>1, <2>2, TwoReads
<1>7. Followed(ks, CreateStageItemModal)
  <2>1. /\ CreateStageItemModal.reads = <<{"stages"}, {"inputs"}>>
        /\ Touches(CreateStageItemModal.request) = {"inputs", "matches", "items"}
        /\ CreateStageItemModal.request.issues = TRUE
    BY DEF Touches, CreateStageItemModal, Dialog, createStageItem, Request, Reconciled
  <2>2. Reached(ks, CreateStageItemModal, {"stages"} \cup {"inputs"})
    BY <2>1, Catalog DEF Reached
  <2> QED BY <2>1, <2>2, TwoReads
<1>8. Followed(ks, UpdateStageItemModal)
  <2>1. /\ UpdateStageItemModal.reads = <<{"stages"}>>
        /\ Touches(UpdateStageItemModal.request) = {"inputs", "matches", "items"}
        /\ UpdateStageItemModal.request.issues = TRUE
    BY DEF Touches, UpdateStageItemModal, Dialog, updateStageItem, Request, Reconciled
  <2>2. Forgets(UpdateStageItemModal, "inputs")
    BY DEF Forgets
  <2>3. Reached(ks, UpdateStageItemModal, {"stages"})
    BY <2>1, <2>2, Catalog DEF Reached
  <2> QED BY <2>1, <2>3, OneRead
<1>9. Followed(ks, StageItemDelete)
  <2>1. /\ StageItemDelete.reads = <<{"stages"}, {"inputs"}>>
        /\ Touches(StageItemDelete.request) = {"inputs", "matches", "items"}
        /\ StageItemDelete.request.issues = TRUE
    BY DEF Touches, StageItemDelete, Dialog, deleteStageItem, Request, Reconciled
  <2>2. Reached(ks, StageItemDelete, {"stages"} \cup {"inputs"})
    BY <2>1, Catalog DEF Reached
  <2> QED BY <2>1, <2>2, TwoReads
<1>10. Followed(ks, StageItemInputComboBox)
  <2>1. /\ StageItemInputComboBox.reads = <<{"inputs", "stages"}>>
        /\ Touches(StageItemInputComboBox.request) = {"inputs", "matches", "items"}
        /\ StageItemInputComboBox.request.issues = TRUE
    BY DEF Touches, StageItemInputComboBox, Dialog, updateStageItemInput, Request, Reconciled
  <2>2. Reached(ks, StageItemInputComboBox, {"inputs", "stages"})
    BY <2>1, Catalog DEF Reached
  <2> QED BY <2>1, <2>2, OneRead
<1>11. Followed(ks, AutoAssign)
  <2>1. /\ AutoAssign.reads = <<{"stages"}, {"inputs"}>>
        /\ Touches(AutoAssign.request) = {"inputs", "matches", "items"}
        /\ AutoAssign.request.issues = TRUE
    BY DEF Touches, AutoAssign, Dialog, updateStageItemInput, Request, Reconciled
  <2>2. Reached(ks, AutoAssign, {"stages"} \cup {"inputs"})
    BY <2>1, Catalog DEF Reached
  <2> QED BY <2>1, <2>2, TwoReads
<1> QED BY <1>1, <1>2, <1>3, <1>4, <1>5, <1>6, <1>7, <1>8, <1>9, <1>10, <1>11 DEF
  StagesPage, Page, TournamentPage

\* The dialogs of SwissTournamentPage.
LEMMA SwissTournamentPageFollowed ==
  \A d \in SwissTournamentPage.offers : Followed(SwissTournamentPage.caches, d)
<1> DEFINE ks == {"stages", "courts", "tournament", "issues"}
<1>1. Followed(ks, RoundDeleteButton)
  <2>1. /\ RoundDeleteButton.reads = <<{"stages"}>>
        /\ Touches(RoundDeleteButton.request) = {"inputs", "matches", "items"}
        /\ RoundDeleteButton.request.issues = TRUE
    BY DEF Touches, RoundDeleteButton, Dialog, deleteRound, Request, Reconciled
  <2>2. Reached(ks, RoundDeleteButton, {"stages"})
    BY <2>1, Catalog DEF Reached
  <2> QED BY <2>1, <2>2, OneRead
<1>2. Followed(ks, RoundModal)
  <2>1. /\ RoundModal.reads = <<{"stages"}>>
        /\ Touches(RoundModal.request) = {"items"}
        /\ RoundModal.request.issues = FALSE
    BY DEF Touches, RoundModal, Dialog, updateRound, Request
  <2>2. Reached(ks, RoundModal, {"stages"})
    BY <2>1, Catalog DEF Reached, getTournamentIssues
  <2> QED BY <2>1, <2>2, OneRead
<1>3. Followed(ks, MatchModalSave)
  <2>1. /\ MatchModalSave.reads = <<{"stages"}>>
        /\ Touches(MatchModalSave.request) = {"matches", "referees"}
        /\ MatchModalSave.request.issues = TRUE
    BY DEF Touches, MatchModalSave, Dialog, updateMatch, Request
  <2>2. Reached(ks, MatchModalSave, {"stages"})
    BY <2>1, Catalog DEF Reached
  <2> QED BY <2>1, <2>2, OneRead
<1>4. Followed(ks, MatchModalTransition)
  <2>1. /\ MatchModalTransition.reads = <<{"stages"}>>
        /\ Touches(MatchModalTransition.request) = {"inputs", "matches", "items"}
        /\ MatchModalTransition.request.issues = TRUE
    BY DEF Touches, MatchModalTransition, Dialog, matchVerbs, Request, Reconciled
  <2>2. Reached(ks, MatchModalTransition, {"stages"})
    BY <2>1, Catalog DEF Reached
  <2> QED BY <2>1, <2>2, OneRead
<1> QED BY <1>1, <1>2, <1>3, <1>4 DEF SwissTournamentPage, Page, TournamentPage

\* The dialogs of ResultsPage.
LEMMA ResultsPageFollowed == \A d \in ResultsPage.offers : Followed(ResultsPage.caches, d)
<1> DEFINE ks == {"stages", "courts", "teams", "tournament", "issues"}
<1>1. Followed(ks, MatchModalSave)
  <2>1. /\ MatchModalSave.reads = <<{"stages"}>>
        /\ Touches(MatchModalSave.request) = {"matches", "referees"}
        /\ MatchModalSave.request.issues = TRUE
    BY DEF Touches, MatchModalSave, Dialog, updateMatch, Request
  <2>2. Reached(ks, MatchModalSave, {"stages"})
    BY <2>1, Catalog DEF Reached
  <2> QED BY <2>1, <2>2, OneRead
<1>2. Followed(ks, MatchModalTransition)
  <2>1. /\ MatchModalTransition.reads = <<{"stages"}>>
        /\ Touches(MatchModalTransition.request) = {"inputs", "matches", "items"}
        /\ MatchModalTransition.request.issues = TRUE
    BY DEF Touches, MatchModalTransition, Dialog, matchVerbs, Request, Reconciled
  <2>2. Reached(ks, MatchModalTransition, {"stages"})
    BY <2>1, Catalog DEF Reached
  <2> QED BY <2>1, <2>2, OneRead
<1> QED BY <1>1, <1>2 DEF ResultsPage, Page, TournamentPage

\* The dialogs of SchedulePage.
LEMMA SchedulePageFollowed == \A d \in SchedulePage.offers : Followed(SchedulePage.caches, d)
<1> DEFINE ks == {"stages", "courts", "tournament", "issues"}
<1>1. Followed(ks, CourtModal)
  <2>1. /\ CourtModal.reads = <<{"courts"}>>
        /\ Touches(CourtModal.request) = {"courts"}
        /\ CourtModal.request.issues = FALSE
    BY DEF Touches, CourtModal, Dialog, createCourt, Request
  <2>2. Reached(ks, CourtModal, {"courts"})
    BY <2>1, Catalog DEF Reached, getTournamentIssues
  <2> QED BY <2>1, <2>2, OneRead
<1>2. Followed(ks, CourtDeleteModal)
  <2>1. /\ CourtDeleteModal.reads = <<{"courts"}>>
        /\ Touches(CourtDeleteModal.request) = {"courts"}
        /\ CourtDeleteModal.request.issues = FALSE
    BY DEF Touches, CourtDeleteModal, Dialog, deleteCourt, Request
  <2>2. Reached(ks, CourtDeleteModal, {"courts"})
    BY <2>1, Catalog DEF Reached, getTournamentIssues
  <2> QED BY <2>1, <2>2, OneRead
<1>3. Followed(ks, AssignReferees)
  <2>1. /\ AssignReferees.reads = <<{"stages"}>>
        /\ Touches(AssignReferees.request) = {"referees"}
        /\ AssignReferees.request.issues = FALSE
    BY DEF Touches, AssignReferees, Dialog, autoAssignReferees, Request
  <2>2. Reached(ks, AssignReferees, {"stages"})
    BY <2>1, Catalog DEF Reached, getTournamentIssues
  <2> QED BY <2>1, <2>2, OneRead
<1>4. Followed(ks, ScheduleModal)
  <2>1. /\ ScheduleModal.reads = <<{"stages"}>>
        /\ Touches(ScheduleModal.request) = {"matches"}
        /\ ScheduleModal.request.issues = TRUE
    BY DEF Touches, ScheduleModal, Dialog, scheduleMatches, Request
  <2>2. Reached(ks, ScheduleModal, {"stages"})
    BY <2>1, Catalog DEF Reached
  <2> QED BY <2>1, <2>2, OneRead
<1>5. Followed(ks, ReoptimizeModal)
  <2>1. /\ ReoptimizeModal.reads = <<{"stages"}>>
        /\ Touches(ReoptimizeModal.request) = {"matches"}
        /\ ReoptimizeModal.request.issues = TRUE
    BY DEF Touches, ReoptimizeModal, Dialog, reoptimizeMatches, Request
  <2>2. Reached(ks, ReoptimizeModal, {"stages"})
    BY <2>1, Catalog DEF Reached
  <2> QED BY <2>1, <2>2, OneRead
<1>6. Followed(ks, MatchModalSave)
  <2>1. /\ MatchModalSave.reads = <<{"stages"}>>
        /\ Touches(MatchModalSave.request) = {"matches", "referees"}
        /\ MatchModalSave.request.issues = TRUE
    BY DEF Touches, MatchModalSave, Dialog, updateMatch, Request
  <2>2. Reached(ks, MatchModalSave, {"stages"})
    BY <2>1, Catalog DEF Reached
  <2> QED BY <2>1, <2>2, OneRead
<1>7. Followed(ks, MatchModalTransition)
  <2>1. /\ MatchModalTransition.reads = <<{"stages"}>>
        /\ Touches(MatchModalTransition.request) = {"inputs", "matches", "items"}
        /\ MatchModalTransition.request.issues = TRUE
    BY DEF Touches, MatchModalTransition, Dialog, matchVerbs, Request, Reconciled
  <2>2. Reached(ks, MatchModalTransition, {"stages"})
    BY <2>1, Catalog DEF Reached
  <2> QED BY <2>1, <2>2, OneRead
<1> QED BY <1>1, <1>2, <1>3, <1>4, <1>5, <1>6, <1>7 DEF SchedulePage, Page, TournamentPage

\* Every dialog a page of the site offers is followed by the reads the page needs.
LEMMA OffersFollowed ==
  \A p \in DOMAIN Site : \A d \in Site[p].offers : Followed(Site[p].caches, d)
BY HomePageFollowed, ClubsPageFollowed, SettingsPageFollowed, PlayersPageFollowed,
   TeamsPageFollowed, RankingsPageFollowed, StagesPageFollowed, SwissTournamentPageFollowed,
   ResultsPageFollowed, SchedulePageFollowed DEF Site

-----------------------------------------------------------------------------
(* The invariant                                                           *)

Offers == UNION {Site[p].offers : p \in DOMAIN Site}
AskedRows ==
  [dialog : Offers, state : {"sent", "settled", "thrown"}, next : Nat, here : BOOLEAN,
   strays : SUBSET Caches]
Reads == [state : {"idle", "sent", "broken"}, by : Nat, misses : SUBSET Nat]

TypeInv ==
  /\ page \in DOMAIN Site
  /\ asked \in Seq(AskedRows)
  /\ behind \in [Caches -> SUBSET Nat]
  /\ read \in [Caches -> Reads]

\* The dialog of request r has still to read cache k.
Owes(r, k) ==
  r.state = "settled" /\ \E i \in r.next..Len(Steps(r.dialog)) : k \in Steps(r.dialog)[i]

\* Why cache k may stay behind on request r, on an open page.
Excused(r, k) ==
  \/ r.state = "thrown"
  \/ k # "issues" /\ (~r.here \/ k \in r.strays \/ Forgets(r.dialog, k))

Kept(r, k) == Owes(r, k) \/ Excused(r, k)

\* The request of an unanswered dialog that is still open was offered by the open page.
SentInv ==
  \A c \in Asked : asked[c].state = "sent" =>
    /\ asked[c].next = 1 /\ asked[c].strays = {}
    /\ asked[c].here => asked[c].dialog \in Site[page].offers

CacheInv(k) ==
  /\ read[k].misses \subseteq Asked
  /\ behind[k] \subseteq Asked
  /\ \A c \in read[k].misses : Kept(asked[c], k)
  /\ k \in Mounted(page) /\ read[k].state = "idle" => \A c \in behind[k] : Kept(asked[c], k)

Inv == TypeInv /\ SentInv /\ \A k \in Caches : CacheInv(k)

\* What follows a request is a sequence of sets of caches: the issues first, if it has them.
LEMMA StepsTyped ==
  ASSUME NEW d \in Offers
  PROVE  /\ Steps(d) \in Seq(SUBSET Caches)
         /\ d.reads \in Seq(SUBSET Caches)
         /\ d.request.issues \in BOOLEAN
         /\ Len(Steps(d)) \in Nat
         /\ d.request.issues => Len(Steps(d)) >= 1 /\ Steps(d)[1] = {"issues"}
         /\ \A i \in 1..Len(d.reads) :
              \E j \in 1..Len(Steps(d)) : Steps(d)[j] = d.reads[i]
<1>1. d.reads \in Seq(SUBSET Caches) /\ d.request.issues \in BOOLEAN
  BY OffersFollowed DEF Offers, Followed
<1>2. "issues" \in Caches
  BY Catalog
<1>3. CASE d.request.issues
  <2>1. Steps(d) = <<{"issues"}>> \o d.reads
    BY <1>3 DEF Steps
  <2>2. <<{"issues"}>> \in Seq(SUBSET Caches)
    BY <1>2
  <2>3. /\ Steps(d) \in Seq(SUBSET Caches)
        /\ Len(Steps(d)) = Len(d.reads) + 1 /\ Len(d.reads) \in Nat
        /\ Steps(d)[1] = {"issues"}
        /\ \A i \in 1..Len(d.reads) : Steps(d)[i + 1] = d.reads[i]
    BY <1>1, <2>1, <2>2
  <2>4. \A i \in 1..Len(d.reads) : i + 1 \in 1..Len(Steps(d))
    BY <1>1, <2>3
  <2>5. Len(Steps(d)) \in Nat /\ Len(Steps(d)) >= 1
    BY <2>3
  <2> QED BY <1>1, <1>3, <2>3, <2>4, <2>5
<1>4. CASE ~d.request.issues
  <2>1. Steps(d) = d.reads
    BY <1>1, <1>4 DEF Steps
  <2> QED BY <1>1, <1>4, <2>1
<1> QED BY <1>1, <1>3, <1>4

\* A request that is answered on the page it was made on is owed by its dialog, thrown or
\* excused for every cache that shows what it changed.
LEMMA AnsweredKept ==
  ASSUME NEW p \in DOMAIN Site, NEW r \in AskedRows, r.state \in {"settled", "thrown"},
         r.next = 1, r.here => r.dialog \in Site[p].offers,
         NEW k \in Caches, Shows[k] \cap Touches(r.dialog.request) # {},
         k \in Site[p].caches \/ k \in r.strays \/ k = "issues"
  PROVE  Kept(r, k)
<1> DEFINE d == r.dialog
<1>1. d \in Offers
  BY DEF AskedRows
<1>2. CASE k = "issues"
  <2>1. Touches(d.request) \cap getTournamentIssues # {}
    BY <1>2, Catalog
  <2>2. PICK q \in DOMAIN Site : d \in Site[q].offers
    BY <1>1 DEF Offers
  <2>3. Followed(Site[q].caches, d)
    BY <2>2, OffersFollowed
  <2>4. d.request.issues
    BY <2>1, <2>3 DEF Followed
  <2>5. Len(Steps(d)) \in Nat /\ Len(Steps(d)) >= 1 /\ Steps(d)[1] = {"issues"}
    BY <1>1, <2>4, StepsTyped
  <2>6. 1 \in r.next..Len(Steps(d)) /\ k \in Steps(d)[1]
    BY <1>2, <2>5
  <2> QED BY <2>6 DEF Kept, Owes, Excused
<1>3. CASE k # "issues" /\ r.here /\ k \in Site[p].caches
  <2>1. Forgets(d, k) \/ \E i \in 1..Len(d.reads) : k \in d.reads[i]
    BY <1>3, OffersFollowed DEF Followed
  <2>2. CASE \E i \in 1..Len(d.reads) : k \in d.reads[i]
    <3>1. \E j \in 1..Len(Steps(d)) : k \in Steps(d)[j]
      BY <1>1, <2>2, StepsTyped
    <3> QED BY <3>1 DEF Kept, Owes, Excused
  <2> QED BY <1>3, <2>1, <2>2 DEF Kept, Excused
<1> QED BY <1>2, <1>3 DEF Kept, Excused

\* A dialog is submitted: nothing is owed for it yet.
LEMMA AskKeeps ==
  ASSUME Inv, NEW dialog \in Site[page].offers, Ask(dialog)
  PROVE  Inv'
<1> DEFINE row == [dialog |-> dialog, state |-> "sent", next |-> 1, here |-> TRUE, strays |-> {}]
<1>1. row \in AskedRows
  BY DEF Inv, TypeInv, AskedRows, Offers
<1>2. /\ asked' = Append(asked, row) /\ asked' \in Seq(AskedRows)
      /\ Asked' = Asked \cup {Len(asked) + 1}
      /\ \A c \in Asked : asked'[c] = asked[c]
      /\ asked'[Len(asked) + 1] = row
  BY <1>1 DEF Inv, TypeInv, Ask, Asked
<1>3. UNCHANGED <<page, multiple, slow, behind, read>>
  BY DEF Ask
<1>4. TypeInv'
  BY <1>2, <1>3 DEF Inv, TypeInv
<1>5. ASSUME NEW c \in Asked', asked'[c].state = "sent"
      PROVE  /\ asked'[c].next = 1 /\ asked'[c].strays = {}
             /\ asked'[c].here => asked'[c].dialog \in Site[page].offers
  <2>1. CASE c \in Asked
    BY <1>2, <1>5, <2>1 DEF Inv, SentInv
  <2>2. CASE c = Len(asked) + 1
    BY <1>2, <2>2
  <2> QED BY <1>2, <2>1, <2>2
<1>6. \A k \in Caches : CacheInv(k)'
  BY <1>2, <1>3 DEF Inv, CacheInv, Mounted
<1> QED BY <1>3, <1>4, <1>5, <1>6 DEF Inv, SentInv

\* A request is answered, refused or lost: what it has changed is owed or excused.
LEMMA SettleKeeps ==
  ASSUME Inv, NEW c \in Asked, NEW failed \in BOOLEAN, Settle(c, failed),
         NEW aspects \in SUBSET Touches(asked[c].dialog.request),
         Changed(c, aspects) \/ UNCHANGED <<behind, read>>
  PROVE  Inv'
<1> DEFINE r == asked[c]
<1> DEFINE outcome == IF failed /\ ~r.dialog.request.catches THEN "thrown" ELSE "settled"
<1> DEFINE new == [r EXCEPT !.state = outcome, !.strays = Strays]
<1>1. r \in AskedRows /\ c \in Nat /\ Asked \subseteq Nat /\ Asked = 1..Len(asked)
  BY DEF Inv, TypeInv, Asked
<1>2. r.state = "sent" /\ r.next = 1 /\ r.strays = {}
  BY DEF Inv, SentInv, Settle
<1>3. Strays \in SUBSET Caches
  BY DEF Strays
<1>4. /\ new \in AskedRows
      /\ new.dialog = r.dialog /\ new.next = r.next /\ new.here = r.here
      /\ new.state = outcome /\ new.strays = Strays
  BY <1>1, <1>3 DEF AskedRows
<1>5. asked' = [asked EXCEPT ![c] = new]
  BY DEF Settle, Inv, TypeInv, AskedRows
<1>6. /\ asked' \in Seq(AskedRows) /\ Asked' = Asked
      /\ asked'[c] = new /\ \A d \in Asked \ {c} : asked'[d] = asked[d]
  BY <1>1, <1>4, <1>5, ExceptSeq DEF Inv, TypeInv, Asked
<1>7. UNCHANGED <<page, multiple, slow>>
  BY DEF Settle
<1>8. \A k \in Caches : Kept(r, k) => Kept(new, k)
  BY <1>2, <1>4 DEF Kept, Owes, Excused
<1>9. \A k \in Caches : Shows[k] \cap aspects # {} /\ (k \in Mounted(page) \/ k \in Strays)
        => Kept(new, k)
  <2>1. page \in DOMAIN Site /\ Mounted(page) \subseteq Site[page].caches
    BY DEF Inv, TypeInv, Mounted
  <2>2. new.here => new.dialog \in Site[page].offers
    BY <1>2, <1>4 DEF Inv, SentInv
  <2>3. new.state \in {"settled", "thrown"} /\ new.next = 1
    BY <1>2, <1>4
  <2>4. \A k \in Caches : Shows[k] \cap aspects # {}
          => Shows[k] \cap Touches(new.dialog.request) # {}
    BY <1>4
  <2> HIDE DEF new
  <2> QED BY <1>4, <2>1, <2>2, <2>3, <2>4, AnsweredKept
<1>10. TypeInv' /\ \A k \in Caches : CacheInv(k)'
  <2> HIDE DEF new, r
  <2>1. CASE UNCHANGED <<behind, read>>
    <3>1. TypeInv'
      BY <1>6, <1>7, <2>1 DEF Inv, TypeInv
    <3>2. ASSUME NEW k \in Caches PROVE CacheInv(k)'
      BY <1>6, <1>7, <1>8, <2>1 DEF Inv, CacheInv, Mounted, r
    <3> QED BY <3>1, <3>2
  <2>2. CASE Changed(c, aspects)
    <3> DEFINE shown == {k \in Caches : Shows[k] \cap aspects # {}}
    <3>1. PICK answered \in SUBSET {k \in shown : read[k].state = "sent"} :
            /\ read' = [k \in Caches |-> IF k \in answered
                 THEN [read[k] EXCEPT !.misses = @ \cup {c}] ELSE read[k]]
            /\ behind' = [k \in Caches |-> IF k \in shown THEN behind[k] \cup {c} ELSE behind[k]]
      BY <2>2 DEF Changed
    <3>2. ASSUME NEW k \in Caches
          PROVE  /\ read'[k] \in Reads /\ read'[k].state = read[k].state
                 /\ read'[k].misses = read[k].misses \cup (IF k \in answered THEN {c} ELSE {})
      BY <1>1, <3>1 DEF Inv, TypeInv, Reads
    <3>3. TypeInv'
      BY <1>1, <1>6, <1>7, <3>1, <3>2 DEF Inv, TypeInv
    <3>4. ASSUME NEW k \in Caches PROVE CacheInv(k)'
      <4>1. k \in answered => k \in shown /\ (k \in Mounted(page) \/ k \in Strays)
        BY <3>1 DEF Strays
      <4>2. \A d \in Asked : Kept(asked[d], k) => Kept(asked'[d], k)
        BY <1>6, <1>8 DEF r
      <4>3. read'[k].misses \subseteq Asked' /\ \A d \in read'[k].misses : Kept(asked'[d], k)
        BY <1>6, <1>9, <3>2, <4>1, <4>2 DEF Inv, CacheInv
      <4>4. behind'[k] \subseteq Asked' /\ behind'[k] \subseteq behind[k] \cup {c}
            /\ (c \in behind'[k] => c \in behind[k] \/ k \in shown)
        BY <1>6, <3>1 DEF Inv, CacheInv
      <4>5. k \in Mounted(page) /\ read[k].state = "idle" =>
              \A d \in behind'[k] : Kept(asked'[d], k)
        BY <1>6, <1>9, <4>2, <4>4 DEF Inv, CacheInv
      <4>6. Mounted(page)' = Mounted(page)
        BY <1>7 DEF Mounted
      <4> QED BY <3>2, <4>3, <4>4, <4>5, <4>6 DEF CacheInv
    <3> QED BY <3>3, <3>4
  <2> QED BY <2>1, <2>2
<1>11. ASSUME NEW d \in Asked', asked'[d].state = "sent"
       PROVE  /\ asked'[d].next = 1 /\ asked'[d].strays = {}
              /\ asked'[d].here => asked'[d].dialog \in Site[page].offers
  <2>1. new.state # "sent"
    BY <1>4
  <2> HIDE DEF new
  <2>2. d # c
    BY <1>6, <1>11, <2>1
  <2> QED BY <1>6, <1>11, <2>2 DEF Inv, SentInv
<1> QED BY <1>7, <1>10, <1>11 DEF Inv, SentInv

\* The next read of a dialog: the caches of this step are up to date or being read.
LEMMA FollowKeeps ==
  ASSUME Inv, NEW c \in Asked, Follow(c)
  PROVE  Inv'
<1> DEFINE r == asked[c]
<1> DEFINE step == Steps(r.dialog)[r.next]
<1> DEFINE new == [r EXCEPT !.next = @ + 1]
<1>1. r \in AskedRows /\ c \in Nat /\ r.state = "settled"
  BY DEF Inv, TypeInv, Asked, Follow
<1>2. /\ new \in AskedRows /\ new.next = r.next + 1 /\ new.state = "settled"
      /\ new.dialog = r.dialog /\ new.here = r.here /\ new.strays = r.strays
  BY <1>1 DEF AskedRows
<1>3. asked' = [asked EXCEPT ![c] = new]
  BY DEF Follow, Inv, TypeInv, AskedRows
<1>4. /\ asked' \in Seq(AskedRows) /\ Asked' = Asked
      /\ asked'[c] = new /\ \A d \in Asked \ {c} : asked'[d] = asked[d]
  BY <1>1, <1>2, <1>3, ExceptSeq DEF Inv, TypeInv, Asked
<1>5. UNCHANGED <<page, multiple, slow>>
  BY DEF Follow
<1>6. ASSUME NEW k \in Caches, k \notin step, Kept(r, k)
      PROVE  Kept(new, k)
  <2>1. CASE Excused(r, k)
    BY <1>1, <1>2, <2>1 DEF Kept, Excused
  <2>2. CASE Owes(r, k)
    <3>1. PICK i \in r.next..Len(Steps(r.dialog)) : k \in Steps(r.dialog)[i]
      BY <2>2 DEF Owes
    <3>2. r.dialog \in Offers /\ r.next \in Nat
      BY <1>1 DEF AskedRows
    <3>3. Len(Steps(r.dialog)) \in Nat
      BY <3>2, StepsTyped
    <3>4. i \in new.next..Len(Steps(new.dialog))
      <4>1. i # r.next
        BY <1>6, <3>1
      <4> HIDE DEF new, r
      <4> QED BY <1>2, <3>2, <3>3, <4>1
    <3> QED BY <1>2, <3>1, <3>4 DEF Kept, Owes
  <2> QED BY <1>6, <2>1, <2>2 DEF Kept
<1>7. /\ read' = [k \in Caches |-> IF k \notin step THEN read[k]
           ELSE IF k \in Mounted(page) \cap slow THEN Sent(c) ELSE Idle]
      /\ behind' = [k \in Caches |->
           IF k \in (step \cap Mounted(page)) \ slow THEN {} ELSE behind[k]]
  BY DEF Follow, UpToDate
<1> HIDE DEF new, r, step
<1>8. TypeInv'
  <2>1. Sent(c) \in Reads /\ Idle \in Reads
    BY <1>1 DEF Sent, Idle, Reads
  <2> QED BY <1>4, <1>5, <1>7, <2>1 DEF Inv, TypeInv
<1>9. ASSUME NEW k \in Caches PROVE CacheInv(k)'
  <2>1. Mounted(page)' = Mounted(page)
    BY <1>5 DEF Mounted
  <2>2. CASE k \in step
    <3>1. read'[k].misses = {}
      BY <1>7, <2>2 DEF Sent, Idle
    <3>2. behind'[k] \subseteq Asked'
      BY <1>4, <1>7 DEF Inv, CacheInv
    <3>3. k \in Mounted(page) /\ read'[k].state = "idle" => behind'[k] = {}
      BY <1>7, <2>2 DEF Sent
    <3> QED BY <2>1, <3>1, <3>2, <3>3 DEF CacheInv
  <2>3. CASE k \notin step
    <3>1. read'[k] = read[k] /\ behind'[k] = behind[k]
      BY <1>7, <2>3
    <3>2. \A d \in Asked : Kept(asked[d], k) => Kept(asked'[d], k)
      BY <1>4, <1>6, <2>3 DEF r
    <3> QED BY <1>4, <2>1, <3>1, <3>2 DEF Inv, CacheInv
  <2> QED BY <2>2, <2>3
<1>10. ASSUME NEW d \in Asked', asked'[d].state = "sent"
       PROVE  /\ asked'[d].next = 1 /\ asked'[d].strays = {}
              /\ asked'[d].here => asked'[d].dialog \in Site[page].offers
  <2>1. d # c
    BY <1>2, <1>4, <1>10
  <2> QED BY <1>4, <1>10, <2>1 DEF Inv, SentInv
<1> QED BY <1>5, <1>8, <1>9, <1>10 DEF Inv, SentInv

\* A read is answered: the cache is behind on what the answer misses, which is owed.
LEMMA ReceiveKeeps ==
  ASSUME Inv, NEW k \in Caches, Receive(k)
  PROVE  Inv'
<1>1. UNCHANGED <<page, multiple, slow, asked>> /\ read' = [read EXCEPT ![k] = Idle]
      /\ behind' = [behind EXCEPT ![k] = read[k].misses]
  BY DEF Receive
<1>2. Idle \in Reads /\ Idle.misses = {}
  BY DEF Idle, Reads
<1>3. read[k].misses \in SUBSET Nat
  BY DEF Inv, TypeInv, Reads
<1>4. TypeInv'
  BY <1>1, <1>2, <1>3 DEF Inv, TypeInv
<1>5. SentInv'
  BY <1>1 DEF Inv, SentInv, Asked
<1>6. Mounted(page)' = Mounted(page) /\ Asked' = Asked
  BY <1>1 DEF Mounted, Asked
<1>7. ASSUME NEW j \in Caches PROVE CacheInv(j)'
  <2>1. CASE j = k
    <3>1. read'[j].misses = {} /\ behind'[j] = read[k].misses
      BY <1>1, <1>2, <2>1 DEF Inv, TypeInv
    <3> QED BY <1>1, <1>6, <2>1, <3>1 DEF Inv, CacheInv
  <2>2. CASE j # k
    <3>1. read'[j] = read[j] /\ behind'[j] = behind[j]
      BY <1>1, <2>2 DEF Inv, TypeInv
    <3> QED BY <1>1, <1>6, <3>1 DEF Inv, CacheInv
  <2> QED BY <2>1, <2>2
<1> QED BY <1>4, <1>5, <1>7 DEF Inv

\* A read fails, or is tried again: it is still to be answered, or no page needs it.
LEMMA ReadKeeps ==
  ASSUME Inv, NEW k \in Caches, LoseRead(k) \/ Retry(k)
  PROVE  Inv'
<1>1. PICK fresh \in {Broken, Idle, Sent(0)} :
        read' = [read EXCEPT ![k] = fresh] /\ (fresh = Idle => k \notin Mounted(page))
  BY DEF LoseRead, Retry, Broken, Idle, Sent
<1>2. UNCHANGED <<page, multiple, slow, asked, behind>>
  BY DEF LoseRead, Retry
<1>3. fresh \in Reads /\ fresh.misses = {} /\ (fresh.state = "idle" => fresh = Idle)
  BY DEF Broken, Idle, Sent, Reads
<1>4. TypeInv'
  BY <1>1, <1>2, <1>3 DEF Inv, TypeInv
<1>5. SentInv'
  BY <1>2 DEF Inv, SentInv, Asked
<1>6. Mounted(page)' = Mounted(page) /\ Asked' = Asked
  BY <1>2 DEF Mounted, Asked
<1>7. ASSUME NEW j \in Caches PROVE CacheInv(j)'
  <2>1. read'[j] = IF j = k THEN fresh ELSE read[j]
    BY <1>1 DEF Inv, TypeInv
  <2> QED BY <1>1, <1>2, <1>3, <1>6, <2>1 DEF Inv, CacheInv
<1> QED BY <1>4, <1>5, <1>7 DEF Inv

\* Another page is opened: what it shows is read, or was being read already.
LEMMA OpenKeeps ==
  ASSUME Inv, NEW p \in Pages, Open(p)
  PROVE  Inv'
<1> DEFINE new(c) == [asked[c] EXCEPT !.here = @ /\ Over(asked[c])]
<1>1. /\ page' = p /\ UNCHANGED <<multiple, slow>>
      /\ read' = Opened(p, read) /\ behind' = UpToDate(Mounted(p))
      /\ asked' = [c \in Asked |-> new(c)]
  BY DEF Open
<1>2. ASSUME NEW c \in Asked
      PROVE  /\ asked[c] \in AskedRows /\ new(c) \in AskedRows
             /\ new(c).dialog = asked[c].dialog /\ new(c).state = asked[c].state
             /\ new(c).next = asked[c].next /\ new(c).strays = asked[c].strays
             /\ new(c).here = (asked[c].here /\ Over(asked[c]))
  <2>1. asked[c] \in AskedRows
    BY DEF Inv, TypeInv, Asked
  <2>2. asked[c].here \in BOOLEAN /\ (asked[c].here /\ Over(asked[c])) \in BOOLEAN
    BY <2>1 DEF AskedRows, Over
  <2> QED BY <2>1, <2>2 DEF AskedRows
<1> HIDE DEF new
<1>3. Asked = 1..Len(asked) /\ Len(asked) \in Nat
  BY DEF Inv, TypeInv, Asked
<1>4. asked' \in Seq(AskedRows) /\ Asked' = Asked /\ \A c \in Asked : asked'[c] = new(c)
  <2>1. asked' \in [1..Len(asked) -> AskedRows]
    BY <1>1, <1>2, <1>3
  <2>2. asked' \in Seq(AskedRows)
    BY <1>3, <2>1, IsASeq
  <2> QED BY <1>1, <2>2 DEF Asked
<1>5. \A c \in Asked, k \in Caches : Kept(asked[c], k) => Kept(asked'[c], k)
  BY <1>2, <1>4 DEF Kept, Owes, Excused
<1>6. /\ read' = [k \in Caches |-> IF read[k].state = "sent" THEN read[k]
           ELSE IF k \in Mounted(p) \cap slow THEN Sent(0) ELSE Idle]
      /\ behind' = [k \in Caches |-> IF k \in Mounted(p) \ slow THEN {} ELSE behind[k]]
  BY <1>1 DEF Opened, UpToDate
<1>7. TypeInv'
  <2>1. Sent(0) \in Reads /\ Idle \in Reads /\ p \in DOMAIN Site
    BY PagesAssumption DEF Sent, Idle, Reads
  <2> QED BY <1>1, <1>4, <1>6, <2>1 DEF Inv, TypeInv
<1>8. ASSUME NEW k \in Caches PROVE CacheInv(k)'
  <2>1. Mounted(page)' = Mounted(p)
    BY <1>1 DEF Mounted
  <2>2. read'[k].misses \subseteq read[k].misses
    BY <1>6 DEF Sent, Idle
  <2>3. behind'[k] \subseteq behind[k]
    BY <1>6
  <2>4. k \in Mounted(p) /\ read'[k].state = "idle" => behind'[k] = {}
    BY <1>6 DEF Sent
  <2>5. read[k].misses \subseteq Asked /\ \A c \in read[k].misses : Kept(asked'[c], k)
    BY <1>5 DEF Inv, CacheInv
  <2>6. behind[k] \subseteq Asked
    BY DEF Inv, CacheInv
  <2> QED BY <1>4, <2>1, <2>2, <2>3, <2>4, <2>5, <2>6 DEF CacheInv
<1>9. SentInv'
  <2>1. \A c \in Asked' : asked'[c].state = "sent" => ~Over(asked[c]) /\ asked[c].state = "sent"
    BY <1>2, <1>4 DEF Over
  <2> QED BY <1>2, <1>4, <2>1 DEF Inv, SentInv
<1> QED BY <1>7, <1>8, <1>9 DEF Inv

\* Initially nothing was asked; every step keeps the invariant.
LEMMA InvHolds == Spec => []Inv
<1>1. Init => Inv
  <2> SUFFICES ASSUME Init PROVE Inv
    OBVIOUS
  <2>1. \A k \in Caches : read[k] \in Reads /\ read[k].misses = {} /\ behind[k] = {}
    BY DEF Init, Opened, Sent, Idle, Reads
  <2>2. TypeInv
    BY <2>1, PagesAssumption DEF Init, Opened, TypeInv
  <2>3. SentInv
    BY DEF Init, SentInv, Asked
  <2> QED BY <2>1, <2>2, <2>3 DEF Inv, CacheInv
<1>2. Inv /\ [Next]_vars => Inv'
  <2> SUFFICES ASSUME Inv, [Next]_vars PROVE Inv'
    OBVIOUS
  <2>1. CASE \E dialog \in Site[page].offers : Ask(dialog)
    BY <2>1, AskKeeps
  <2>2. ASSUME NEW c \in Asked, Serve(c) \/ LoseAnswer(c) PROVE Inv'
    <3> DEFINE aspects == asked[c].dialog.request.changes
    <3>1. aspects \in SUBSET Touches(asked[c].dialog.request) /\ Changed(c, aspects)
          /\ \E failed \in BOOLEAN : Settle(c, failed)
      BY <2>2 DEF Serve, LoseAnswer, Touches
    <3> HIDE DEF aspects
    <3> QED BY <3>1, SettleKeeps
  <2>3. ASSUME NEW c \in Asked, Refuse(c) PROVE Inv'
    <3> DEFINE aspects == asked[c].dialog.request.halfway
    <3>1. aspects \in SUBSET Touches(asked[c].dialog.request) /\ Changed(c, aspects)
          /\ Settle(c, TRUE)
      BY <2>3 DEF Refuse, Touches
    <3> HIDE DEF aspects
    <3> QED BY <3>1, SettleKeeps
  <2>4. ASSUME NEW c \in Asked, LoseRequest(c) PROVE Inv'
    <3>1. {} \in SUBSET Touches(asked[c].dialog.request) /\ Settle(c, TRUE)
          /\ UNCHANGED <<behind, read>>
      BY <2>4 DEF LoseRequest
    <3> QED BY <3>1, SettleKeeps
  <2>5. ASSUME NEW c \in Asked, Follow(c) PROVE Inv'
    BY <2>5, FollowKeeps
  <2>6. ASSUME NEW k \in Caches, Receive(k) \/ LoseRead(k) \/ Retry(k) PROVE Inv'
    BY <2>6, ReceiveKeeps, ReadKeeps
  <2>7. ASSUME NEW p \in Pages, Open(p) PROVE Inv'
    BY <2>7, OpenKeeps
  <2>8. CASE UNCHANGED vars
    BY <2>8 DEF vars, Inv, TypeInv, SentInv, CacheInv, Asked, Mounted
  <2> QED BY <2>1, <2>2, <2>3, <2>4, <2>5, <2>6, <2>7, <2>8 DEF Next
<1> QED BY <1>1, <1>2, PTL DEF Spec

\* The pages show caches of the catalog.
LEMMA MountedCaches == \A p \in DOMAIN Site : Mounted(p) \subseteq Caches
<1>1. /\ HomePage.caches \subseteq Caches /\ ClubsPage.caches \subseteq Caches
      /\ SettingsPage.caches \subseteq Caches /\ PlayersPage.caches \subseteq Caches
  BY Catalog DEF HomePage, ClubsPage, SettingsPage, PlayersPage, Page, TournamentPage
<1>2. /\ TeamsPage.caches \subseteq Caches /\ RankingsPage.caches \subseteq Caches
      /\ StagesPage.caches \subseteq Caches
  BY Catalog DEF TeamsPage, RankingsPage, StagesPage, Page, TournamentPage
<1>3. /\ SwissTournamentPage.caches \subseteq Caches /\ ResultsPage.caches \subseteq Caches
      /\ SchedulePage.caches \subseteq Caches
  BY Catalog DEF SwissTournamentPage, ResultsPage, SchedulePage, Page, TournamentPage
<1>4. \A p \in DOMAIN Site : Site[p].caches \subseteq Caches
  BY <1>1, <1>2, <1>3 DEF Site
<1> QED BY <1>4 DEF Mounted

\* At rest a page that is open excuses all its caches are behind on.
LEMMA RestExcused ==
  ASSUME Inv, AtRest, NEW k \in Caches, k \in Mounted(page), NEW c \in behind[k]
  PROVE  Excused(asked[c], k)
<1>1. c \in Asked /\ Kept(asked[c], k)
  BY DEF Inv, CacheInv, AtRest
<1>2. asked[c] \in AskedRows /\ Over(asked[c])
  BY <1>1 DEF Inv, TypeInv, Asked, AtRest
<1>3. asked[c].dialog \in Offers /\ asked[c].next \in Nat
  BY <1>2 DEF AskedRows
<1>4. Len(Steps(asked[c].dialog)) \in Nat
  BY <1>3, StepsTyped
<1>5. ~Owes(asked[c], k)
  BY <1>2, <1>3, <1>4 DEF Over, Owes
<1> QED BY <1>1, <1>5 DEF Kept

\* Once nothing is under way, an open page shows what was changed on it, but for what its
\* dialogs forget, reads left over from another page, dialogs whose page was left and
\* errors that were not caught: whatever is asked, opened, refused or lost, how often ever.
THEOREM OwnChangesAlwaysShown == Spec => []OwnChangesShown
<1>1. Inv => OwnChangesShown
  <2> SUFFICES ASSUME Inv, AtRest, NEW k \in Mounted(page) \ {"issues"}, NEW c \in behind[k]
               PROVE  \/ Forgets(asked[c].dialog, k) \/ ~asked[c].here
                      \/ k \in asked[c].strays \/ asked[c].state = "thrown"
    BY DEF OwnChangesShown
  <2>1. k \in Caches
    BY MountedCaches DEF Inv, TypeInv
  <2> QED BY <2>1, RestExcused DEF Excused
<1> QED BY <1>1, InvHolds, PTL

\* Once nothing is under way, the badges of an open page count every change but those of
\* dialogs that ended in an error that was not caught, also of pages that were left.
THEOREM BadgesAlwaysCount == Spec => []BadgesCount
<1>1. Inv => BadgesCount
  <2>1. "issues" \in Caches
    BY Catalog
  <2> QED BY <2>1, RestExcused DEF Excused, BadgesCount
<1> QED BY <1>1, InvHolds, PTL
=============================================================================
