----------------------------- MODULE MCSettings -----------------------------
EXTENDS Settings, TLC

MCTexts == STRING

RuleOf(t, on, d) == [type |-> t, on |-> on, days |-> d]

CheckinOffers ==
    {[amount |-> 6], [min |-> 3, max |-> 9], [mode |-> "random", ranges |-> {<<3, 6>>, <<6, 9>>}],
     [mode |-> "random", min |-> 3, max |-> 3], [min |-> 1, max |-> 1, mode |-> "random"], [min |-> 1, max |-> 2], [mode |-> "random"], [ranges |-> {<<1, 1>>}],
     [cap |-> 3], [cap |-> 12], [budget |-> 0, days |-> 1], [zone |-> "bad"],
     Template("daily"), Template("promo"), Template("off")}

PatrolOffers ==
    {[concurrency |-> 0, timeout |-> 0], [concurrency |-> 51, threshold |-> 11], [cron |-> ""], [cron |-> "bad"],
     [enabled |-> TRUE, cron |-> "daily", action |-> "delete"], [action |-> "other", threshold |-> 0],
     [prompt |-> "", keep |-> 0, model |-> "m"]}

NotifyOffers ==
    {[target |-> "url"], [enabled |-> TRUE, target |-> ""], [channel |-> "telegram", target |-> "token"],
     [extra |-> "chat"], [channel |-> "other", level |-> "other"], [secret |-> ""], [secret |-> "new"],
     [clear |-> TRUE], [events |-> {}], [events |-> {"budget", "other"}]}

ReportOffers ==
    {[sendAt |-> "23:30"], [sendAt |-> "24:00"], [zone |-> ""], [zone |-> "bad"], [zone |-> "UTC"],
     [cover |-> ""], [cover |-> "today"], [cover |-> "other"], [sections |-> {"other"}],
     [sections |-> {"patrol", "other"}]}

Prize(a, w) == [amount |-> a, weight |-> w]

LotteryOffers ==
    {[prizes |-> <<>>], [prizes |-> <<Prize(6, 0), Prize(3, -1)>>], [prizes |-> <<Prize(-3, 1), Prize(99, 2000000)>>],
     [prizes |-> <<Prize(1, 1), Prize(2, 0)>>], [budget |-> -1, cap |-> 5], [requireCheckin |-> FALSE]}

RedistributionOffers ==
    LET d == RedistributionDefaults
    IN {[d EXCEPT !.inactive = <<RuleOf("no_active_days", TRUE, 10), RuleOf("no_usage_days", FALSE, 0)>>],
        [d EXCEPT !.inactive = <<RuleOf("no_usage_days", FALSE, 0), RuleOf("no_usage_days", TRUE, 5)>>, !.draw.mode = "fixed"],
        [d EXCEPT !.active = <<RuleOf("other", TRUE, 1)>>, !.reclaim.mode = "other"],
        [d EXCEPT !.active = <<RuleOf("used_within_days", TRUE, -1)>>],
        [d EXCEPT !.reclaim = [mode |-> "percent", value |-> 101, reserve |-> -1, min |-> 0, max |-> 0]],
        [d EXCEPT !.reclaim = [mode |-> "percent", value |-> 100, reserve |-> -1, min |-> 0, max |-> 0]],
        [d EXCEPT !.reclaim = [mode |-> "excess", value |-> 0, reserve |-> 1, min |-> 3, max |-> 2]],
        [d EXCEPT !.draw = [mode |-> "random", fixed |-> 0, min |-> 2, max |-> 1]],
        [d EXCEPT !.allocation.mode = "fixed", !.keep = 501],
        [d EXCEPT !.enabled = TRUE, !.keep = 501, !.failPercent = 101, !.cron = "", !.excluded = {-1, 4}]}

Task(i, k, t, p, r) == [id |-> i, kind |-> k, target |-> t, period |-> p, reward |-> r]

TaskOffers ==
    {[enabled |-> TRUE, defs |-> <<>>],
     [enabled |-> TRUE, defs |-> <<Task("a", "streak", 0, "", 1), Task("b", "daily_lottery", 5, "", 2)>>],
     [enabled |-> FALSE, defs |-> <<Task("a", "streak", 2, "once", 1), Task("a", "streak", 3, "once", 1)>>],
     [enabled |-> TRUE, defs |-> <<Task("", "streak", 2, "once", 1)>>],
     [enabled |-> TRUE, defs |-> <<Task("a", "other", 2, "once", 1)>>],
     [enabled |-> TRUE, defs |-> <<Task("a", "weekly_checkin", 2, "monthly", 1)>>],
     [enabled |-> TRUE, defs |-> <<Task("a", "weekly_checkin", 2, "", -1)>>],
     [enabled |-> FALSE, defs |-> <<Task("a", "weekly_checkin", 2, "", 4)>>]}

MediaOffers ==
    {[driver |-> "webdav"], [driver |-> "webdav", url |-> "https", password |-> "new"], [url |-> "ftp"],
     [driver |-> "other"], [clear |-> TRUE], [url |-> "http", password |-> ""], [fallback |-> FALSE, root |-> "r"]}

MCModules == {"checkin", "patrol", "notify", "report", "lottery", "redistribution", "tasks", "media"}

MCOffers ==
    [m \in MCModules |->
        CASE m = "checkin" -> CheckinOffers [] m = "patrol" -> PatrolOffers
          [] m = "notify" -> NotifyOffers [] m = "report" -> ReportOffers
          [] m = "lottery" -> LotteryOffers [] m = "redistribution" -> RedistributionOffers
          [] m = "tasks" -> TaskOffers [] m = "media" -> MediaOffers]
=============================================================================
