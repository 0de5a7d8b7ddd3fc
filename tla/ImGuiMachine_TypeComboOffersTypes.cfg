\* Expected violation of TypeComboOffersTypes.
CONSTANTS
    c1 = c1
    c2 = c2
    c3 = c3
    NoConfig = NoConfig
    Configs <- MCConfigs
    ConfigName <- MCConfigName
    Metas <- MCMetas
    FilterStrings <- MCFilterStrings
SPECIFICATION Spec
INVARIANT TypeComboOffersTypes
